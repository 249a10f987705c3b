----------------------------- MODULE LoadStore -----------------------------
(* Loads and stores from dispatch to memory: issue_queue_mem.sv, the         *)
(* registers of core.sv behind it, pipe 3, and the harness of sim_main2.cc   *)
(* with its store buffer.  One step is one clock cycle: at the falling edge  *)
(* the harness reads the core's outputs, at the rising edge the core's       *)
(* registers change.  Operands, the integer queue and the retirement of      *)
(* what is complete are the environment.                                     *)
EXTENDS StoreBuffer, SkidStage

CONSTANTS
  DISPATCH_WIDTH, IQ_MEM_SIZE, COMMIT_WIDTH,
  ACCESSES,  \* the [st, addr, size] of the loads and stores
  MAX_UOP    \* bound: micro-ops dispatched

ASSUME LoadStoreAssumption ==
  /\ DISPATCH_WIDTH \in Nat \ {0} /\ IQ_MEM_SIZE \in Nat \ {0} /\ COMMIT_WIDTH \in Nat \ {0}
  /\ MAX_UOP \in Nat /\ ACCESSES \subseteq [st : BOOLEAN, addr : Int, size : {1, 2, 4, 8}]

VARIABLES
  is, iq_full_reg,     \* DP ~ IS register with its skid; iq_full, delayed
  slots, is_new,       \* the issue queue; the slots loaded in the last cycle
  free_count_reg, tail_reg,
  rf, ex,              \* IS ~ RF and RF ~ EX registers
  pipe,                \* uop_reg of pipe 3, whose data-cache outputs go with it
  cm,                  \* cm_uops_complete: what the ROB hears of in this cycle
  store_retire, recover,  \* outputs of the core: stores retired, flush
  halted,              \* the harness has left its loop
  \* History variables.
  fresh,               \* micro-ops dispatched so far
  path,                \* those of the current path, in program order
  retired,             \* how many of these have retired
  told,                \* how many had before this cycle, of which the harness knows
  done                 \* ids that the ROB knows complete

iqVars == <<is, iq_full_reg, slots, is_new, free_count_reg, tail_reg>>
exVars == <<rf, ex, pipe, cm, store_retire, recover>>
pathVars == <<fresh, path, retired, told, done>>
vars == <<bufferVars, iqVars, exVars, halted, pathVars>>

Uop == {[id |-> i, st |-> a.st, addr |-> a.addr, size |-> a.size] : i \in 1..MAX_UOP, a \in ACCESSES}
NoUop == [id |-> 0, st |-> FALSE, addr |-> 0, size |-> 1]
Slot == 0..(IQ_MEM_SIZE - 1)
Bubble == [i \in 1..DISPATCH_WIDTH |-> NoUop]
NoSlots == [k \in Slot |-> NoUop]

Valid(u) == u.id # 0
Uops(f) == {f[i] : i \in DOMAIN f} \ {NoUop}

Init ==
  /\ BufferInit
  /\ is = SkidReset(Bubble) /\ iq_full_reg = FALSE
  /\ slots = NoSlots /\ is_new = {} /\ free_count_reg = IQ_MEM_SIZE /\ tail_reg = 0
  /\ rf = NoUop /\ ex = NoUop /\ pipe = NoUop /\ cm = NoUop
  /\ store_retire = 0 /\ recover = FALSE /\ halted = FALSE
  /\ fresh = 0 /\ path = <<>> /\ retired = 0 /\ told = 0 /\ done = {}

-----------------------------------------------------------------------------
(* The issue queue.  `operands' are the slots whose registers are not busy.  *)

\* A store waits in its slot until it is the oldest of all, and holds back
\* what is behind it.
Unmasked_All(k) == TRUE
Unmasked_StoreNever(k) == \A j \in {j \in Slot : slots[j].st} : k < j
Unmasked(k) == LET stores == {j \in Slot : slots[j].st}
               IN \A j \in stores : IF j = 0 THEN k = 0 ELSE k < j

Ready(operands) == {k \in operands \ is_new : Valid(slots[k]) /\ Unmasked(k)}

\* The slot that issues, as a set of at most one.
Selected(operands) ==
  LET ready == Ready(operands) IN {k \in ready : \A j \in ready : k <= j}
uop_out(sel) == IF sel = {} THEN NoUop ELSE slots[CHOOSE k \in sel : TRUE]

\* The counters have one bit more than a slot index.
free_count(sel) ==
  (free_count_reg - Cardinality(Uops(is.in)) + Cardinality(sel)) % (2 * IQ_MEM_SIZE)
iq_mem_full(sel) == free_count(sel) < DISPATCH_WIDTH
tail(sel) == (tail_reg + Cardinality(Uops(is.in)) - Cardinality(sel)) % (2 * IQ_MEM_SIZE)

\* Input i goes i slots behind the tail, which moves down as one issues.
Loaded_AtOldTail(k, sel) ==
  {i \in 1..DISPATCH_WIDTH : k = tail_reg + i - 1 /\ Valid(is.in[i]) /\ ~iq_full_reg}
Loaded(k, sel) ==
  {i \in 1..DISPATCH_WIDTH :
     k = tail_reg - Cardinality(sel) + i - 1 /\ Valid(is.in[i]) /\ ~iq_full_reg}

\* What slot k holds after the slots from the issued one on have moved down.
uop_new_KeepsIssued(k, sel) == slots[k]
uop_new(k, sel) ==
  IF \A j \in sel : k < j THEN slots[k] ELSE IF k + 1 \in Slot THEN slots[k + 1] ELSE NoUop

slots_next(sel) ==
  [k \in Slot |-> IF Loaded(k, sel) # {}
                  THEN is.in[CHOOSE i \in Loaded(k, sel) : TRUE]
                  ELSE uop_new(k, sel)]

Queue(group, operands, int_full, clear) ==
  LET sel     == Selected(operands)
      iq_full == int_full \/ iq_mem_full(sel)
  IN
  /\ is' = SkidNext(is, clear, iq_full, group, Bubble)
  /\ iq_full_reg' = iq_full
  /\ IF clear
     THEN slots' = NoSlots /\ is_new' = {} /\ free_count_reg' = IQ_MEM_SIZE /\ tail_reg' = 0
     ELSE /\ slots' = slots_next(sel) /\ is_new' = {k \in Slot : Loaded(k, sel) # {}}
          /\ free_count_reg' = free_count(sel) /\ tail_reg' = tail(sel)
  /\ rf' = IF clear THEN NoUop ELSE uop_out(sel)

-----------------------------------------------------------------------------
(* Pipe 3 and the harness.                                                   *)

\* The harness answers in the cycle in which it is asked, so that pipe 3 is
\* done with each micro-op after one cycle.
Pipe3(clear) ==
  /\ ex' = IF clear THEN NoUop ELSE rf
  /\ pipe' = IF clear THEN NoUop ELSE ex
  /\ cm' = IF clear THEN NoUop ELSE pipe

Committed_FlushFirst ==
  CommitStoreRequest(mem, IF recover THEN <<>> ELSE buffer, store_retire)
Committed == CommitStoreRequest(mem, buffer, store_retire)
Unflushed_Never == Committed.buffer
Unflushed == IF recover THEN <<>> ELSE Committed.buffer

\* The line that a load in pipe 3 gets.
dcache2core_data == LoadData(Committed.mem, Unflushed, pipe.addr)

Request(u) == [id |-> u.id, addr |-> u.addr, size |-> u.size]

HarnessCycle ==
  /\ ~halted /\ ~Committed.stop
  /\ mem' = Committed.mem
  /\ buffer' = IF pipe.st THEN Append(Unflushed, Request(pipe)) ELSE Unflushed
  /\ UNCHANGED halted

\* The harness leaves its loop.
Halt ==
  /\ ~halted /\ Committed.stop
  /\ mem' = Committed.mem /\ buffer' = Committed.buffer /\ halted' = TRUE
  /\ UNCHANGED <<iqVars, exVars, pathVars>>

-----------------------------------------------------------------------------
(* The clock cycle.                                                          *)

Complete == done \cup ({cm.id} \ {0})

\* The first n that have not retired do so in this cycle.  The ROB retires in
\* order what is complete (RobQueue), and other micro-ops lie between.
MayRetire(n) ==
  /\ n <= COMMIT_WIDTH /\ retired + n <= Len(path)
  /\ \A k \in (retired + 1)..(retired + n) : path[k].id \in Complete

Retire(n, clear) ==
  /\ MayRetire(n)
  /\ retired' = retired + n /\ told' = retired
  /\ store_retire' = Cardinality({k \in (retired + 1)..(retired + n) : path[k].st})
  /\ recover' = clear
  /\ done' = Complete

\* A group from dispatch.sv, which packs it.  FrontEnd proves that nothing
\* arrives in the cycle after a stall (SkidsSuffice).
Groups ==
  LET room == IF is.stall_prev THEN 0 ELSE MAX_UOP - fresh
      group(n, a) == [i \in 1..DISPATCH_WIDTH |->
                        IF i <= n THEN [id |-> fresh + i, st |-> a[i].st,
                                        addr |-> a[i].addr, size |-> a[i].size]
                        ELSE NoUop]
  IN UNION {{group(n, a) : a \in [1..n -> ACCESSES]} :
              n \in 0..(IF room < DISPATCH_WIDTH THEN room ELSE DISPATCH_WIDTH)}

\* No mispredict retires in this cycle.
Advance(group, operands, int_full) == \E n \in 0..COMMIT_WIDTH :
  /\ HarnessCycle /\ Queue(group, operands, int_full, FALSE) /\ Pipe3(FALSE) /\ Retire(n, FALSE)
  /\ fresh' = fresh + Cardinality(Uops(group))
  /\ path' = path \o SubSeq(group, 1, Cardinality(Uops(group)))

\* Only the first slot that is ready issues, so that these sets show every case.
Operands == {Slot, {}} \cup {{k} : k \in Slot}

\* A mispredicted branch retires behind the n micro-ops.
Flush == \E n \in 0..COMMIT_WIDTH, operands \in Operands, int_full \in BOOLEAN :
  /\ HarnessCycle /\ Queue(Bubble, operands, int_full, TRUE) /\ Pipe3(TRUE) /\ Retire(n, TRUE)
  /\ path' = SubSeq(path, 1, retired + n)
  /\ UNCHANGED fresh

Next ==
  \/ \E group \in Groups, operands \in Operands, int_full \in BOOLEAN :
       Advance(group, operands, int_full)
  \/ Flush
  \/ Halt

Spec == Init /\ [][Next]_vars
\* The clock never stops, and cycles come again and again in which every
\* operand is there and the integer queue is not full.  Neither an arrival nor
\* a flush ever has to come to the rescue.
FairSpec == Spec /\ SF_vars(Advance(Bubble, Slot, FALSE)) /\ WF_vars(Halt)

-----------------------------------------------------------------------------
(* Properties.                                                               *)

\* The queue is a packed list in program order whose length both counters
\* know, although it loses one in the middle and gains several at the end in
\* one cycle; and a group that waits to be loaded finds the room for it.
QueuePacked ==
  LET n == tail_reg IN
  /\ free_count_reg = IQ_MEM_SIZE - n
  /\ \A k \in Slot : Valid(slots[k]) <=> k < n
  /\ \A j, k \in 0..(n - 1) : j < k => slots[j].id < slots[k].id
  /\ Uops(is.in) # {} => n + Cardinality(Uops(is.in)) <= IQ_MEM_SIZE /\ ~iq_full_reg

Places(u) == Cardinality({<<0, i>> : i \in {i \in 1..DISPATCH_WIDTH : is.in[i] = u}}
               \cup {<<1, i>> : i \in {i \in 1..DISPATCH_WIDTH : is.tmp[i] = u}}
               \cup {<<2, k>> : k \in {k \in Slot : slots[k] = u}}
               \cup {<<3, p>> : p \in {p \in 1..4 : <<rf, ex, pipe, cm>>[p] = u}})

\* A load or store of the current path that the ROB does not know complete is
\* in exactly one place, so that it executes once; and nothing of a flushed
\* path is left.
ExecutesOnce ==
  LET current == {path[k] : k \in DOMAIN path} IN
  /\ \A u \in current : u.id \notin done => Places(u) = 1
  /\ Uops(is.in) \cup Uops(is.tmp) \cup Uops(slots) \cup Uops(<<rf, ex, pipe, cm>>) \subseteq current

\* What the harness gets to see of the stores at these places of the path.
StoresAt(S) == {Request(path[k]) : k \in {k \in S : path[k].st}}

\* The buffer holds the executed stores of the path that are not in memory,
\* in program order.  In the cycle that announces a flush there may be others
\* behind them; they are thrown away after the retired ones were committed.
BufferExact ==
  LET pending == {s \in StoresAt((told + 1)..Len(path)) : s.id \in Complete}
      held    == {buffer[i] : i \in DOMAIN buffer}
  IN ~halted =>
       /\ \A i, j \in DOMAIN buffer : i < j => buffer[i].id < buffer[j].id
       /\ pending \subseteq held
       /\ \A r \in held \ pending : recover /\ \A s \in pending : s.id < r.id

\* Memory is what the retired stores made of it, one after the other.
MemoryInOrder == ~halted => \A b \in ADDR : mem[b] = NewestByte(StoresAt(1..told), b)

\* Each byte of ordinary memory that a load gets, while the harness answers, is
\* that of the youngest older store of the program over it, although loads
\* overtake each other in the queue, stores retire while they are loaded from,
\* and wrong-path stores come and go.
LoadsInProgramOrder ==
  LET older == {s \in StoresAt(DOMAIN path) : s.id < pipe.id} IN
  (Valid(pipe) /\ ~pipe.st /\ ~halted /\ ~Committed.stop) =>
    \A j \in 0..(pipe.size - 1) : pipe.addr + j \in ADDR =>
      dcache2core_data[j] = NewestByte(older, pipe.addr + j)

\* store_buffer.cc:15: the error "#commit > store buffer size" never happens:
\* the harness stops only when the program asks for it.
StopsOnRequest ==
  halted => \E k \in 1..retired : path[k].st /\ path[k].addr = HALT_ADDR

\* Every load and store of the path executes, unless it is flushed or the
\* simulation ends before.
EveryAccessCompletes == \A id \in 1..MAX_UOP :
  (\E k \in DOMAIN path : path[k].id = id)
    ~> (id \in done \/ halted \/ \A k \in DOMAIN path : path[k].id # id)
=============================================================================
