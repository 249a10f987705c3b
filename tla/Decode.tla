------------------------------- MODULE Decode -------------------------------
(* From the instruction to the queue its micro-op waits in: inst_decode.sv   *)
(* makes a micro-op of each instruction of a group, the ROB takes the valid  *)
(* ones in program order, and dispatch.sv splits the group between the       *)
(* queues.  Renaming is reduced to what RenameCommit shows of it, that each  *)
(* micro-op reads the youngest older one that writes its register; waiting,  *)
(* executing and completing, which IssueInt and LoadStore model cycle by     *)
(* cycle, are one step, and so is the retirement of one micro-op.  Encodings *)
(* are kinds of instructions, and immediates and operations are left out.    *)
EXTENDS Integers, SequencesExt

CONSTANTS
  Insts,                \* the instructions that programs are made of
  DECODE_WIDTH,
  MAX_INST              \* bound: instructions on the current path

\* Every instruction has the bits of three register fields; a format that does
\* not use one has other bits there.
Kind == {"LUI", "AUIPC", "JAL", "JALR", "BRANCH", "LOAD", "STORE", "OP_IMM", "OP",
         "FLW", "FSW", "FP", "FP_UNARY", "FENCE", "ECALL", "EBREAK", "MUL_DIV"}

ASSUME DecodeAssumption ==
  /\ Insts \subseteq [kind : Kind, rd : Nat, rs1 : Nat, rs2 : Nat]
  /\ DECODE_WIDTH \in Nat \ {0} /\ MAX_INST \in Nat

VARIABLES
  path,          \* the instructions of the current path, so far; the others
                 \* hold positions in it
  rob,           \* micro-ops in the re-order buffer, oldest first
  int_q, mem_q,  \* micro-ops sent to the integer and the memory queue
  done,          \* complete micro-ops
  missed,        \* those among them that are mispredicted
  retired        \* history: what has retired

vars == <<path, rob, int_q, mem_q, done, missed, retired>>

Init ==
  /\ path = <<>> /\ rob = <<>> /\ int_q = <<>> /\ mem_q = <<>>
  /\ done = {} /\ missed = {} /\ retired = {}

-----------------------------------------------------------------------------
(* Decoding.  An operand is where it comes from and, if that is the register *)
(* file, the register; rd is the register that is written, or none.          *)

RF(r) == [from |-> "RS_FROM_RF", index |-> r]
From(source) == [from |-> source, index |-> 0]
IMM == From("RS_FROM_IMM")

MicroOp(iq, fu, rs1, rs2, rd) ==
  [valid |-> TRUE, iq_code |-> iq, fu_code |-> fu, store |-> FALSE,
   rs1 |-> rs1, rs2 |-> rs2, rd |-> rd]
\* What every instruction starts from; no issue queue and no unit.
Blank == MicroOp("IQ_X", "FU_X", From("RS_INVALID"), From("RS_INVALID"), {})

Lui(i)    == MicroOp("IQ_INT", "FU_ALU", From("RS_FROM_ZERO"), IMM, {i.rd})
Auipc(i)  == MicroOp("IQ_INT", "FU_ALU", From("RS_FROM_PC"), IMM, {i.rd})
Jal(i)    == MicroOp("IQ_INT", "FU_BR", From("RS_FROM_PC"), IMM, {i.rd})
Jalr(i)   == MicroOp("IQ_INT", "FU_BR", RF(i.rs1), IMM, {i.rd})
Branch(i) == MicroOp("IQ_INT", "FU_BR", RF(i.rs1), RF(i.rs2), {})
Load(i)   == MicroOp("IQ_MEM", "FU_MEM", RF(i.rs1), IMM, {i.rd})
OpImm(i)  == MicroOp("IQ_INT", "FU_ALU", RF(i.rs1), IMM, {i.rd})
Op(i)     == MicroOp("IQ_INT", "FU_ALU", RF(i.rs1), RF(i.rs2), {i.rd})

Store_WritesRd(i) ==
  [MicroOp("IQ_MEM", "FU_MEM", RF(i.rs1), RF(i.rs2), {i.rd}) EXCEPT !.store = TRUE]
Store(i) == [MicroOp("IQ_MEM", "FU_MEM", RF(i.rs1), RF(i.rs2), {}) EXCEPT !.store = TRUE]

\* Loads and stores of floating-point registers use the integer ones; other
\* floating-point instructions go to a queue that the core does not have.  The
\* third operand of the fused ones is left out.
Flw(i) == Load(i)
Fsw(i) == Store(i)
Fp(i)      == MicroOp("IQ_FP", "FU_FPU", RF(i.rs1), RF(i.rs2), {i.rd})
FpUnary(i) == MicroOp("IQ_FP", "FU_FPU", RF(i.rs1), From("RS_INVALID"), {i.rd})

Decoded(i) ==
  CASE i.kind = "LUI" -> Lui(i)       [] i.kind = "AUIPC" -> Auipc(i)
    [] i.kind = "JAL" -> Jal(i)       [] i.kind = "JALR" -> Jalr(i)
    [] i.kind = "BRANCH" -> Branch(i) [] i.kind = "LOAD" -> Load(i)
    [] i.kind = "STORE" -> Store(i)   [] i.kind = "OP_IMM" -> OpImm(i)
    [] i.kind = "OP" -> Op(i)         [] i.kind = "FLW" -> Flw(i)
    [] i.kind = "FSW" -> Fsw(i)       [] i.kind = "FP" -> Fp(i)
    [] i.kind = "FP_UNARY" -> FpUnary(i)
    [] i.kind \in {"FENCE", "ECALL", "EBREAK"} -> Blank
    [] OTHER -> [Blank EXCEPT !.valid = FALSE]

\* Nothing writes x0.
decode(i) == [Decoded(i) EXCEPT !.rd = @ \ {0}]

uop(i) == decode(path[i])

-----------------------------------------------------------------------------
(* Dispatch.  A selector takes the micro-ops of its queue out of the group,  *)
(* the lowest position first.  What the third one takes, for IQ_FP, is       *)
(* connected to nothing, and no one takes IQ_X.                              *)

Takes(i, iq_code) == LET u == decode(path'[i]) IN u.valid /\ u.iq_code = iq_code

dispatch_selector_KeepsTaken(group, iq_code) ==
  LET mine == SelectSeq(group, LAMBDA i : Takes(i, iq_code)) IN [k \in DOMAIN mine |-> mine[1]]
dispatch_selector_HighestFirst(group, iq_code) ==
  Reverse(SelectSeq(group, LAMBDA i : Takes(i, iq_code)))
dispatch_selector(group, iq_code) == SelectSeq(group, LAMBDA i : Takes(i, iq_code))

\* A group arrives, by the positions that it gets on the path.
Enter(insts) ==
  LET group == [k \in DOMAIN insts |-> Len(path) + k] IN
  /\ Len(path) + Len(insts) <= MAX_INST
  /\ path' = path \o insts
  /\ rob' = rob \o SelectSeq(group, LAMBDA i : decode(path'[i]).valid)
  /\ int_q' = int_q \o dispatch_selector(group, "IQ_INT")
  /\ mem_q' = mem_q \o dispatch_selector(group, "IQ_MEM")
  /\ UNCHANGED <<done, missed, retired>>

-----------------------------------------------------------------------------
(* Execution and retirement.                                                 *)

\* The micro-op whose result an operand of i is; 0 is none: a value of long
\* ago, the zero register, the pc or an immediate.
Producer(i, operand) ==
  IF operand.from # "RS_FROM_RF" \/ operand.index = 0 THEN 0
  ELSE Max({0} \cup {j \in 1..(i - 1) : uop(j).valid /\ operand.index \in uop(j).rd})
Ready(i) == {Producer(i, uop(i).rs1), Producer(i, uop(i).rs2)} \subseteq {0} \cup done

\* The memory queue: a store issues only from its first slot, and nothing
\* passes a store.
MayIssue(k) ==
  IF uop(mem_q[k]).store THEN k = 1
  ELSE \A j \in 1..(k - 1) : ~uop(mem_q[j]).store

\* A branch or a jump may turn out mispredicted.
Execute(i) ==
  /\ Ready(i)
  /\ \/ /\ i \in Range(int_q)
        /\ int_q' = Remove(int_q, i) /\ UNCHANGED mem_q
     \/ /\ \E k \in DOMAIN mem_q : mem_q[k] = i /\ MayIssue(k)
        /\ mem_q' = Remove(mem_q, i) /\ UNCHANGED int_q
  /\ done' = done \cup {i}
  /\ missed' \in {missed} \cup IF uop(i).fu_code = "FU_BR" THEN {missed \cup {i}} ELSE {}
  /\ UNCHANGED <<path, rob, retired>>

Retire ==
  /\ rob # <<>> /\ Head(rob) \in done
  /\ retired' = retired \cup {Head(rob)}
  /\ IF Head(rob) \notin missed
     THEN rob' = Tail(rob) /\ UNCHANGED <<path, int_q, mem_q, done, missed>>
     ELSE /\ path' = SubSeq(path, 1, Head(rob))
          /\ rob' = <<>> /\ int_q' = <<>> /\ mem_q' = <<>>
          /\ done' = done \cap 1..Head(rob) /\ missed' = missed \cap 1..Head(rob)

Next ==
  \/ \E n \in 1..DECODE_WIDTH : \E insts \in [1..n -> Insts] : Enter(insts)
  \/ \E i \in DOMAIN path : Execute(i)
  \/ Retire

Spec == Init /\ [][Next]_vars
\* What may issue does (IssueInt, LoadStore), and what may retire does (RobQueue).
FairSpec ==
  /\ Spec /\ WF_vars(Retire)
  /\ \A i \in 1..MAX_INST : WF_vars(i \in DOMAIN path /\ Execute(i))

-----------------------------------------------------------------------------
(* Properties.  What RISC-V's formats say: which instructions read their two *)
(* register fields, and which write a register.                              *)

WritesRd == {"LUI", "AUIPC", "JAL", "JALR", "LOAD", "OP_IMM", "OP", "MUL_DIV"}
ReadsRs1 == {"JALR", "BRANCH", "LOAD", "STORE", "OP_IMM", "OP", "MUL_DIV"}
ReadsRs2 == {"BRANCH", "STORE", "OP", "MUL_DIV"}

LastWriter(i, r) ==
  Max({0} \cup {j \in 1..(i - 1) : path[j].kind \in WritesRd /\ path[j].rd = r /\ r # 0})

\* Every instruction that has computed did so with the results that the
\* program means, whatever bits the register fields of other formats hold, in
\* whatever order it all executed, and after any mispredicted branch.
OperandsAgree == \A i \in done :
  LET u == uop(i)
      read == <<Producer(i, u.rs1), Producer(i, u.rs2)>>
  IN /\ read = <<IF path[i].kind \in ReadsRs1 THEN LastWriter(i, path[i].rs1) ELSE 0,
                 IF path[i].kind \in ReadsRs2 THEN LastWriter(i, path[i].rs2) ELSE 0>>
     /\ \A k \in 1..2 : read[k] \in {0} \cup done

\* What the core has no queue for: these enter the re-order buffer and stay.
Unserved(i) == path[i].kind \in {"FENCE", "ECALL", "EBREAK", "FP", "FP_UNARY"}

\* dispatch.sv:60: what waits in the re-order buffer for completion waits in
\* exactly one queue, once, and nothing else does, except the instructions that
\* have no queue; and the memory queue is in program order.
EachQueuedOnce ==
  LET waiting == int_q \o mem_q IN
  /\ Range(waiting) = {i \in Range(rob) \ done : ~Unserved(i)}
  /\ Len(waiting) = Cardinality(Range(waiting))
  /\ \A k \in DOMAIN mem_q : k > 1 => mem_q[k - 1] < mem_q[k]

\* Every instruction of the path retires, or is discarded by a mispredicted
\* branch in front of it, unless it is one that has no queue or comes behind one:
\* there the core stops (inst_decode.sv:756-764, under "todo").
EveryInstructionRetires == \A i \in 1..MAX_INST :
  (i \in DOMAIN path) ~>
    (i \in retired \/ i \notin DOMAIN path \/ \E j \in 1..i : Unserved(j))

\* Instructions retire one after another, without gaps.  checker.py compares
\* the i-th retired pc with the i-th that Spike, the reference, executes.
NothingSkipped == \A i \in retired : 1..i \subseteq retired
=============================================================================
