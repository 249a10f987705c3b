----------------------------- MODULE FetchPath -----------------------------
(* The path of the instructions: inst_fetch.sv, what inst_decode.sv makes of *)
(* a prediction, the outcome that function_unit.sv computes, the check of    *)
(* rob.sv and the redirect of branch_pred.sv.  The predictor is any: it may  *)
(* take any branch that is fetched to any address.  Between fetch and        *)
(* retirement there is one queue, which a misprediction empties; FrontEnd    *)
(* and RobQueue are such a queue.  Addresses are counted in words.  One step *)
(* is one clock edge.                                                        *)
EXTENDS Integers, Sequences

CONSTANTS
  FETCH_WIDTH, COMMIT_WIDTH,
  ADDR_SPACE,  \* number of addresses; they wrap
  PROGRAM,     \* the instruction at each address, [kind, target]
  RETURNS,     \* where an indirect jump may go
  MAX_WINDOW   \* bound: instructions in the queue

Addr == 0..(ADDR_SPACE - 1)
Plus(a, n) == (a + n) % ADDR_SPACE

ASSUME PathAssumption ==
  /\ FETCH_WIDTH \in Nat \ {0} /\ COMMIT_WIDTH \in Nat \ {0} /\ MAX_WINDOW \in Nat
  /\ ADDR_SPACE \in Nat \ {0} /\ RETURNS \subseteq Addr
  /\ PROGRAM \in [Addr -> [kind : {"X", "BR", "JAL", "JALR"}, target : Addr]]

VARIABLES
  pc,
  window,    \* instructions fetched and not retired, oldest first
  \* History variables.
  arch_pc,   \* where the program goes on, behind what retired
  strayed    \* something retired that the program does not execute there

pathVars == <<pc, window, arch_pc, strayed>>

Branch(a) == PROGRAM[a].kind # "X"

PathInit == pc = 0 /\ window = <<>> /\ arch_pc = 0 /\ strayed = FALSE

-----------------------------------------------------------------------------
(* Execution.  An instruction has the prediction it was fetched with,        *)
(* pred_taken and pred_addr, and gets its outcome.                           *)

Outcome == [br_taken : BOOLEAN, br_addr : Addr]
Outcomes(a) ==
  LET p == PROGRAM[a] IN
  {o \in Outcome :
     \/ ~o.br_taken /\ o.br_addr = Plus(a, 1) /\ p.kind \in {"X", "BR"}
     \/ o.br_taken /\ o.br_addr = p.target /\ p.kind \in {"BR", "JAL"}
     \/ o.br_taken /\ o.br_addr \in RETURNS /\ p.kind = "JALR"}

Executed(u, o) == [pc |-> u.pc, pred_taken |-> u.pred_taken, pred_addr |-> u.pred_addr,
                   br_taken |-> o.br_taken, br_addr |-> o.br_addr]

\* What branch_pred.sv and rob.sv, each for itself, take for a misprediction.
Mispredicts(u) ==
  Branch(u.pc) /\ (u.pred_taken # u.br_taken \/ u.br_addr # u.pred_addr)
Recovers_TakenOnly(u) == Branch(u.pc) /\ u.pred_taken # u.br_taken
Recovers(u) ==
  Branch(u.pc) /\ (u.pred_taken # u.br_taken \/ (u.br_addr # u.pred_addr /\ u.pred_taken))

\* The oldest n as they may retire, none behind a mispredicted one.
Retirements(n) ==
  {r \in {[k \in 1..n |-> Executed(window[k], o[k])] : o \in [1..n -> Outcome]} :
     /\ \A k \in 1..n : [br_taken |-> r[k].br_taken, br_addr |-> r[k].br_addr]
                          \in Outcomes(r[k].pc)
     /\ \A k \in 1..(n - 1) : ~Recovers(r[k])}

\* The first micro-op that branch_pred.sv finds mispredicted, as a set.
Redirect(r) == {k \in DOMAIN r : Mispredicts(r[k]) /\ \A j \in 1..(k - 1) : ~Mispredicts(r[j])}

-----------------------------------------------------------------------------
(* Fetch.  `taken' holds the one instruction i of the group at pc that is    *)
(* predicted taken, with its target, or nothing.                             *)

Predictions ==
  {{}} \cup {{[i |-> i, target |-> t]} :
               i \in {i \in 0..(FETCH_WIDTH - 1) : Branch(Plus(pc, i))}, t \in Addr}

next_pc(taken) ==
  IF taken = {} THEN Plus(pc, FETCH_WIDTH) ELSE (CHOOSE x \in taken : TRUE).target

\* decode gives what is not predicted taken the next address as prediction.
Fetched(taken, k) ==
  LET t == {x \in taken : x.i = k - 1}
  IN [pc |-> Plus(pc, k - 1), pred_taken |-> t # {},
      pred_addr |-> IF t = {} THEN Plus(Plus(pc, k - 1), 1)
                    ELSE (CHOOSE x \in t : TRUE).target]

\* What follows an instruction that is predicted taken is not valid.
FetchedGroup_Uncut(taken) == [k \in 1..FETCH_WIDTH |-> Fetched(taken, k)]
FetchedGroup(taken) ==
  [k \in 1..(IF taken = {} THEN FETCH_WIDTH ELSE (CHOOSE x \in taken : TRUE).i + 1) |->
     Fetched(taken, k)]

\* One cycle, in which r retires; fetch is stalled or not.
PathClock(r, stall, taken) ==
  LET recover == \E k \in DOMAIN r : Recovers(r[k])
      go_on(k) == IF k = 0 THEN arch_pc ELSE r[k].br_addr
  IN
  /\ stall \/ Redirect(r) # {} => taken = {}
  /\ pc' = IF Redirect(r) # {} THEN r[CHOOSE k \in Redirect(r) : TRUE].br_addr
           ELSE IF stall THEN pc
           ELSE next_pc(taken)
  /\ window' = IF recover THEN <<>>
               ELSE SubSeq(window, Len(r) + 1, Len(window))
                      \o (IF stall THEN <<>> ELSE FetchedGroup(taken))
  /\ arch_pc' = go_on(Len(r))
  /\ strayed' = (strayed \/ \E k \in DOMAIN r : r[k].pc # go_on(k - 1))

\* MAX_WINDOW bounds what is fetched, as the ROB does.
PathNext == \E n \in {n \in 0..COMMIT_WIDTH : n <= Len(window)}, stall \in BOOLEAN :
  /\ ~stall => Len(window) + FETCH_WIDTH <= MAX_WINDOW
  /\ \E r \in Retirements(n), taken \in Predictions : PathClock(r, stall, taken)

PathSpec == PathInit /\ [][PathNext]_pathVars

-----------------------------------------------------------------------------
(* Properties.                                                               *)

Instruction == [pc : Addr, pred_taken : BOOLEAN, pred_addr : Addr]

\* The registers and the queue hold addresses and predictions.
PathTypeOK ==
  /\ pc \in Addr /\ window \in Seq(Instruction)
  /\ arch_pc \in Addr /\ strayed \in BOOLEAN

\* What is in flight is one chain: each instruction is the one that the
\* prediction of the one before leads to, the oldest is where the program goes
\* on, and fetch goes on where the youngest leads.  Predictions, cut groups
\* and redirects tear no hole in it.
FetchChains ==
  /\ \A k \in 1..(Len(window) - 1) : window[k + 1].pc = window[k].pred_addr
  /\ IF window = <<>> THEN pc = arch_pc
     ELSE window[1].pc = arch_pc /\ pc = window[Len(window)].pred_addr

\* Exactly the instructions retire that the program executes, in its order,
\* whatever the predictor says.
RetiresProgram == ~strayed
=============================================================================
