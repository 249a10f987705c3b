----------------------------- MODULE BranchPred -----------------------------
(* branch_pred.sv: history table, pattern table and target buffer, trained   *)
(* by the branches that retire in a cycle and asked, in the same cycle, for  *)
(* a prediction; with it, the fetch path of FetchPath.                       *)
EXTENDS FetchPath

CONSTANTS
  BHT_SIZE, PHT_SIZE, BTB_SIZE, BTB_WIDTH,
  TAG_UNIT  \* addresses that share a tag: 2^(32 - BTB_TAG_SIZE) bytes

ASSUME PredictorAssumption ==
  {BHT_SIZE, PHT_SIZE, BTB_SIZE, BTB_WIDTH, TAG_UNIT} \subseteq Nat \ {0}

VARIABLES BHT, PHT, BTB,
          is_valid  \* a wire that nothing drives: it has one value throughout

tables == <<BHT, PHT, BTB>>
predVars == <<pathVars, tables, is_valid>>

Way == 0..(BTB_WIDTH - 1)
Tag(a) == a \div TAG_UNIT
NoEntry == [valid |-> FALSE, tag |-> 0, target |-> 0]
Entry == [valid : BOOLEAN, tag : {Tag(a) : a \in Addr}, target : Addr]

\* The patterns are weakly not taken.
PredInit ==
  /\ PathInit
  /\ BHT = [e \in 0..(BHT_SIZE - 1) |-> 0]
  /\ PHT = [h \in 0..(PHT_SIZE - 1) |-> 1]
  /\ BTB = [e \in 0..(BTB_SIZE - 1) |-> [j \in Way |-> NoEntry]]
  /\ is_valid \in SUBSET (0..(FETCH_WIDTH - 1))

-----------------------------------------------------------------------------
(* Training.  t = [BHT, PHT, BTB, LRU] goes through the loop over uop_retire. *)

FirstWay(set, tag) ==
  LET hits == {j \in Way : set[j].valid /\ set[j].tag = tag}
  IN {j \in hits : \A k \in hits : j <= k}

Shifted(h, taken) == (2 * h + (IF taken THEN 1 ELSE 0)) % PHT_SIZE

\* The pattern to train: that of the history with the new outcome in it.
Pattern(h, taken) == Shifted(h, taken)

Counter(c, taken) ==
  IF taken THEN IF c < 3 THEN c + 1 ELSE c ELSE IF c > 0 THEN c - 1 ELSE c

\* The new entry goes to way 0; the loop that moves the others up goes in
\* ascending order, and so copies it into every way up to LRU.
Entered(set, lru, new) == [j \in Way |-> IF j = 0 \/ j <= lru THEN new ELSE set[j]]

\* LRU is not reset between two branches of a cycle.
Train(t, u) ==
  LET b    == u.pc % BHT_SIZE
      e    == u.pc % BTB_SIZE
      ways == FirstWay(t.BTB[e], Tag(u.pc))
      lru  == IF ways = {} THEN t.LRU ELSE CHOOSE j \in ways : TRUE
      new  == [valid |-> TRUE, tag |-> Tag(u.pc), target |-> u.br_addr]
  IN IF ~Branch(u.pc) THEN t
     ELSE [BHT |-> [t.BHT EXCEPT ![b] = Shifted(@, u.br_taken)],
           PHT |-> [t.PHT EXCEPT ![Pattern(t.BHT[b], u.br_taken)] = Counter(@, u.br_taken)],
           BTB |-> [t.BTB EXCEPT ![e] = Entered(@, lru, new)],
           LRU |-> lru]

\* The loop ends at the first misprediction.
Trainings(r) == IF Redirect(r) = {} THEN Len(r) ELSE CHOOSE k \in Redirect(r) : TRUE
Trained(r) ==
  LET t[k \in 0..Trainings(r)] ==
        IF k = 0 THEN [BHT |-> BHT, PHT |-> PHT, BTB |-> BTB, LRU |-> BTB_WIDTH - 1]
        ELSE Train(t[k - 1], r[k])
  IN t[Trainings(r)]

-----------------------------------------------------------------------------
\* The target-buffer set of instruction i of the group at pc, and the way that
\* answers.  The tag that is compared is that of the group's own address.
Set(t, i) == t.BTB[(pc + i) % BTB_SIZE]
Answer(t, i) == FirstWay(Set(t, i), Tag(pc))

\* The branches of the group that are predicted taken and have a target.
Hits_AnyInstruction(t) ==
  {i \in is_valid : t.PHT[t.BHT[(pc + i) % BHT_SIZE]] >= 2 /\ Answer(t, i) # {}}
Hits(t) == {i \in is_valid : /\ Branch(Plus(pc, i))
                             /\ t.PHT[t.BHT[(pc + i) % BHT_SIZE]] >= 2
                             /\ Answer(t, i) # {}}

\* The first of them is taken, unless fetch is stalled or redirected.
Taken(t, stall, r) ==
  IF stall \/ Redirect(r) # {} THEN {}
  ELSE {[i |-> i, target |-> Set(t, i)[CHOOSE j \in Answer(t, i) : TRUE].target] :
          i \in {i \in Hits(t) : \A k \in Hits(t) : i <= k}}

PredNext == \E n \in {n \in 0..COMMIT_WIDTH : n <= Len(window)}, stall \in BOOLEAN :
  /\ ~stall => Len(window) + FETCH_WIDTH <= MAX_WINDOW
  /\ \E r \in Retirements(n) :
       LET t == Trained(r) IN
       /\ PathClock(r, stall, Taken(t, stall, r))
       /\ BHT' = t.BHT /\ PHT' = t.PHT /\ BTB' = t.BTB
  /\ UNCHANGED is_valid

PredSpec == PredInit /\ [][PredNext]_predVars

-----------------------------------------------------------------------------
(* Properties.                                                               *)

\* The tables are one of the predictors that FetchPath is proved for: they
\* answer at most once in a group, for a branch that is in it, however entries
\* alias or fill a set, and whatever the undriven wire carries.
ImplementsFetchPath == PathSpec
=============================================================================
