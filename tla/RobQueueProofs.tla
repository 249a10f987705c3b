--------------------------- MODULE RobQueueProofs ---------------------------
(* The ring of rob.sv is a queue, for every size, every width and every      *)
(* program.                                                                  *)
EXTENDS RobQueue, RobProofs, SequenceTheorems

-----------------------------------------------------------------------------
(* Sequences.                                                                *)

\* p is the c elements of f that follow its first a.
IsPart(p, f, a, c) ==
  /\ p \in [1..c -> Uop] /\ p \in Seq(Uop) /\ Len(p) = c
  /\ \A k \in 1..c : p[k] = f[a + k]

\* A part of a sequence, by place.
LEMMA Part ==
  ASSUME NEW m \in Nat, NEW f \in [1..m -> Uop], NEW a \in Nat, NEW c \in Nat, a + c <= m,
         NEW lo, lo = a + 1, NEW hi, hi = a + c
  PROVE  IsPart(SubSeq(f, lo, hi), f, a, c)
<1>1. f \in Seq(Uop) /\ Len(f) = m OBVIOUS
<1>2. lo \in Int /\ hi \in Int /\ hi - lo + 1 = c /\ lo \in 1..(Len(f) + 1) /\ hi \in (lo - 1)..Len(f)
  BY <1>1
<1>3. SubSeq(f, lo, hi) = [k \in 1..(hi - lo + 1) |-> f[lo + k - 1]]
  BY <1>1, <1>2, SubSeqProperties
<1>4. \A k \in 1..c : lo + k - 1 = a + k /\ f[a + k] \in Uop
  <2> TAKE k \in 1..c
  <2>1. a + k \in 1..m /\ lo + k - 1 = a + k OBVIOUS
  <2> QED BY <2>1
<1>5. SubSeq(f, lo, hi) = [k \in 1..c |-> f[a + k]] BY <1>2, <1>3, <1>4
<1>6. SubSeq(f, lo, hi) \in [1..c -> Uop] BY <1>4, <1>5
<1>7. SubSeq(f, lo, hi) \in Seq(Uop) /\ Len(SubSeq(f, lo, hi)) = c BY <1>6
<1> QED BY <1>5, <1>6, <1>7 DEF IsPart

\* A sequence given place by place is as long as it has places.
LEMMA LengthIs ==
  ASSUME NEW m \in Nat, NEW f \in [1..m -> Uop]
  PROVE  Len(f) = m
OBVIOUS

-----------------------------------------------------------------------------
(* A clock edge.                                                             *)

\* The two lists of a completion, element by element.
LEMMA MayCompleteIs ==
  ASSUME NEW m \in Nat, NEW p \in [1..m -> Uop], NEW q \in [1..m -> Uop],
         \A k \in 1..m : MayBe(p[k], q[k])
  PROVE  Queue!MayComplete(p, q)
<1>1. Len(p) = m /\ Len(q) = m /\ DOMAIN p = 1..m OBVIOUS
<1> QED BY <1>1 DEF Queue!MayComplete, MayBe

\* What a cycle does, in the terms of the lemmas above.
Cycle(g, ops, n, r) ==
  /\ uop_retire' = r
  /\ \/ cm_recover(r) /\ RobNext(ops, g, 0, 0, {})
     \/ ~cm_recover(r) /\ RobNext(ops, g, At(rob_head, n), rob_size - n, Fitting(g, rob_size - n))

\* One clock edge of the ring.
LEMMA ClockIs ==
  ASSUME NEW g, NEW done, Clock(g, done), NEW ops, ops = Completed(done),
         NEW n, n = NumRetired(ops), NEW r, r = cm_uop_retire(ops, n)
  PROVE  Cycle(g, ops, n, r)
<1>1. uop_retire' = r BY DEF Clock
<1>2. CASE cm_recover(r)
  <2>1. RobNext(ops, g, 0, 0, {}) BY <1>2 DEF Clock, head_left, size_left, Entering
  <2> QED BY <1>1, <1>2, <2>1 DEF Cycle
<1>3. CASE ~cm_recover(r)
  <2>1. RobNext(ops, g, At(rob_head, n), rob_size - n, Fitting(g, rob_size - n))
    BY <1>3 DEF Clock, head_left, size_left, Entering, Fitting
  <2> QED BY <1>1, <1>3, <2>1 DEF Cycle
<1> QED BY <1>2, <1>3

\* What retires is the front of the queue, some of it completed just now.
LEMMA FrontRetires ==
  ASSUME RingOK, NEW n \in 0..COMMIT_WIDTH, n <= rob_size, NEW ops \in [RobIndex -> Uop],
         \A s \in RobIndex : MayBe(op_list[s], ops[s]),
         NEW r \in [1..COMMIT_WIDTH -> Uop], Slots(r, Valid) = 1..n,
         \A k \in 1..n : r[k] = ops[At(rob_head, k - 1)],
         uop_retire' = r
  PROVE  /\ Retired' \in [1..n -> Uop] /\ Len(Retired') = n
         /\ \A k \in 1..n : Retired'[k] = r[k]
         /\ Queue!MayComplete(SubSeq(Contents, 1, n), Retired')
<1>0. COMMIT_WIDTH \in Nat /\ rob_size \in 0..ROB_SIZE /\ ROB_SIZE \in Nat /\ rob_head \in RobIndex
      /\ op_list \in [RobIndex -> Uop]
  BY SizeAssumption, RobSizeAssumption DEF RingOK
<1>1. Cardinality(1..n) = n
  <2>1. Cardinality(1..n) = IF 1 > n THEN 0 ELSE n - 1 + 1 BY <1>0, FS_Interval
  <2> QED BY <1>0, <2>1
<1>2. Retired' = SubSeq(r, 1, n) BY <1>1 DEF Retired
<1>3. /\ Retired' \in Seq(Uop) /\ Len(Retired') = n
      /\ \A k \in 1..n : Retired'[k] = r[k]
  <2>1. n \in Nat /\ 0 + n <= COMMIT_WIDTH /\ 1 = 0 + 1 /\ n = 0 + n BY <1>0
  <2>2. IsPart(SubSeq(r, 1, n), r, 0, n) BY <1>0, <2>1, Part
  <2>3. \A k \in 1..n : 0 + k = k BY <1>0
  <2> QED BY <1>2, <2>2, <2>3 DEF IsPart
<1>4. Retired' \in [1..n -> Uop] BY <1>3
<1>5. PICK q : q = Contents OBVIOUS
<1>6. q \in [1..rob_size -> Uop] /\ \A k \in 1..rob_size : q[k] = op_list[At(rob_head, k - 1)]
  <2>1. q = [k \in 1..rob_size |-> op_list[At(rob_head, k - 1)]] BY <1>5 DEF Contents
  <2>2. \A k \in 1..rob_size : At(rob_head, k - 1) \in RobIndex BY <1>0, SlotsOf
  <2>3. q \in [1..rob_size -> Uop] BY <1>0, <2>1, <2>2
  <2> QED BY <2>1, <2>3
<1>7. /\ SubSeq(q, 1, n) \in [1..n -> Uop]
      /\ \A k \in 1..n : SubSeq(q, 1, n)[k] = q[k]
  <2>1. n \in Nat /\ rob_size \in Nat /\ 0 + n <= rob_size /\ 1 = 0 + 1 /\ n = 0 + n BY <1>0
  <2>2. IsPart(SubSeq(q, 1, n), q, 0, n) BY <1>6, <2>1, Part
  <2>3. \A k \in 1..n : 0 + k = k BY <1>0
  <2> QED BY <2>2, <2>3 DEF IsPart
<1>8. \A k \in 1..n : MayBe(SubSeq(q, 1, n)[k], Retired'[k])
  <2> TAKE k \in 1..n
  <2>1. k \in 1..rob_size /\ k - 1 \in 0..ROB_SIZE BY <1>0
  <2>2. At(rob_head, k - 1) \in RobIndex BY <1>0, <2>1, AtIs
  <2> QED BY <1>3, <1>6, <1>7, <2>1, <2>2
<1>9. n \in Nat BY <1>0
<1>10. Queue!MayComplete(SubSeq(q, 1, n), Retired') BY <1>4, <1>7, <1>8, <1>9, MayCompleteIs
<1> QED BY <1>3, <1>4, <1>5, <1>10

\* Otherwise what did not retire stays, in order, and the group joins behind it.
LEMMA Advanced ==
  ASSUME RingOK, NEW n \in 0..COMMIT_WIDTH, n <= rob_size, NEW ops \in [RobIndex -> Uop],
         \A s \in RobIndex : ops[s].valid = op_list[s].valid /\ MayBe(op_list[s], ops[s]),
         NEW g \in GROUPS,
         RobNext(ops, g, At(rob_head, n), rob_size - n, Fitting(g, rob_size - n))
  PROVE  /\ RingOK'
         /\ Len(Contents) = rob_size /\ Len(SubSeq(Contents, n + 1, rob_size)) = rob_size - n
         /\ Len(Contents') <= rob_size - n + RENAME_WIDTH /\ Len(Contents') <= ROB_SIZE
         /\ Queue!MayComplete(SubSeq(Contents, n + 1, rob_size), SubSeq(Contents', 1, rob_size - n))
         /\ \A k \in (rob_size - n + 1)..Len(Contents') :
              Contents'[k] \in {h[i] : h \in GROUPS, i \in 1..RENAME_WIDTH} \ {NoUop}
<1>0. /\ COMMIT_WIDTH \in Nat /\ RENAME_WIDTH \in Nat /\ ROB_SIZE \in Nat
      /\ rob_size \in 0..ROB_SIZE /\ rob_head \in RobIndex /\ op_list \in [RobIndex -> Uop]
  BY SizeAssumption, RobSizeAssumption DEF RingOK
<1>1. PICK left : left = rob_size - n OBVIOUS
<1>2. PICK head : head = rob_head' OBVIOUS
<1>3. PICK new : new = Fitting(g, left) OBVIOUS
<1>4. PICK m : m = Cardinality(new) OBVIOUS
<1>5. g \in [1..RENAME_WIDTH -> Uop]
  <2>1. g \in [1..RENAME_WIDTH -> {u \in Uop : u.valid /\ ~u.complete} \cup {NoUop}]
    BY GroupsAssumption
  <2> QED BY <2>1, NoUopFacts
<1>6. /\ RingOK' /\ rob_size' = left + m /\ Places(g, left, new, m)
      /\ \A k \in 0..(left - 1) : op_list'[At(rob_head', k)] = ops[At(rob_head, n + k)]
      /\ \A i \in new : op_list'[At(rob_head', left + RankBefore(g, i))] = g[i]
  <2>1. RobNext(ops, g, At(rob_head, n), left, new) BY <1>1, <1>3
  <2>2. \A s \in RobIndex : ops[s].valid = op_list[s].valid OBVIOUS
  <2>3. Advancing(ops, g, n, left, new, m) BY <1>1, <1>3, <1>4, <1>5, <2>1, <2>2, RingAdvanced
  <2> QED BY <2>3 DEF Advancing
<1>7. /\ n \in Nat /\ left \in Nat /\ n + left = rob_size /\ rob_size \in Nat
      /\ head \in RobIndex /\ op_list' \in [RobIndex -> Uop] /\ rob_size' \in 0..ROB_SIZE
  BY <1>0, <1>1, <1>2, <1>6 DEF RingOK
<1>8. /\ m \in 0..RENAME_WIDTH /\ left + m <= ROB_SIZE
      /\ \A i \in new : i \in 1..RENAME_WIDTH /\ g[i].valid
      /\ \A r \in 0..(m - 1) : \E i \in new : RankBefore(g, i) = r
  BY <1>6 DEF Places
<1>9. \A k \in 0..(left - 1) : op_list'[At(head, k)] = ops[At(rob_head, n + k)] BY <1>2, <1>6
<1>10. \A k \in left..(left + m - 1) :
         \E i \in 1..RENAME_WIDTH : g[i].valid /\ op_list'[At(head, k)] = g[i]
  <2> TAKE k \in left..(left + m - 1)
  <2>1. k - left \in 0..(m - 1) /\ left + (k - left) = k BY <1>7, <1>8
  <2>2. PICK i \in new : RankBefore(g, i) = k - left BY <1>8, <2>1
  <2>3. op_list'[At(head, k)] = g[i] BY <1>2, <1>6, <2>1, <2>2
  <2> QED BY <1>8, <2>3
<1>13. PICK q : q = Contents OBVIOUS
<1>14. q \in [1..rob_size -> Uop] /\ \A k \in 1..rob_size : q[k] = op_list[At(rob_head, k - 1)]
  <2>1. q = [k \in 1..rob_size |-> op_list[At(rob_head, k - 1)]] BY <1>13 DEF Contents
  <2>2. \A k \in 1..rob_size : At(rob_head, k - 1) \in RobIndex BY <1>0, SlotsOf
  <2>3. q \in [1..rob_size -> Uop] BY <1>0, <2>1, <2>2
  <2> QED BY <2>1, <2>3
<1>15. PICK z : z = left + m OBVIOUS
<1>16. z = rob_size' /\ z \in 0..ROB_SIZE /\ z <= left + RENAME_WIDTH
  BY <1>0, <1>6, <1>7, <1>8, <1>15
<1>17. PICK p : p = Contents' OBVIOUS
<1>18. p \in [1..z -> Uop] /\ \A k \in 1..z : p[k] = op_list'[At(head, k - 1)]
  <2>1. p = [k \in 1..z |-> op_list'[At(head, k - 1)]] BY <1>2, <1>16, <1>17 DEF Contents
  <2>2. \A k \in 1..z : At(head, k - 1) \in RobIndex BY <1>7, <1>16, SlotsOf
  <2>3. p \in [1..z -> Uop] BY <1>7, <2>1, <2>2
  <2> QED BY <2>1, <2>3
<1>19. rob_size \in Nat /\ z \in Nat /\ left \in Nat BY <1>0, <1>7, <1>16
<1>20. PICK rest : rest = SubSeq(q, n + 1, rob_size) OBVIOUS
<1>21. /\ Len(q) = rob_size /\ rest \in [1..left -> Uop] /\ Len(rest) = left
       /\ \A k \in 1..left : rest[k] = q[n + k]
  <2>1. n \in Nat /\ n + left <= rob_size /\ rob_size = n + left BY <1>0, <1>7
  <2>2. IsPart(rest, q, n, left) BY <1>14, <1>19, <1>20, <2>1, Part
  <2>3. Len(q) = rob_size BY <1>14, <1>19, LengthIs
  <2> QED BY <2>2, <2>3 DEF IsPart
<1>22. PICK front : front = SubSeq(p, 1, left) OBVIOUS
<1>23. /\ Len(p) = z /\ front \in [1..left -> Uop]
       /\ \A k \in 1..left : front[k] = p[k]
  <2>1. 0 + left <= z /\ 1 = 0 + 1 /\ left = 0 + left BY <1>8, <1>15, <1>19
  <2>2. IsPart(front, p, 0, left) BY <1>18, <1>19, <1>22, <2>1, Part
  <2>3. Len(p) = z BY <1>18, <1>19, LengthIs
  <2>4. \A k \in 1..left : 0 + k = k BY <1>19
  <2> QED BY <2>2, <2>3, <2>4 DEF IsPart
<1>24. \A k \in 1..left : MayBe(rest[k], front[k])
  <2> TAKE k \in 1..left
  <2>1. k - 1 \in 0..(left - 1) /\ n + k \in 1..rob_size /\ k \in 1..z /\ (n + k) - 1 = n + (k - 1)
    BY <1>7, <1>8, <1>15
  <2>2. rest[k] = op_list[At(rob_head, n + (k - 1))] BY <1>14, <1>21, <2>1
  <2>3. front[k] = op_list'[At(head, k - 1)] BY <1>18, <1>23, <2>1
  <2>4. op_list'[At(head, k - 1)] = ops[At(rob_head, n + (k - 1))] BY <1>9, <2>1
  <2>5. At(rob_head, n + (k - 1)) \in RobIndex
    <3>1. n + (k - 1) \in 0..ROB_SIZE BY <1>0, <2>1
    <3> QED BY <1>0, <3>1, AtIs
  <2> QED BY <2>2, <2>3, <2>4, <2>5
<1>25. Queue!MayComplete(rest, front) BY <1>19, <1>21, <1>23, <1>24, MayCompleteIs
<1>26. \A k \in (left + 1)..z : p[k] \in {h[i] : h \in GROUPS, i \in 1..RENAME_WIDTH} \ {NoUop}
  <2> TAKE k \in (left + 1)..z
  <2>1. k - 1 \in left..(left + m - 1) /\ k \in 1..z BY <1>7, <1>8, <1>15
  <2>2. PICK i \in 1..RENAME_WIDTH : g[i].valid /\ op_list'[At(head, k - 1)] = g[i] BY <1>10, <2>1
  <2>3. p[k] = g[i] /\ g[i] # NoUop BY <1>18, <2>1, <2>2, NoUopFacts
  <2> QED BY <2>3
<1>27. Len(p) <= left + RENAME_WIDTH /\ Len(p) <= ROB_SIZE BY <1>0, <1>16, <1>23
<1>28. RingOK' BY <1>6
<1> HIDE <1>1
<1> QED BY <1>1, <1>13, <1>17, <1>20, <1>21, <1>22, <1>23, <1>25, <1>26, <1>27, <1>28

\* Every clock edge keeps the invariant and is a step of the queue.
LEMMA Step ==
  ASSUME RingOK, Next
  PROVE  RingOK' /\ Queue!Next
<1>1. PICK g \in GROUPS, done \in Completions : Clock(g, done) BY DEF Next
<1>2. PICK ops : ops = Completed(done) OBVIOUS
<1>3. PICK n : n = NumRetired(ops) OBVIOUS
<1>4. PICK r : r = cm_uop_retire(ops, n) OBVIOUS
<1>5. Cycle(g, ops, n, r) BY <1>1, <1>2, <1>3, <1>4, ClockIs
<1>6. /\ ops \in [RobIndex -> Uop]
      /\ \A s \in RobIndex : ops[s].valid = op_list[s].valid /\ MayBe(op_list[s], ops[s])
  BY <1>2, CompletedFacts
<1>7. /\ n \in 0..COMMIT_WIDTH /\ n <= rob_size
      /\ r \in [1..COMMIT_WIDTH -> Uop] /\ Slots(r, Valid) = 1..n
      /\ \A k \in 1..n : /\ r[k] = ops[At(rob_head, k - 1)] /\ r[k].complete
                         /\ r[k].mispredict => k = n
      /\ cm_recover(r) <=> n > 0 /\ r[n].mispredict
  BY <1>3, <1>4, <1>6, RetiredFacts
<1>8. /\ Retired' \in [1..n -> Uop] /\ Len(Retired') = n
      /\ \A k \in 1..n : Retired'[k] = r[k]
      /\ Queue!MayComplete(SubSeq(Contents, 1, n), Retired')
  <2>1. uop_retire' = r BY <1>5 DEF Cycle
  <2>2. (\A s \in RobIndex : MayBe(op_list[s], ops[s]))
        /\ \A k \in 1..n : r[k] = ops[At(rob_head, k - 1)]
    BY <1>6, <1>7, Zenon
  <2> QED BY <1>6, <1>7, <2>1, <2>2, FrontRetires
<1>9. COMMIT_WIDTH \in Nat /\ rob_size \in Nat BY SizeAssumption DEF RingOK
<1>10. Len(Contents) = rob_size
  <2>1. rob_head \in RobIndex /\ rob_size \in 0..ROB_SIZE /\ op_list \in [RobIndex -> Uop]
    BY <1>9, RobSizeAssumption DEF RingOK
  <2>2. \A k \in 1..rob_size : At(rob_head, k - 1) \in RobIndex BY <2>1, SlotsOf
  <2>3. Contents \in [1..rob_size -> Uop] BY <2>1, <2>2 DEF Contents
  <2> QED BY <1>9, <2>3, LengthIs
<1>11. \A k \in 1..n : Retired'[k].complete /\ (Retired'[k].mispredict => k = n)
  BY <1>7, <1>8, Zenon
<1>12. n <= COMMIT_WIDTH /\ n <= Len(Contents) BY <1>7, <1>9, <1>10
<1>13. CASE cm_recover(r)
  <2>0. RingOK' /\ rob_size' = 0 BY <1>5, <1>13, RingRecovered DEF Cycle
  <2>1. RingOK' /\ Contents' = <<>> BY <2>0 DEF Contents
  <2>2. n > 0 /\ n \in 1..n BY <1>7, <1>9, <1>13
  <2>3. Retired'[n].mispredict BY <1>7, <1>8, <1>13, <2>2
  <2>4. Queue!Next BY <1>8, <1>11, <1>12, <2>1, <2>2, <2>3 DEF Queue!Next
  <2> QED BY <2>1, <2>4
<1>14. CASE ~cm_recover(r)
  <2>1. /\ RingOK'
        /\ Len(SubSeq(Contents, n + 1, rob_size)) = rob_size - n
        /\ Len(Contents') <= rob_size - n + RENAME_WIDTH /\ Len(Contents') <= ROB_SIZE
        /\ Queue!MayComplete(SubSeq(Contents, n + 1, rob_size), SubSeq(Contents', 1, rob_size - n))
        /\ \A k \in (rob_size - n + 1)..Len(Contents') :
             Contents'[k] \in {h[i] : h \in GROUPS, i \in 1..RENAME_WIDTH} \ {NoUop}
    BY <1>5, <1>6, <1>7, <1>14, Advanced DEF Cycle
  <2>2. \A k \in 1..n : ~Retired'[k].mispredict
    <3> SUFFICES ASSUME NEW k \in 1..n, Retired'[k].mispredict PROVE FALSE OBVIOUS
    <3>1. k = n /\ n > 0 BY <1>7, <1>9, <1>11
    <3> QED BY <1>7, <1>8, <1>14, <3>1
  <2>3. Queue!Next BY <1>8, <1>10, <1>11, <1>12, <2>1, <2>2 DEF Queue!Next
  <2> QED BY <2>1, <2>3
<1> QED BY <1>13, <1>14

\* After reset the ring is well formed and the queue empty.
LEMMA Start ==
  ASSUME Init
  PROVE  RingOK /\ Queue!Init
<1>0. ROB_SIZE \in Nat /\ 0 \in RobIndex /\ COMMIT_WIDTH \in Nat
  BY RobSizeAssumption, SizeAssumption DEF RobIndex
<1>1. rob_size = 0 /\ rob_head = 0 /\ op_list = [s \in RobIndex |-> NoUop] BY DEF Init, RobInit
<1>2. RingOK BY RingInit DEF Init
<1>5. Contents = <<>> BY <1>1 DEF Contents
<1>6. Retired = <<>>
  <2>1. uop_retire = [i \in 1..COMMIT_WIDTH |-> NoUop] BY DEF Init, NoRetire
  <2>2. Slots(uop_retire, Valid) = {}
    <3>1. DOMAIN uop_retire = 1..COMMIT_WIDTH BY <2>1
    <3> QED BY <2>1, <3>1, NoUopFacts DEF Slots, Valid
  <2>3. Cardinality(Slots(uop_retire, Valid)) = 0 BY <2>2, FS_EmptySet
  <2>4. uop_retire \in Seq(Uop) BY <1>0, <2>1, NoUopFacts
  <2>5. SubSeq(uop_retire, 1, 0) = <<>> BY <2>4
  <2> QED BY <2>3, <2>5 DEF Retired
<1> QED BY <1>2, <1>5, <1>6 DEF Queue!Init

-----------------------------------------------------------------------------
(* The theorems.                                                             *)

\* The ring's registers stay well typed, and the ring exact: the invariant that
\* the other two rest on, inductive as it stands.
THEOREM Invariance == Spec => []RingOK
<1>1. Init => RingOK BY Start
<1>2. RingOK /\ [Next]_vars => RingOK'
  <2> SUFFICES ASSUME RingOK, [Next]_vars PROVE RingOK' OBVIOUS
  <2>1. CASE Next BY <2>1, Step
  <2>2. CASE UNCHANGED vars BY <2>2, RingStutter DEF vars
  <2> QED BY <2>1, <2>2
<1> QED BY <1>1, <1>2, PTL DEF Spec

\* The ring's occupied slots are those its head and size name, and never more
\* than it has: whatever arrives, completes or is mispredicted, no insertion
\* overwrites a micro-op that has not retired.
THEOREM Ring == Spec => []RingExact
<1>1. RingOK => RingExact BY RobSizeAssumption DEF RingOK, RingExact
<1> QED BY <1>1, Invariance, PTL

\* The ring of rob.sv is a queue in program order, for every size and width and
\* every group of micro-ops: it skips, repeats and reorders nothing it took,
\* and retires nothing past a mispredicted micro-op.
THEOREM Refines == Spec => ImplementsQueue
<1>1. Init => Queue!Init BY Start
<1>2. RingOK /\ [Next]_vars => [Queue!Next]_(Queue!vars)
  <2> SUFFICES ASSUME RingOK, [Next]_vars PROVE [Queue!Next]_(Queue!vars) OBVIOUS
  <2>1. CASE Next BY <2>1, Step
  <2>2. CASE UNCHANGED vars
    <3>1. op_list' = op_list /\ rob_head' = rob_head /\ rob_size' = rob_size /\ uop_retire' = uop_retire
      BY <2>2 DEF vars, robVars
    <3>2. Contents' = Contents BY <3>1 DEF Contents
    <3>3. Retired' = Retired BY <3>1 DEF Retired
    <3> QED BY <3>2, <3>3 DEF Queue!vars
  <2> QED BY <2>1, <2>2
<1> QED BY <1>1, <1>2, Invariance, PTL DEF Spec, ImplementsQueue, Queue!Spec
=============================================================================
