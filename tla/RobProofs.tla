------------------------------ MODULE RobProofs ------------------------------
(* Lemmas about the ring of rob.sv: where its slots are, what retires, what  *)
(* completes and what enters.                                                *)
EXTENDS Rob, FiniteSetTheorems, WellFoundedInduction, TLAPS

-----------------------------------------------------------------------------
(* Places in the ring.                                                       *)

\* A remainder is known by its equation.
LEMMA Modulo ==
  ASSUME NEW m \in Nat \ {0}, NEW q \in {0, 1}, NEW r \in 0..(m - 1)
  PROVE  (m * q + r) % m = r
<1> DEFINE x == m * q + r
           d == (x \div m) - q
<1>0. x \in Int BY SMT
<1>1. x = m * (x \div m) + (x % m) /\ x % m \in 0..(m - 1) /\ x \div m \in Int
  BY <1>0, SMT
<1>2. m * d = r - (x % m) /\ d \in Int
  BY <1>1, SMT
<1>3. d = 0
  <2>1. CASE d >= 1
    <3>1. m * d >= m BY <2>1, <1>2, SMT
    <3> QED BY <3>1, <1>1, <1>2
  <2>2. CASE d <= -1
    <3>1. m * d <= -m BY <2>2, <1>2, SMT
    <3> QED BY <3>1, <1>1, <1>2
  <2> QED BY <2>1, <2>2, <1>2
<1> QED BY <1>1, <1>2, <1>3, SMT

\* Counting on from a head wraps at most once.
LEMMA AtIs ==
  ASSUME NEW head \in RobIndex, NEW k \in 0..ROB_SIZE
  PROVE  /\ At(head, k) = IF head + k < ROB_SIZE THEN head + k ELSE head + k - ROB_SIZE
         /\ At(head, k) \in RobIndex
<1> DEFINE m == ROB_SIZE
<1>0. m \in Nat \ {0} /\ head \in 0..(m - 1) /\ k \in 0..m BY RobSizeAssumption DEF RobIndex
<1> HIDE DEF m
<1>1. CASE head + k < m
  <2>1. head + k \in 0..(m - 1) /\ m * 0 + (head + k) = head + k BY <1>0, <1>1
  <2>2. (m * 0 + (head + k)) % m = head + k BY <1>0, <2>1, Modulo
  <2> QED BY <1>0, <1>1, <2>1, <2>2 DEF At, m, RobIndex
<1>2. CASE ~(head + k < m)
  <2>1. head + k - m \in 0..(m - 1) /\ m * 1 + (head + k - m) = head + k BY <1>0, <1>2
  <2>2. (m * 1 + (head + k - m)) % m = head + k - m BY <1>0, <2>1, Modulo
  <2> QED BY <1>0, <1>2, <2>1, <2>2 DEF At, m, RobIndex
<1> QED BY <1>1, <1>2

\* No two of ROB_SIZE successive places are the same slot.
LEMMA AtDiffers ==
  ASSUME NEW head \in RobIndex, NEW j \in RobIndex, NEW k \in RobIndex, At(head, j) = At(head, k)
  PROVE  j = k
<1>1. head \in 0..(ROB_SIZE - 1) /\ j \in 0..ROB_SIZE /\ k \in 0..ROB_SIZE /\ ROB_SIZE \in Nat
  BY RobSizeAssumption DEF RobIndex
<1>2. At(head, j) = (IF head + j < ROB_SIZE THEN head + j ELSE head + j - ROB_SIZE)
      /\ At(head, k) = (IF head + k < ROB_SIZE THEN head + k ELSE head + k - ROB_SIZE)
  BY <1>1, AtIs
<1>3. j \in 0..(ROB_SIZE - 1) /\ k \in 0..(ROB_SIZE - 1) BY DEF RobIndex
<1>4. (IF head + j < ROB_SIZE THEN head + j ELSE head + j - ROB_SIZE)
        = (IF head + k < ROB_SIZE THEN head + k ELSE head + k - ROB_SIZE)
  BY <1>2
<1> QED BY ONLY <1>1, <1>3, <1>4

\* Places add up around the ring.
LEMMA AtAt ==
  ASSUME NEW head \in RobIndex, NEW n \in 0..ROB_SIZE, NEW k \in 0..ROB_SIZE, n + k <= ROB_SIZE
  PROVE  At(At(head, n), k) = At(head, n + k)
<1>1. head \in 0..(ROB_SIZE - 1) /\ ROB_SIZE \in Nat /\ n + k \in 0..ROB_SIZE
  BY RobSizeAssumption DEF RobIndex
<1> DEFINE next == At(head, n)
<1>2. next \in RobIndex /\ next = IF head + n < ROB_SIZE THEN head + n ELSE head + n - ROB_SIZE
  BY AtIs
<1>3. At(head, n + k) = IF head + (n + k) < ROB_SIZE THEN head + (n + k) ELSE head + (n + k) - ROB_SIZE
  BY <1>1, AtIs
<1> HIDE DEF next
<1>4. At(next, k) = IF next + k < ROB_SIZE THEN next + k ELSE next + k - ROB_SIZE
  BY <1>2, AtIs
<1>5. At(next, k) = At(head, n + k) BY <1>1, <1>2, <1>3, <1>4
<1> QED BY <1>5 DEF next

\* A place of the ring is a slot.
LEMMA SlotsOf ==
  ASSUME NEW h \in RobIndex, NEW z \in 0..ROB_SIZE
  PROVE  z \in Nat /\ \A k \in 1..z : At(h, k - 1) \in RobIndex
<1>1. ROB_SIZE \in Nat BY RobSizeAssumption
<1>2. \A k \in 1..z : k - 1 \in 0..ROB_SIZE BY <1>1
<1> QED BY <1>1, <1>2, AtIs

-----------------------------------------------------------------------------
(* Counting.                                                                 *)

\* A nonempty set of small numbers has a greatest element.
LEMMA LastOf ==
  ASSUME NEW n \in Nat, NEW S, S \subseteq 0..n, S # {}
  PROVE  \E k \in S : \A j \in S : j <= k
<1> DEFINE T == {n - j : j \in S}
           R == OpToRel(<, Nat)
<1>1. T \subseteq Nat /\ T # {}
  <2>1. \A j \in S : j \in 0..n /\ n - j \in Nat OBVIOUS
  <2> QED BY <2>1
<1>2. IsWellFoundedOn(R, Nat) BY NatLessThanWellFounded
<1> HIDE DEF T, R
<1>3. PICK x \in T : \A y \in T : <<y, x>> \notin R BY <1>1, <1>2, WFMin
<1> USE DEF T, R
<1>4. PICK k \in S : x = n - k BY <1>3
<1>5. \A j \in S : ~(n - j < n - k)
  <2> SUFFICES ASSUME NEW j \in S PROVE ~(n - j < n - k) OBVIOUS
  <2>1. n - j \in T /\ n - j \in Nat /\ n - k \in Nat OBVIOUS
  <2>2. <<n - j, n - k>> \notin R BY <1>3, <1>4, <2>1
  <2> QED BY <2>1, <2>2 DEF OpToRel
<1> QED BY <1>5

\* A set that holds with a number all smaller ones is an interval.
LEMMA Downward ==
  ASSUME NEW m \in Nat, NEW S, S \subseteq 0..(m - 1), \A i \in S : \A j \in 0..i : j \in S
  PROVE  Cardinality(S) \in 0..m /\ S = 0..(Cardinality(S) - 1)
<1>1. CASE S = {}
  <2>1. Cardinality(S) = 0 BY <1>1, FS_EmptySet
  <2> QED BY <1>1, <2>1
<1>2. CASE S # {}
  <2>1. S \subseteq 0..m OBVIOUS
  <2>2. PICK k \in S : \A j \in S : j <= k BY <1>2, <2>1, LastOf
  <2>3. k \in 0..(m - 1) /\ S = 0..k
    <3>1. k \in 0..(m - 1) /\ 0..k \subseteq S BY <2>2
    <3>2. S \subseteq 0..k
      <4> SUFFICES ASSUME NEW j \in S PROVE j \in 0..k OBVIOUS
      <4>1. j \in 0..(m - 1) /\ j <= k BY <2>2
      <4> QED BY <3>1, <4>1
    <3> QED BY <3>1, <3>2
  <2>4. Cardinality(0..k) = k - 0 + 1 BY <2>3, FS_Interval
  <2> QED BY <2>3, <2>4
<1> QED BY <1>1, <1>2

\* As many members of S as there are ranks below their number: each rank is
\* taken, and once.
Ranked(S, rank, c) ==
  /\ IsFiniteSet(S) /\ c = Cardinality(S) /\ c \in Nat
  /\ rank \in [S -> 0..(c - 1)]
  /\ \A i, j \in S : i < j => rank[i] < rank[j]
  /\ \A r \in 0..(c - 1) : \E i \in S : rank[i] = r

\* Counting the smaller elements numbers a set without gaps.
LEMMA Ranks ==
  ASSUME NEW G \in Nat, NEW S, S \subseteq 1..G,
         NEW rank, rank = [i \in S |-> Cardinality({j \in S : j < i})]
  PROVE  Ranked(S, rank, Cardinality(S)) /\ Cardinality(S) \in 0..G
<1>1. IsFiniteSet(1..G) /\ Cardinality(1..G) = G
  <2>1. IsFiniteSet(1..G) /\ Cardinality(1..G) = IF 1 > G THEN 0 ELSE G - 1 + 1 BY FS_Interval
  <2> QED BY <2>1
<1>2. PICK c : c = Cardinality(S) OBVIOUS
<1>3. IsFiniteSet(S) /\ c \in 0..G
  <2>1. IsFiniteSet(S) /\ c <= G BY <1>1, <1>2, FS_Subset
  <2>2. c \in Nat BY <1>2, <2>1, FS_CardinalityType
  <2> QED BY <2>1, <2>2
<1>4. \A i \in S : rank[i] \in 0..(c - 1)
  <2> TAKE i \in S
  <2> DEFINE below == {j \in S : j < i}
  <2>1. below \in SUBSET S /\ below # S
    <3>1. i \in Int /\ i \notin below OBVIOUS
    <3> QED BY <3>1
  <2>2. rank[i] = Cardinality(below) OBVIOUS
  <2> HIDE DEF below
  <2>3. IsFiniteSet(below) /\ rank[i] <= c /\ rank[i] # c BY <1>2, <1>3, <2>1, <2>2, FS_Subset
  <2>4. rank[i] \in Nat BY <2>2, <2>3, FS_CardinalityType
  <2> QED BY <1>3, <2>3, <2>4
<1>5. \A i, j \in S : i < j => rank[i] < rank[j]
  <2> SUFFICES ASSUME NEW i \in S, NEW j \in S, i < j PROVE rank[i] < rank[j] OBVIOUS
  <2> DEFINE S1 == {k \in S : k < i}  S2 == {k \in S : k < j}
  <2>1. S1 \in SUBSET S2 /\ S2 \in SUBSET S /\ S1 # S2
    <3>1. i \in S2 /\ i \notin S1 OBVIOUS
    <3>2. \A k \in S1 : k \in S2 OBVIOUS
    <3> QED BY <3>1, <3>2
  <2>2. rank[i] = Cardinality(S1) /\ rank[j] = Cardinality(S2) OBVIOUS
  <2> HIDE DEF S1, S2
  <2>3. IsFiniteSet(S2) BY <1>3, <2>1, FS_Subset
  <2>4. rank[i] <= rank[j] /\ rank[i] # rank[j] BY <2>1, <2>2, <2>3, FS_Subset
  <2>5. rank[i] \in Int /\ rank[j] \in Int BY <1>4
  <2> QED BY <2>4, <2>5
<1>6. \A r \in 0..(c - 1) : \E i \in S : rank[i] = r
  <2> DEFINE T == 0..(c - 1)
  <2>1. IsFiniteSet(T) /\ Cardinality(T) = c
    <3>1. IsFiniteSet(T) /\ Cardinality(T) = IF 0 > c - 1 THEN 0 ELSE c - 1 - 0 + 1 BY <1>3, FS_Interval
    <3> QED BY <1>3, <3>1
  <2>2. rank \in [S -> T] BY <1>4
  <2>3. \A i, j \in S : rank[i] = rank[j] => i = j
    <3> SUFFICES ASSUME NEW i \in S, NEW j \in S, rank[i] = rank[j], i # j PROVE FALSE OBVIOUS
    <3>1. i \in Int /\ j \in Int /\ rank[i] \in Int BY <1>4
    <3>2. rank[i] < rank[j] \/ rank[j] < rank[i] BY <1>5, <3>1
    <3> QED BY <3>1, <3>2
  <2>4. rank \in Injection(S, T) BY <2>2, <2>3 DEF Injection, IsInjective
  <2>5. rank \in Surjection(S, T) BY <1>2, <1>3, <2>1, <2>4, FS_Injection
  <2> QED BY <2>5 DEF Surjection
<1>7. rank \in [S -> 0..(c - 1)] BY <1>4
<1>8. c \in Nat BY <1>3
<1> QED BY <1>2, <1>3, <1>5, <1>6, <1>7, <1>8 DEF Ranked

-----------------------------------------------------------------------------
(* One clock edge.                                                           *)

\* The slots that the head and the size name are the valid ones.
RingOK ==
  /\ op_list \in [RobIndex -> Uop] /\ rob_head \in RobIndex /\ rob_size \in 0..ROB_SIZE
  /\ \A s \in RobIndex : op_list[s].valid <=> s \in Occupied

\* What a slot may hold after the completions of a cycle.
MayBe(u, v) ==
  \/ v = u
  \/ ~u.complete /\ \E m \in {FALSE, u.br} : v = [u EXCEPT !.complete = TRUE, !.mispredict = m]

\* Completion changes only the two flags of occupied slots.
LEMMA CompletedFacts ==
  ASSUME RingOK, NEW done \in Completions, NEW ops, ops = Completed(done)
  PROVE  /\ ops \in [RobIndex -> Uop]
         /\ \A s \in RobIndex : ops[s].valid = op_list[s].valid /\ MayBe(op_list[s], ops[s])
<1>1. PICK D \in SUBSET Pending : done \in [D -> BOOLEAN]
  BY DEF Completions
<1>2. SUFFICES ASSUME NEW s \in RobIndex
               PROVE ops[s] \in Uop /\ ops[s].valid = op_list[s].valid /\ MayBe(op_list[s], ops[s])
  BY DEF Completed
<1>3. op_list[s] \in Uop BY DEF RingOK
<1>4. CASE s \in DOMAIN done
  <2>1. done[s] \in BOOLEAN /\ ~op_list[s].complete BY <1>1, <1>4 DEF Pending
  <2> DEFINE m == op_list[s].br /\ done[s]
  <2>2. ops[s] = [op_list[s] EXCEPT !.complete = TRUE, !.mispredict = m] BY <1>4 DEF Completed
  <2>3. m \in BOOLEAN /\ m \in {FALSE, op_list[s].br} BY <1>3, <2>1 DEF Uop
  <2> HIDE DEF m
  <2>4. ops[s] \in Uop /\ ops[s].valid = op_list[s].valid BY <1>3, <2>2, <2>3 DEF Uop
  <2> QED BY <2>1, <2>2, <2>3, <2>4 DEF MayBe
<1>5. CASE s \notin DOMAIN done
  <2>1. ops[s] = op_list[s] BY <1>5 DEF Completed
  <2> QED BY <1>3, <2>1 DEF MayBe
<1> QED BY <1>4, <1>5

\* An empty slot is typed, and neither valid nor mispredicted.
LEMMA NoUopFacts == NoUop \in Uop /\ ~NoUop.valid /\ ~NoUop.mispredict
<1>1. 0 \in Arf /\ 0 \in Prf BY SizeAssumption DEF Arf, Prf
<1>2. PICK u : u = Decoded(0, 0, FALSE) OBVIOUS
<1>3. u \in Uop /\ u.mispredict = FALSE BY <1>1, <1>2 DEF Decoded, Uop
<1>4. NoUop = [u EXCEPT !.valid = FALSE] BY <1>2 DEF NoUop
<1> QED BY <1>3, <1>4 DEF Uop

\* The retire loop takes an interval from the head on, all complete, and a
\* mispredicted micro-op only last.
LEMMA RetiredFacts ==
  ASSUME RingOK, NEW ops \in [RobIndex -> Uop], \A s \in RobIndex : ops[s].valid = op_list[s].valid,
         NEW n, n = NumRetired(ops), NEW r, r = cm_uop_retire(ops, n)
  PROVE  /\ n \in 0..COMMIT_WIDTH /\ n <= rob_size
         /\ r \in [1..COMMIT_WIDTH -> Uop] /\ Slots(r, Valid) = 1..n
         /\ \A k \in 1..n : /\ r[k] = ops[At(rob_head, k - 1)] /\ r[k].complete
                            /\ r[k].mispredict => k = n
         /\ cm_recover(r) <=> n > 0 /\ r[n].mispredict
<1> DEFINE S == {i \in 0..(COMMIT_WIDTH - 1) : CanRetire(ops, i)}
<1>0. COMMIT_WIDTH \in Nat /\ rob_size \in 0..ROB_SIZE /\ ROB_SIZE \in Nat /\ rob_head \in RobIndex
  BY SizeAssumption, RobSizeAssumption DEF RingOK
<1>1. \A i \in S : \A j \in 0..i : j \in S
  BY <1>0 DEF CanRetire
<1>2. S \subseteq 0..(COMMIT_WIDTH - 1) /\ n = Cardinality(S) BY DEF NumRetired
<1>3. n \in 0..COMMIT_WIDTH /\ S = 0..(n - 1)
  <2> HIDE DEF S
  <2> QED BY <1>0, <1>1, <1>2, Downward
<1>4. \A i \in 0..(n - 1) : CanRetire(ops, i) BY <1>3
<1>5. n <= rob_size
  <2>1. CASE n = 0 BY <1>0, <2>1
  <2>2. CASE n # 0
    <3>1. CanRetire(ops, n - 1) BY <1>3, <1>4, <2>2
    <3> QED BY <1>0, <1>3, <3>1 DEF CanRetire
  <2> QED BY <2>1, <2>2
<1>6. \A k \in 1..n : /\ At(rob_head, k - 1) \in RobIndex /\ At(rob_head, k - 1) \in Occupied
                      /\ r[k] = ops[At(rob_head, k - 1)]
  <2> TAKE k \in 1..n
  <2>1. k - 1 \in 0..(rob_size - 1) /\ k - 1 \in 0..ROB_SIZE /\ k \in 1..COMMIT_WIDTH /\ k <= n
    BY <1>0, <1>3, <1>5
  <2> QED BY <1>0, <2>1, AtIs DEF Occupied, cm_uop_retire
<1>7. \A k \in 1..n : r[k] \in Uop /\ r[k].valid
  BY <1>6 DEF RingOK
<1>8. \A k \in 1..n : r[k].complete /\ (r[k].mispredict => k = n)
  <2> TAKE k \in 1..n
  <2>1. n - 1 \in 0..(n - 1) /\ k - 1 \in 0..(n - 1) BY <1>3
  <2>2. CanRetire(ops, n - 1) BY <1>4, <2>1
  <2>3. ops[At(rob_head, k - 1)].complete BY <2>1, <2>2 DEF CanRetire
  <2>4. k # n => ~ops[At(rob_head, k - 1)].mispredict
    <3>1. k # n => k - 1 \in 0..((n - 1) - 1) BY <1>3
    <3> QED BY <2>2, <3>1 DEF CanRetire
  <2> QED BY <1>6, <2>3, <2>4
<1>9. \A k \in 1..COMMIT_WIDTH : k \notin 1..n => r[k] = NoUop
  BY <1>3 DEF cm_uop_retire
<1>10. NoUop \in Uop /\ ~NoUop.valid /\ ~NoUop.mispredict
  BY NoUopFacts
<1>11. r \in [1..COMMIT_WIDTH -> Uop]
  <2>1. \A k \in 1..COMMIT_WIDTH : r[k] \in Uop BY <1>7, <1>9, <1>10
  <2> QED BY <2>1 DEF cm_uop_retire
<1>12. Slots(r, Valid) = 1..n
  <2>0. DOMAIN r = 1..COMMIT_WIDTH BY <1>11
  <2>1. DOMAIN r = 1..COMMIT_WIDTH /\ \A i \in 1..n : i \in 1..COMMIT_WIDTH BY <1>0, <1>3, <2>0
  <2>2. Slots(r, Valid) = {i \in 1..COMMIT_WIDTH : r[i].valid} BY <2>1 DEF Slots, Valid
  <2>3. \A i \in 1..COMMIT_WIDTH : r[i].valid <=> i \in 1..n BY <1>7, <1>9, <1>10
  <2> QED BY <2>1, <2>2, <2>3
<1>13. cm_recover(r) <=> n > 0 /\ r[n].mispredict
  <2>1. \A k \in 1..COMMIT_WIDTH : r[k].mispredict => k = n /\ k \in 1..n BY <1>8, <1>9, <1>10
  <2> QED BY <1>0, <1>3, <2>1 DEF cm_recover
<1> QED BY <1>3, <1>5, <1>6, <1>8, <1>11, <1>12, <1>13
-----------------------------------------------------------------------------
(* Insertion.                                                                *)

Fitting(g, left) == Entering(g, left, FALSE)

Places(g, left, new, m) ==
  /\ m \in 0..RENAME_WIDTH /\ left + m <= ROB_SIZE
  /\ new \subseteq 1..RENAME_WIDTH
  /\ \A i \in new : g[i] \in Uop /\ g[i].valid /\ RankBefore(g, i) \in 0..(m - 1)
  /\ \A i, j \in new : i < j => RankBefore(g, i) < RankBefore(g, j)
  /\ \A r \in 0..(m - 1) : \E i \in new : RankBefore(g, i) = r

\* The slots of a group that find room are its first, and take one place each.
LEMMA EnteringFacts ==
  ASSUME NEW g \in [1..RENAME_WIDTH -> Uop], NEW left \in 0..ROB_SIZE, NEW new, new = Fitting(g, left),
         NEW m, m = Cardinality(new)
  PROVE  Places(g, left, new, m)
<1> DEFINE G == RENAME_WIDTH
<1>0. G \in Nat /\ ROB_SIZE \in Nat BY SizeAssumption, RobSizeAssumption
<1> USE <1>0
<1>1. PICK S : S = Slots(g, Valid) OBVIOUS
<1>2. g \in [1..G -> Uop] OBVIOUS
<1>3. S \subseteq 1..G /\ \A i \in S : g[i] \in Uop /\ g[i].valid
  <2>1. DOMAIN g = 1..G BY <1>2
  <2>2. S = {i \in 1..G : g[i].valid} BY <1>1, <2>1 DEF Slots, Valid
  <2> QED BY <1>2, <2>2
<1>4. PICK rank : rank = [i \in S |-> Cardinality({j \in S : j < i})] OBVIOUS
<1>5. \A i \in S : RankBefore(g, i) = rank[i] BY <1>1, <1>4 DEF RankBefore
<1>6. /\ rank \in [S -> 0..(Cardinality(S) - 1)] /\ Cardinality(S) \in 0..G
      /\ \A i, j \in S : i < j => rank[i] < rank[j]
  BY <1>0, <1>3, <1>4, Ranks DEF Ranked
<1>7. new = {i \in S : left + rank[i] < ROB_SIZE}
  <2>1. new = {i \in S : left + RankBefore(g, i) < ROB_SIZE} BY <1>1 DEF Fitting, Entering
  <2> QED BY <1>5, <2>1
<1>8. \A i \in new : {j \in new : j < i} = {j \in S : j < i}
  <2> TAKE i \in new
  <2>1. ASSUME NEW j \in S, j < i PROVE j \in new
    <3>1. rank[j] < rank[i] /\ rank[j] \in Int /\ rank[i] \in Int /\ left + rank[i] < ROB_SIZE
      BY <1>6, <1>7, <2>1
    <3> QED BY <1>0, <1>7, <3>1
  <2> QED BY <1>7, <2>1
<1>9. PICK place : place = [i \in new |-> Cardinality({j \in new : j < i})] OBVIOUS
<1>10. \A i \in new : place[i] = rank[i] /\ place[i] = RankBefore(g, i)
  BY <1>4, <1>5, <1>7, <1>8, <1>9
<1>11. /\ m \in 0..G /\ place \in [new -> 0..(m - 1)]
       /\ \A i, j \in new : i < j => place[i] < place[j]
       /\ \A r \in 0..(m - 1) : \E i \in new : place[i] = r
  <2>1. new \subseteq 1..G BY <1>3, <1>7
  <2>2. m = Cardinality(new) OBVIOUS
  <2>3. Ranked(new, place, m) /\ m \in 0..G BY <1>0, <1>9, <2>1, <2>2, Ranks
  <2> QED BY ONLY <2>3 DEF Ranked
<1>13. left + m <= ROB_SIZE
  <2>1. CASE m = 0 BY <2>1
  <2>2. CASE m # 0
    <3>1. m - 1 \in 0..(m - 1) BY <1>11, <2>2
    <3>2. PICK i \in new : place[i] = m - 1 BY <1>11, <3>1
    <3>3. left + (m - 1) < ROB_SIZE BY <1>7, <1>10, <3>2
    <3> QED BY <1>0, <1>11, <3>3
  <2> QED BY <2>1, <2>2
<1>14. \A i \in new : g[i] \in Uop /\ g[i].valid /\ RankBefore(g, i) \in 0..(m - 1)
  BY <1>3, <1>7, <1>10, <1>11
<1>15. \A i, j \in new : i < j => RankBefore(g, i) < RankBefore(g, j) BY <1>10, <1>11
<1>16. \A r \in 0..(m - 1) : \E i \in new : RankBefore(g, i) = r BY <1>10, <1>11
<1>17. new \subseteq 1..RENAME_WIDTH BY <1>3, <1>7
<1> QED BY <1>11, <1>13, <1>14, <1>15, <1>16, <1>17 DEF Places

\* What is where after the insertion, counted from the head on.
Inserting(ops, g, head, left, new, m) ==
  /\ rob_head' = head /\ rob_size' = left + m /\ op_list' \in [RobIndex -> Uop]
  /\ Places(g, left, new, m)
  /\ \A k \in 0..(left - 1) : op_list'[At(head, k)] = ops[At(head, k)]
  /\ \A i \in new : op_list'[At(head, left + RankBefore(g, i))] = g[i]
  /\ \A s \in RobIndex :
       (\A k \in 0..(left + m - 1) : s # At(head, k)) => op_list'[s] = NoUop

\* What is where after the insertion of a group.
LEMMA Inserted ==
  ASSUME NEW g \in [1..RENAME_WIDTH -> Uop], NEW head \in RobIndex, NEW left \in 0..ROB_SIZE,
         NEW ops \in [RobIndex -> Uop],
         NEW new, new = Fitting(g, left), NEW m, m = Cardinality(new),
         RobNext(ops, g, head, left, new)
  PROVE  Inserting(ops, g, head, left, new, m)
<1>0. ROB_SIZE \in Nat /\ RENAME_WIDTH \in Nat /\ RobIndex = 0..(ROB_SIZE - 1)
  BY SizeAssumption, RobSizeAssumption DEF RobIndex
<1> USE <1>0
<1>1. /\ m \in 0..RENAME_WIDTH /\ left + m <= ROB_SIZE
      /\ new \subseteq 1..RENAME_WIDTH
      /\ \A i \in new : g[i] \in Uop /\ g[i].valid /\ RankBefore(g, i) \in 0..(m - 1)
      /\ \A i, j \in new : RankBefore(g, i) = RankBefore(g, j) => i = j
      /\ \A r \in 0..(m - 1) : \E i \in new : RankBefore(g, i) = r
  <2>1. Places(g, left, new, m) BY EnteringFacts
  <2>2. ASSUME NEW i \in new, NEW j \in new, RankBefore(g, i) = RankBefore(g, j), i # j PROVE FALSE
    <3>1. i \in Int /\ j \in Int /\ RankBefore(g, i) \in Int BY <2>1 DEF Places
    <3>2. i < j => RankBefore(g, i) < RankBefore(g, j) BY <2>1 DEF Places
    <3>3. j < i => RankBefore(g, j) < RankBefore(g, i) BY <2>1 DEF Places
    <3> QED BY <2>2, <3>1, <3>2, <3>3
  <2> QED BY <2>1, <2>2 DEF Places
<1>2. PICK slot : slot = [i \in new |-> At(head, left + RankBefore(g, i))] OBVIOUS
<1>3. PICK kept : kept = {At(head, k) : k \in 0..(left - 1)} OBVIOUS
<1>4. /\ rob_head' = head /\ rob_size' = left + m
      /\ op_list' = [s \in RobIndex |->
           IF \E i \in new : slot[i] = s THEN g[CHOOSE i \in new : slot[i] = s]
           ELSE IF s \in kept THEN ops[s] ELSE NoUop]
  BY <1>2, <1>3 DEF RobNext
<1>5. \A i \in new : left + RankBefore(g, i) \in RobIndex
  BY <1>0, <1>1
<1>6. \A k \in 0..(left - 1) : k \in RobIndex /\ k \in 0..ROB_SIZE /\ At(head, k) \in RobIndex /\ At(head, k) \in kept
  <2> TAKE k \in 0..(left - 1)
  <2>1. k \in RobIndex /\ k \in 0..ROB_SIZE BY <1>0
  <2> QED BY <1>3, <2>1, AtIs
<1>7. \A k \in 0..(left - 1) : op_list'[At(head, k)] = ops[At(head, k)]
  <2> TAKE k \in 0..(left - 1)
  <2>1. ~\E i \in new : slot[i] = At(head, k)
    <3> SUFFICES ASSUME NEW i \in new, slot[i] = At(head, k) PROVE FALSE OBVIOUS
    <3>1. At(head, left + RankBefore(g, i)) = At(head, k) BY <1>2
    <3>2. left + RankBefore(g, i) = k BY <1>5, <1>6, <3>1, AtDiffers
    <3> QED BY <1>1, <3>2
  <2> QED BY <1>4, <1>6, <2>1
<1>8. \A i \in new : op_list'[slot[i]] = g[i] /\ slot[i] \in RobIndex
  <2> TAKE i \in new
  <2>1. slot[i] \in RobIndex
    <3>1. left + RankBefore(g, i) \in 0..ROB_SIZE BY <1>0, <1>5
    <3> QED BY <1>2, <3>1, AtIs
  <2>2. \A j \in new : slot[j] = slot[i] => j = i
    <3> SUFFICES ASSUME NEW j \in new, slot[j] = slot[i] PROVE j = i OBVIOUS
    <3>1. left + RankBefore(g, i) = left + RankBefore(g, j) BY <1>2, <1>5, AtDiffers
    <3>2. RankBefore(g, i) \in Int /\ RankBefore(g, j) \in Int BY <1>1
    <3>3. RankBefore(g, i) = RankBefore(g, j) BY <3>1, <3>2
    <3> QED BY <1>1, <3>3
  <2>3. (CHOOSE j \in new : slot[j] = slot[i]) = i BY <2>2
  <2> QED BY <1>4, <2>1, <2>3
<1>9. \A i \in new : op_list'[At(head, left + RankBefore(g, i))] = g[i] BY <1>2, <1>8
<1>10. \A s \in RobIndex : op_list'[s] \in Uop
  <2> TAKE s \in RobIndex
  <2>1. CASE \E i \in new : slot[i] = s BY <1>1, <1>8, <2>1
  <2>2. CASE ~\E i \in new : slot[i] = s BY <1>4, <2>2, NoUopFacts
  <2> QED BY <2>1, <2>2
<1>11. op_list' \in [RobIndex -> Uop] BY <1>4, <1>10
<1>12. ASSUME NEW s \in RobIndex, \A k \in 0..(left + m - 1) : s # At(head, k)
       PROVE op_list'[s] = NoUop
  <2>1. s \notin kept
    <3>1. \A k \in 0..(left - 1) : k \in 0..(left + m - 1) BY <1>0, <1>1
    <3> QED BY <1>3, <1>12, <3>1
  <2>2. ~\E i \in new : slot[i] = s
    <3> SUFFICES ASSUME NEW i \in new, slot[i] = s PROVE FALSE OBVIOUS
    <3>1. left + RankBefore(g, i) \in 0..(left + m - 1) BY <1>0, <1>1
    <3> QED BY <1>2, <1>12, <3>1
  <2> QED BY <1>4, <2>1, <2>2
<1>13. Places(g, left, new, m) BY EnteringFacts
<1>14. \A s \in RobIndex :
         (\A k \in 0..(left + m - 1) : s # At(head, k)) => op_list'[s] = NoUop
  BY <1>12
<1>15. rob_head' = head /\ rob_size' = left + m BY <1>4
<1> QED BY <1>7, <1>9, <1>11, <1>13, <1>14, <1>15 DEF Inserting

\* What is where after a cycle without a recovery.
Advancing(ops, g, n, left, new, m) ==
  /\ RingOK' /\ rob_size' = left + m /\ Places(g, left, new, m)
  /\ \A k \in 0..(left - 1) : op_list'[At(rob_head', k)] = ops[At(rob_head, n + k)]
  /\ \A i \in new : op_list'[At(rob_head', left + RankBefore(g, i))] = g[i]

\* A cycle without a recovery keeps the ring well formed and in order.
LEMMA RingAdvanced ==
  ASSUME RingOK, NEW n \in 0..COMMIT_WIDTH, n <= rob_size, NEW ops \in [RobIndex -> Uop],
         \A s \in RobIndex : ops[s].valid = op_list[s].valid,
         NEW g \in [1..RENAME_WIDTH -> Uop], NEW left, left = rob_size - n,
         NEW new, new = Fitting(g, left), NEW m, m = Cardinality(new),
         RobNext(ops, g, At(rob_head, n), left, new)
  PROVE  Advancing(ops, g, n, left, new, m)
<1>0. /\ COMMIT_WIDTH \in Nat /\ RENAME_WIDTH \in Nat /\ ROB_SIZE \in Nat
      /\ rob_size \in 0..ROB_SIZE /\ rob_head \in RobIndex /\ op_list \in [RobIndex -> Uop]
  BY SizeAssumption, RobSizeAssumption DEF RingOK
<1>2. PICK head : head = At(rob_head, n) OBVIOUS
<1>4. n \in 0..ROB_SIZE /\ left \in 0..ROB_SIZE /\ n + left = rob_size BY <1>0
<1>5. head \in RobIndex BY <1>0, <1>2, <1>4, AtIs
<1>6. RobNext(ops, g, head, left, new) BY <1>2
<1>7. /\ rob_head' = head /\ rob_size' = left + m /\ op_list' \in [RobIndex -> Uop]
      /\ Places(g, left, new, m)
      /\ \A k \in 0..(left - 1) : op_list'[At(head, k)] = ops[At(head, k)]
      /\ \A i \in new : op_list'[At(head, left + RankBefore(g, i))] = g[i]
      /\ \A s \in RobIndex :
           (\A k \in 0..(left + m - 1) : s # At(head, k)) => op_list'[s] = NoUop
  <2>1. new = Fitting(g, left) /\ m = Cardinality(new) /\ g \in [1..RENAME_WIDTH -> Uop]
        /\ ops \in [RobIndex -> Uop] /\ left \in 0..ROB_SIZE
    BY <1>4
  <2>2. Inserting(ops, g, head, left, new, m) BY <2>1, <1>5, <1>6, Inserted
  <2> QED BY ONLY <2>2 DEF Inserting
<1>8. /\ m \in 0..RENAME_WIDTH /\ left + m <= ROB_SIZE
      /\ \A i \in new : g[i].valid
      /\ \A r \in 0..(m - 1) : \E i \in new : RankBefore(g, i) = r
  BY <1>7 DEF Places
<1>9. \A k \in 0..(left - 1) : At(head, k) = At(rob_head, n + k) /\ n + k \in 0..(rob_size - 1)
                              /\ At(head, k) \in RobIndex
  <2> TAKE k \in 0..(left - 1)
  <2>1. k \in 0..ROB_SIZE /\ n + k <= ROB_SIZE /\ n + k \in 0..(rob_size - 1) BY <1>0, <1>4
  <2> QED BY <1>0, <1>2, <1>4, <1>5, <2>1, AtAt, AtIs
<1>10. \A k \in 0..(left + m - 1) : At(head, k) \in RobIndex /\ op_list'[At(head, k)].valid
  <2> TAKE k \in 0..(left + m - 1)
  <2>0. k \in 0..ROB_SIZE BY <1>0, <1>4, <1>8
  <2>1. At(head, k) \in RobIndex BY <1>5, <2>0, AtIs
  <2>2. CASE k < left
    <3>1. k \in 0..(left - 1) BY <1>4, <2>0, <2>2
    <3>2. At(head, k) \in Occupied BY <1>9, <3>1 DEF Occupied
    <3>3. op_list[At(head, k)].valid BY <2>1, <3>2 DEF RingOK
    <3> QED BY <1>7, <2>1, <3>1, <3>3
  <2>3. CASE ~(k < left)
    <3>1. k - left \in 0..(m - 1) /\ left + (k - left) = k BY <1>4, <1>8, <2>3
    <3>2. PICK i \in new : RankBefore(g, i) = k - left BY <1>8, <3>1
    <3>3. op_list'[At(head, k)] = g[i] BY <1>7, <3>1, <3>2
    <3> QED BY <1>8, <2>1, <3>3
  <2> QED BY <2>2, <2>3
<1>11. Occupied' = {At(head, k) : k \in 0..(left + m - 1)}
  <2>0. rob_head' = head /\ rob_size' = left + m /\ left \in Int /\ m \in Int BY <1>0, <1>4, <1>7, <1>8
  <2>1. rob_head' = head /\ 0..(rob_size' - 1) = 0..(left + m - 1) BY ONLY <2>0
  <2>2. Occupied' = {At(rob_head', k) : k \in 0..(rob_size' - 1)} BY DEF Occupied
  <2>3. ASSUME NEW s PROVE s \in Occupied' <=> \E k \in 0..(left + m - 1) : s = At(head, k)
    <3>1. s \in Occupied' <=> \E k \in 0..(left + m - 1) : s = At(rob_head', k) BY <2>1, <2>2
    <3>2. \A k : At(rob_head', k) = At(head, k) BY <2>1
    <3> QED BY <3>1, <3>2
  <2> QED BY <2>3
<1>12. RingOK'
  <2>1. rob_size' \in 0..ROB_SIZE BY <1>0, <1>4, <1>7, <1>8
  <2>2. ASSUME NEW s \in RobIndex PROVE op_list'[s].valid <=> s \in Occupied'
    <3>1. CASE s \in Occupied' BY <1>10, <1>11, <3>1
    <3>2. CASE s \notin Occupied'
      <4>1. op_list'[s] = NoUop BY <1>7, <1>11, <3>2
      <4> QED BY <3>2, <4>1, NoUopFacts
    <3> QED BY <3>1, <3>2
  <2>3. rob_head' \in RobIndex /\ op_list' \in [RobIndex -> Uop] BY <1>5, <1>7
  <2> QED BY <2>1, <2>2, <2>3 DEF RingOK
<1>13. \A k \in 0..(left - 1) : op_list'[At(rob_head', k)] = ops[At(rob_head, n + k)]
  <2> TAKE k \in 0..(left - 1)
  <2>1. op_list'[At(head, k)] = ops[At(head, k)] /\ rob_head' = head BY <1>7
  <2>2. At(head, k) = At(rob_head, n + k) BY <1>9
  <2> QED BY <2>1, <2>2
<1>14. \A i \in new : op_list'[At(rob_head', left + RankBefore(g, i))] = g[i]
  <2>1. rob_head' = head BY <1>7
  <2> QED BY <1>7, <2>1
<1> QED BY <1>7, <1>12, <1>13, <1>14 DEF Advancing

\* A recovery empties the ring.
LEMMA RingRecovered ==
  ASSUME NEW ops, NEW g, RobNext(ops, g, 0, 0, {})
  PROVE  RingOK' /\ rob_size' = 0 /\ rob_head' = 0
<1>0. ROB_SIZE \in Nat /\ 0 \in RobIndex BY RobSizeAssumption DEF RobIndex
<1>1. Cardinality({}) = 0 BY FS_EmptySet
<1>2. {At(0, k) : k \in 0..(0 - 1)} = {} OBVIOUS
<1>3. rob_size' = 0 /\ rob_head' = 0 /\ op_list' = [s \in RobIndex |-> NoUop]
  BY <1>1, <1>2 DEF RobNext
<1>4. Occupied' = {} BY <1>3 DEF Occupied
<1> QED BY <1>0, <1>3, <1>4, NoUopFacts DEF RingOK

\* The ring is well formed after reset.
LEMMA RingInit ==
  ASSUME RobInit
  PROVE  RingOK
<1>0. ROB_SIZE \in Nat /\ 0 \in RobIndex BY RobSizeAssumption DEF RobIndex
<1>1. Occupied = {} BY DEF Occupied, RobInit
<1> QED BY <1>0, <1>1, NoUopFacts DEF RingOK, RobInit

\* It depends on nothing else.
LEMMA RingStutter ==
  ASSUME RingOK, UNCHANGED robVars
  PROVE  RingOK'
<1>1. op_list' = op_list /\ rob_head' = rob_head /\ rob_size' = rob_size BY DEF robVars
<1>2. Occupied' = Occupied BY <1>1 DEF Occupied
<1> QED BY <1>1, <1>2 DEF RingOK
=============================================================================
