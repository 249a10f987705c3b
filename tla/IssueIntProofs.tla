--------------------------- MODULE IssueIntProofs ---------------------------
(* The integer back end for every size of the queue, every width and every   *)
(* program: the counter of free slots and the scoreboard are exact, no       *)
(* micro-op is lost or doubled, and each gets the values it depends on.      *)
EXTENDS IssueInt, FiniteSetTheorems, TLAPS

AnyUop == Uop \cup {NoUop}
Group == [1..DISPATCH_WIDTH -> AnyUop]
Count(g) == Cardinality(Uops(g))

TypeOK ==
  /\ is \in Stage(Group) /\ iq_full_reg \in BOOLEAN
  /\ slots \in [Slot -> AnyUop] /\ free_count_reg \in 0..IQ_INT_SIZE
  /\ rf \in [Pipe -> AnyUop] /\ ex \in [Pipe -> AnyUop] /\ alu_out \in [Pipe -> AnyUop]
  /\ ex_data = [p \in Pipe |-> ex_data[p]] /\ prf = [r \in Id |-> prf[r]]
  /\ fresh \in 0..MAX_UOP /\ live \in SUBSET Uop /\ done \in SUBSET (1..fresh)

\* The first n of a group are micro-ops, all different.
Packed(g, n) ==
  /\ n \in 0..DISPATCH_WIDTH
  /\ \A i \in 1..DISPATCH_WIDTH : Valid(g[i]) <=> i <= n
  /\ \A i, j \in 1..n : g[i].id = g[j].id => i = j

\* The stage in front of the queue holds one group at most, and presents it
\* only when the queue loads and has room for the largest one.
StageOK ==
  /\ Packed(is.in, Count(is.in)) /\ Packed(is.tmp, Count(is.tmp))
  /\ IF is.stall_prev THEN is.in = Bubble ELSE is.tmp = Bubble
  /\ Uops(is.in) # {} => ~iq_full_reg /\ free_count_reg >= DISPATCH_WIDTH

SlotsOK == free_count_reg = Cardinality(Free)

\* No micro-op is in two places.
Apart ==
  \A n, m \in 1..6 : \A i \in DOMAIN Stages[n], j \in DOMAIN Stages[m] :
    Valid(Stages[n][i]) /\ Stages[n][i].id = Stages[m][j].id => n = m /\ i = j

\* What is in the back end is of the current path, which it depends on.
PathOK ==
  /\ \A u \in live : u.id <= fresh
  /\ \A u, v \in live : u.id = v.id => u = v
  /\ \A n \in 1..6 : Uops(Stages[n]) \subseteq live
  /\ \A n \in 1..6 : \A u \in Uops(Stages[n]) : u.src = 0 \/ u.src \in Ids(live)

\* What of the path is not complete is in the back end.
KnownOK ==
  \A u \in live : u.id \notin done =>
    \E n \in 1..6 : \E i \in DOMAIN Stages[n] : Stages[n][i] = u

\* What is under way to the pipes has its operand.
ValuesOK ==
  \A p \in Pipe : Valid(rf[p]) => rf[p].src = 0 \/ rf[p].src \in done

IInv ==
  /\ TypeOK /\ StageOK /\ SlotsOK /\ Apart /\ PathOK /\ KnownOK /\ ValuesOK
  /\ ScoreboardExact /\ OperandsArrive

-----------------------------------------------------------------------------
(* Groups.                                                                   *)

\* The sizes are numbers.
LEMMA Sizes ==
  /\ DISPATCH_WIDTH \in Nat \ {0} /\ IQ_INT_SIZE \in Nat \ {0}
  /\ MAX_UOP \in Nat
  /\ Slot = 0..(IQ_INT_SIZE - 1) /\ Id = 1..MAX_UOP /\ Pipe = {0, 1}
BY IssueSizeAssumption DEF Slot, Id, Pipe

\* A micro-op has a number, a bubble has none.
LEMMA UopFacts ==
  /\ NoUop \in AnyUop /\ ~Valid(NoUop) /\ NoUop.id = 0 /\ NoUop.src = 0 /\ NoUop.fu = ""
  /\ \A u \in Uop : /\ u \in AnyUop /\ u.id \in Id /\ u.id \in Int /\ u.id # 0
                    /\ u.fu \in FuCode /\ u.src \in 0..MAX_UOP /\ Valid(u) /\ u # NoUop
  /\ \A u \in AnyUop : /\ u.id \in 0..MAX_UOP /\ u.id \in Int
                       /\ Valid(u) <=> u \in Uop
                       /\ Valid(u) <=> u # NoUop
<1>1. NoUop \in AnyUop /\ ~Valid(NoUop) /\ NoUop.id = 0 /\ NoUop.src = 0 /\ NoUop.fu = ""
  BY DEF AnyUop, NoUop, Valid
<1>2. ASSUME NEW u \in Uop
      PROVE  u.id \in Id /\ u.fu \in FuCode /\ u.src \in 0..MAX_UOP
  BY <1>2 DEF Uop
<1>3. ASSUME NEW u \in Uop
      PROVE  /\ u \in AnyUop /\ u.id \in Id /\ u.id \in Int /\ u.id # 0
             /\ u.fu \in FuCode /\ u.src \in 0..MAX_UOP /\ Valid(u) /\ u # NoUop
  <2>1. u.id \in Int /\ u.id # 0 BY <1>2, Sizes
  <2>2. u # NoUop BY <1>1, <2>1
  <2> QED BY <1>2, <2>1, <2>2 DEF AnyUop, Valid
<1>4. ASSUME NEW u \in AnyUop
      PROVE  u.id \in 0..MAX_UOP /\ u.id \in Int /\ (Valid(u) <=> u \in Uop) /\ (Valid(u) <=> u # NoUop)
  <2>1. CASE u \in Uop BY <1>2, <1>3, <2>1, Sizes
  <2>2. CASE u = NoUop
    <3>1. u \notin Uop BY <1>3, <2>2
    <3>2. u.id = 0 /\ ~Valid(u) BY ONLY <1>1, <2>2
    <3>3. 0 \in 0..MAX_UOP BY Sizes
    <3> QED BY ONLY <2>2, <3>1, <3>2, <3>3
  <2> QED BY <2>1, <2>2 DEF AnyUop
<1> QED BY <1>1, <1>3, <1>4

\* What a group or a queue holds, by place.
LEMMA UopsOf ==
  ASSUME NEW S, NEW f \in [S -> AnyUop]
  PROVE  \A u : u \in Uops(f) <=> \E k \in S : u = f[k] /\ Valid(f[k])
<1>1. \A k \in S : f[k] \in AnyUop OBVIOUS
<1> QED BY <1>1, UopFacts DEF Uops

\* The number of micro-ops in a packed group.
LEMMA CountIs ==
  ASSUME NEW g \in Group, NEW n \in 0..DISPATCH_WIDTH, Packed(g, n)
  PROVE  Count(g) = n
<1>0. n \in Nat /\ \A i \in 1..n : i \in 1..DISPATCH_WIDTH BY Sizes
<1>1. \A u : u \in Uops(g) <=> \E i \in 1..DISPATCH_WIDTH : u = g[i] /\ Valid(g[i]) BY UopsOf DEF Group
<1>3. PICK f : f = [i \in 1..n |-> g[i]] OBVIOUS
<1>4. f \in [1..n -> Uops(g)]
  <2>1. \A i \in 1..n : g[i] \in Uops(g) BY <1>0, <1>1 DEF Packed
  <2> QED BY <1>3, <2>1
<1>5. \A i, j \in 1..n : f[i] = f[j] => i = j BY <1>3 DEF Packed
<1>6. \A u \in Uops(g) : \E i \in 1..n : f[i] = u
  <2> TAKE u \in Uops(g)
  <2>1. PICK i \in 1..DISPATCH_WIDTH : u = g[i] /\ Valid(g[i]) BY <1>1
  <2>2. i \in 1..n BY <1>0, <2>1 DEF Packed
  <2> QED BY <1>3, <2>1, <2>2
<1>7. f \in Bijection(1..n, Uops(g))
  BY <1>4, <1>5, <1>6 DEF Bijection, Injection, Surjection, IsInjective
<1>8. ExistsBijection(1..n, Uops(g)) BY <1>7 DEF ExistsBijection
<1> QED BY <1>0, <1>8, FS_CountingElements DEF Count

\* The bubble is a group of none.
LEMMA BubbleFacts == Bubble \in Group /\ Packed(Bubble, 0) /\ Count(Bubble) = 0 /\ Uops(Bubble) = {}
<1>1. Bubble \in Group /\ \A i \in 1..DISPATCH_WIDTH : Bubble[i] = NoUop BY UopFacts DEF Bubble, Group
<1>2. Packed(Bubble, 0)
  <2>1. \A i \in 1..DISPATCH_WIDTH : ~Valid(Bubble[i]) /\ ~(i <= 0)
    <3> TAKE i \in 1..DISPATCH_WIDTH
    <3>1. Bubble[i] = NoUop BY ONLY <1>1
    <3>2. ~Valid(Bubble[i]) BY ONLY <3>1, UopFacts
    <3> QED BY ONLY <3>2, Sizes
  <2>2. 0 \in 0..DISPATCH_WIDTH /\ 1..0 = {} BY Sizes
  <2> QED BY <2>1, <2>2 DEF Packed
<1>3. Count(Bubble) = 0 BY <1>1, <1>2, CountIs, Sizes
<1>4. Uops(Bubble) = {} BY <1>1 DEF Uops, Bubble
<1> QED BY <1>1, <1>2, <1>3, <1>4

\* A group with micro-ops has some, and the other way round.
LEMMA SomeUops ==
  ASSUME NEW g \in Group, Packed(g, Count(g))
  PROVE  /\ Count(g) \in 0..DISPATCH_WIDTH
         /\ Uops(g) # {} <=> Count(g) > 0
         /\ \A i \in 1..DISPATCH_WIDTH : Valid(g[i]) <=> i <= Count(g)
<1>0. Count(g) \in 0..DISPATCH_WIDTH BY DEF Packed
<1>1. \A u : u \in Uops(g) <=> \E i \in 1..DISPATCH_WIDTH : u = g[i] /\ Valid(g[i]) BY UopsOf DEF Group
<1>2. \A i \in 1..DISPATCH_WIDTH : Valid(g[i]) <=> i <= Count(g) BY DEF Packed
<1>3. Uops(g) # {} => Count(g) > 0 BY <1>0, <1>1, <1>2
<1>4. Count(g) > 0 => Valid(g[1]) /\ 1 \in 1..DISPATCH_WIDTH BY <1>0, <1>2, Sizes
<1>5. Count(g) > 0 => Uops(g) # {} BY <1>1, <1>4
<1> QED BY <1>0, <1>2, <1>3, <1>5

-----------------------------------------------------------------------------
(* The selectors.                                                            *)

Below(S, k) == {j \in S : j < k}

\* Each number of a finite set has a rank of its own below the size.
LEMMA Ranks ==
  ASSUME NEW S \in SUBSET Int, IsFiniteSet(S)
  PROVE  /\ Cardinality(S) \in Nat
         /\ \A k \in S : Cardinality(Below(S, k)) \in 0..(Cardinality(S) - 1)
         /\ \A j, k \in S : Cardinality(Below(S, j)) = Cardinality(Below(S, k)) => j = k
<1>0. Cardinality(S) \in Nat BY FS_CardinalityType
<1>1. ASSUME NEW k \in S
      PROVE  IsFiniteSet(Below(S, k)) /\ Cardinality(Below(S, k)) \in 0..(Cardinality(S) - 1)
  <2>1. PICK c : c = Cardinality(Below(S, k)) OBVIOUS
  <2>2. PICK T : T = S \ {k} OBVIOUS
  <2>3. IsFiniteSet(T) /\ Cardinality(T) = Cardinality(S) - 1 BY <2>2, FS_RemoveElement
  <2>4. Below(S, k) \in SUBSET T BY <2>2 DEF Below
  <2>5. IsFiniteSet(Below(S, k)) /\ c <= Cardinality(T) BY <2>1, <2>3, <2>4, FS_Subset
  <2>6. c \in Nat BY <2>1, <2>5, FS_CardinalityType
  <2> QED BY <1>0, <2>1, <2>3, <2>5, <2>6
<1>2. ASSUME NEW j \in S, NEW k \in S, j < k
      PROVE  Cardinality(Below(S, j)) < Cardinality(Below(S, k))
  <2>1. PICK T : T = Below(S, k) \ {j} OBVIOUS
  <2>2. j \in Below(S, k) BY <1>2 DEF Below
  <2>3. IsFiniteSet(T) /\ Cardinality(T) = Cardinality(Below(S, k)) - 1
    BY <1>1, <2>1, <2>2, FS_RemoveElement
  <2>4. Below(S, j) \in SUBSET T
    <3>1. \A x \in S : x \in Int /\ (x < j => x < k /\ x # j) BY <1>2
    <3> QED BY <2>1, <3>1 DEF Below
  <2>5. Cardinality(Below(S, j)) <= Cardinality(T) BY <2>3, <2>4, FS_Subset
  <2>6. Cardinality(Below(S, j)) \in Int /\ Cardinality(Below(S, k)) \in Int BY <1>1
  <2> QED BY <2>3, <2>5, <2>6
<1>3. ASSUME NEW j \in S, NEW k \in S, Cardinality(Below(S, j)) = Cardinality(Below(S, k))
      PROVE  j = k
  <2>1. ~(j < k) /\ ~(k < j) BY <1>1, <1>2, <1>3
  <2> QED BY <2>1
<1> QED BY <1>0, <1>1, <1>3

\* There is exactly one i-th number, as long as there are i; and each number
\* is the i-th for one i.
LEMMA NthFacts ==
  ASSUME NEW S \in SUBSET Int, IsFiniteSet(S)
  PROVE  /\ \A i \in 1..Cardinality(S) : \E k \in S : Nth(S, i) = {k}
         /\ \A i, j, k : i \in Nat /\ j \in Nat /\ k \in Nth(S, i) /\ k \in Nth(S, j) => i = j
         /\ \A i, j, k : j \in Nth(S, i) /\ k \in Nth(S, i) => j = k
         /\ \A i : Nth(S, i) \subseteq S
<1>1. PICK n : n = Cardinality(S) OBVIOUS
<1>2. /\ n \in Nat
      /\ \A k \in S : Cardinality(Below(S, k)) \in 0..(n - 1)
      /\ \A j, k \in S : Cardinality(Below(S, j)) = Cardinality(Below(S, k)) => j = k
  BY <1>1, Ranks
<1>3. \A i : Nth(S, i) = {k \in S : Cardinality(Below(S, k)) = i - 1} BY DEF Nth, Below
<1>4. PICK f : f = [k \in S |-> Cardinality(Below(S, k))] OBVIOUS
<1>5. f \in Injection(S, 0..(n - 1)) BY <1>2, <1>4 DEF Injection, IsInjective
<1>6. IsFiniteSet(0..(n - 1)) /\ Cardinality(0..(n - 1)) = n
  <2>1. /\ IsFiniteSet(0..(n - 1))
        /\ Cardinality(0..(n - 1)) = IF 0 > n - 1 THEN 0 ELSE n - 1 - 0 + 1
    BY <1>2, FS_Interval
  <2>2. (IF 0 > n - 1 THEN 0 ELSE n - 1 - 0 + 1) = n BY <1>2
  <2> QED BY <2>1, <2>2
<1>7. f \in Surjection(S, 0..(n - 1)) BY <1>1, <1>5, <1>6, FS_Injection
<1>8. ASSUME NEW i \in 1..n PROVE \E k \in S : Nth(S, i) = {k}
  <2>1. i - 1 \in 0..(n - 1) BY <1>2
  <2>2. PICK k \in S : f[k] = i - 1 BY <1>7, <2>1 DEF Surjection
  <2>3. Cardinality(Below(S, k)) = i - 1 BY <1>4, <2>2
  <2>4. \A j \in S : Cardinality(Below(S, j)) = i - 1 => j = k BY <1>2, <2>3
  <2>5. Nth(S, i) = {k} BY <1>3, <2>3, <2>4
  <2> QED BY <2>5
<1>9. ASSUME NEW i \in Nat, NEW j \in Nat, NEW k, k \in Nth(S, i), k \in Nth(S, j)
      PROVE  i = j
  <2>1. i - 1 = j - 1 BY <1>3, <1>9
  <2> QED BY <2>1
<1>10. ASSUME NEW i, NEW j, NEW k, j \in Nth(S, i), k \in Nth(S, i) PROVE j = k
  <2>1. j \in S /\ Cardinality(Below(S, j)) = i - 1 BY ONLY <1>3, <1>10
  <2>2. k \in S /\ Cardinality(Below(S, k)) = i - 1 BY ONLY <1>3, <1>10
  <2> QED BY ONLY <1>2, <2>1, <2>2
<1>11. \A i : Nth(S, i) \subseteq S BY <1>3
<1> QED BY <1>1, <1>8, <1>9, <1>10, <1>11

\* Each pipe takes one slot or none, and no two the same one.
LEMMA Selection ==
  ASSUME TypeOK
  PROVE  /\ IsFiniteSet(Slot) /\ IsFiniteSet(Free) /\ Free \in SUBSET Slot
         /\ Cardinality(Slot) = IQ_INT_SIZE /\ Cardinality(Free) \in 0..IQ_INT_SIZE
         /\ \A p \in Pipe : \A k \in Selected(p) :
              /\ k \in Slot /\ k \notin Free /\ Ready(slots[k])
              /\ \A q \in Pipe : \A j \in Selected(q) : p = q <=> j = k
<1>1. /\ IsFiniteSet(Slot) /\ Slot \subseteq Int
      /\ Cardinality(Slot) = IQ_INT_SIZE
  <2>1. /\ IsFiniteSet(0..(IQ_INT_SIZE - 1))
        /\ Cardinality(0..(IQ_INT_SIZE - 1)) =
             IF 0 > IQ_INT_SIZE - 1 THEN 0 ELSE IQ_INT_SIZE - 1 - 0 + 1
    BY Sizes, FS_Interval
  <2> QED BY <2>1, Sizes
<1>2. Free \in SUBSET Slot BY DEF Free
<1>3. IsFiniteSet(Free) /\ Cardinality(Free) \in 0..IQ_INT_SIZE
  <2>1. IsFiniteSet(Free) /\ Cardinality(Free) <= IQ_INT_SIZE BY <1>1, <1>2, FS_Subset
  <2>2. Cardinality(Free) \in Nat BY <2>1, FS_CardinalityType
  <2> QED BY <2>1, <2>2, Sizes
<1>4. PICK ready : ready = ReadySlots OBVIOUS
<1>5. \A k \in ready : k \in Slot /\ Ready(slots[k]) BY <1>4 DEF ReadySlots
<1>6. IsFiniteSet(ready) /\ ready \in SUBSET Int
  <2>1. ready \in SUBSET Slot BY <1>5
  <2> QED BY <1>1, <2>1, FS_Subset
<1>7. Selected(0) = Nth(ready, 1) /\ Selected(1) = Nth(ready, 2) BY <1>4 DEF Selected
<1>8. /\ \A j, k : j \in Nth(ready, 1) /\ k \in Nth(ready, 1) => j = k
      /\ \A j, k : j \in Nth(ready, 2) /\ k \in Nth(ready, 2) => j = k
      /\ \A k : ~(k \in Nth(ready, 1) /\ k \in Nth(ready, 2))
      /\ \A i : Nth(ready, i) \subseteq ready
  BY <1>6, NthFacts
<1>9. ASSUME NEW p \in Pipe, NEW k \in Selected(p)
      PROVE  k \in Slot /\ k \notin Free /\ Ready(slots[k])
  <2>1. k \in ready BY <1>7, <1>8, Sizes
  <2> QED BY <1>5, <2>1 DEF Ready, Free
<1>10. ASSUME NEW p \in Pipe, NEW k \in Selected(p), NEW q \in Pipe, NEW j \in Selected(q)
       PROVE  p = q <=> j = k
  <2>1. \A x \in Selected(0), y \in Selected(1) : x # y BY <1>7, <1>8
  <2>2. p = q => j = k BY <1>7, <1>8, Sizes
  <2>3. p # q => j # k BY <2>1, Sizes
  <2> QED BY <2>2, <2>3
<1> QED BY <1>1, <1>2, <1>3, <1>9, <1>10

-----------------------------------------------------------------------------
(* The queue.                                                                *)

\* A number below the modulus is its own remainder.
LEMMA SmallMod == ASSUME NEW m \in Nat \ {0}, NEW x \in 0..(m - 1) PROVE x % m = x
OBVIOUS

LoadedSlots == {k \in Slot : Loaded(k) # {}}

\* Every micro-op that is presented is loaded, into a free slot of its own.
LEMMA Loading ==
  ASSUME TypeOK, StageOK, SlotsOK
  PROVE  /\ Count(is.in) \in 0..DISPATCH_WIDTH /\ Count(is.in) <= Cardinality(Free)
         /\ LoadedSlots \in SUBSET Free /\ Cardinality(LoadedSlots) = Count(is.in)
         /\ \A i \in 1..DISPATCH_WIDTH : Valid(is.in[i]) => \E k \in Slot : Loaded(k) = {i}
         /\ \A k \in Slot : \A i \in Loaded(k) :
              /\ i \in 1..DISPATCH_WIDTH /\ Valid(is.in[i]) /\ Loaded(k) = {i} /\ k \in Free
              /\ \A j \in Slot : i \in Loaded(j) => j = k
<1>1. is.in \in Group BY DEF TypeOK, Stage
<1>2. PICK n : n = Count(is.in) OBVIOUS
<1>3. /\ n \in 0..DISPATCH_WIDTH
      /\ Uops(is.in) # {} <=> n > 0
      /\ \A i \in 1..DISPATCH_WIDTH : Valid(is.in[i]) <=> i <= n
  BY <1>1, <1>2, SomeUops DEF StageOK
<1>4. IsFiniteSet(Free) /\ Free \in SUBSET Int /\ Free \in SUBSET Slot /\ Cardinality(Free) \in Nat
  BY Selection, Sizes
<1>5. (n > 0 => ~iq_full_reg) /\ n <= Cardinality(Free)
  <2>1. CASE n = 0 BY <1>4, <2>1
  <2>2. CASE n > 0 BY <1>3, <1>4, <2>2, Sizes DEF StageOK, SlotsOK
  <2> QED BY <1>3, <2>1, <2>2
<1>6. /\ \A i \in 1..Cardinality(Free) : \E k \in Free : Nth(Free, i) = {k}
      /\ \A i, j, k : i \in Nat /\ j \in Nat /\ k \in Nth(Free, i) /\ k \in Nth(Free, j) => i = j
      /\ \A i, j, k : j \in Nth(Free, i) /\ k \in Nth(Free, i) => j = k
      /\ \A i : Nth(Free, i) \subseteq Free
  BY <1>4, NthFacts
<1>7. \A k, i : i \in Loaded(k) <=> i \in 1..n /\ k \in Nth(Free, i)
  <2>1. \A i : i \in 1..n <=> i \in 1..DISPATCH_WIDTH /\ i <= n BY <1>3, Sizes
  <2>2. \A i \in 1..n : n > 0 BY <1>3
  <2> QED BY <1>3, <1>5, <2>1, <2>2 DEF Loaded
<1>8. ASSUME NEW k \in Slot, NEW i \in Loaded(k)
      PROVE  /\ i \in 1..DISPATCH_WIDTH /\ Valid(is.in[i]) /\ Loaded(k) = {i} /\ k \in Free
             /\ \A j \in Slot : i \in Loaded(j) => j = k
  <2>1. i \in 1..n /\ k \in Nth(Free, i) BY <1>7
  <2>2. i \in 1..DISPATCH_WIDTH /\ i <= n BY <1>3, <2>1, Sizes
  <2>3. \A j \in Loaded(k) : j = i
    <3> TAKE j \in Loaded(k)
    <3>1. j \in 1..n /\ k \in Nth(Free, j) BY <1>7
    <3>2. i \in Nat /\ j \in Nat BY <1>3, <2>1, <3>1
    <3> QED BY ONLY <1>6, <2>1, <3>1, <3>2
  <2>4. \A j \in Slot : i \in Loaded(j) => j = k BY <1>6, <1>7, <2>1
  <2>5. k \in Free /\ Valid(is.in[i]) BY ONLY <1>3, <1>6, <2>1, <2>2
  <2>6. Loaded(k) = {i} BY <2>3
  <2> QED BY ONLY <2>2, <2>4, <2>5, <2>6
<1>9. ASSUME NEW i \in 1..n PROVE \E k \in Free : Nth(Free, i) = {k} /\ Loaded(k) = {i}
  <2>1. i \in 1..Cardinality(Free) BY <1>3, <1>4, <1>5
  <2>2. PICK k \in Free : Nth(Free, i) = {k} BY <1>6, <2>1
  <2>3. i \in Loaded(k) /\ k \in Slot BY <1>4, <1>7, <2>2
  <2> QED BY <1>8, <2>2, <2>3
<1>10. Cardinality(LoadedSlots) = n
  <2>1. PICK f : f = [i \in 1..n |-> CHOOSE k \in Free : Nth(Free, i) = {k} /\ Loaded(k) = {i}]
    OBVIOUS
  <2>2. \A i \in 1..n : f[i] \in Free /\ Loaded(f[i]) = {i} BY <1>9, <2>1
  <2>3. f \in [1..n -> LoadedSlots]
    <3>1. \A i \in 1..n : f[i] \in LoadedSlots BY <1>4, <2>2 DEF LoadedSlots
    <3> QED BY <2>1, <3>1
  <2>4. \A i, j \in 1..n : f[i] = f[j] => i = j
    <3> SUFFICES ASSUME NEW i \in 1..n, NEW j \in 1..n, f[i] = f[j] PROVE i = j OBVIOUS
    <3>1. {i} = {j} BY <2>2
    <3> QED BY <3>1
  <2>5. \A k \in LoadedSlots : \E i \in 1..n : f[i] = k
    <3> TAKE k \in LoadedSlots
    <3>1. PICK i : k \in Slot /\ i \in Loaded(k) BY DEF LoadedSlots
    <3>2. i \in 1..n BY <1>7, <3>1
    <3>3. f[i] \in Slot /\ i \in Loaded(f[i]) BY <1>4, <2>2, <3>2
    <3> QED BY <1>8, <3>1, <3>2, <3>3
  <2>6. f \in Bijection(1..n, LoadedSlots)
    BY <2>3, <2>4, <2>5 DEF Bijection, Injection, Surjection, IsInjective
  <2>7. ExistsBijection(1..n, LoadedSlots) BY <2>6 DEF ExistsBijection
  <2> QED BY <1>3, <2>7, FS_CountingElements, Sizes
<1>11. LoadedSlots \in SUBSET Free BY <1>8 DEF LoadedSlots
<1>12. \A i \in 1..DISPATCH_WIDTH : Valid(is.in[i]) => \E k \in Slot : Loaded(k) = {i}
  <2> SUFFICES ASSUME NEW i \in 1..DISPATCH_WIDTH, Valid(is.in[i])
               PROVE  \E k \in Slot : Loaded(k) = {i}
    OBVIOUS
  <2>1. i \in 1..n BY <1>3
  <2> QED BY <1>4, <1>9, <2>1
<1> QED BY <1>2, <1>3, <1>5, <1>8, <1>10, <1>11, <1>12

\* The slots after the edge.
LEMMA SlotsNext ==
  ASSUME TypeOK, StageOK, SlotsOK
  PROVE  /\ slots_next \in [Slot -> AnyUop]
         /\ \A k \in Slot : /\ k \in Issued => slots_next[k] = NoUop
                            /\ \A i \in Loaded(k) : k \notin Issued /\ slots_next[k] = is.in[i]
                            /\ k \notin Issued /\ Loaded(k) = {} => slots_next[k] = slots[k]
         /\ Issued \in SUBSET (Slot \ Free)
<1>0. is.in \in Group /\ slots \in [Slot -> AnyUop] BY DEF TypeOK, Stage
<1>1. Issued \in SUBSET (Slot \ Free) BY Selection DEF Issued
<1>2. ASSUME NEW k \in Slot
      PROVE  /\ k \in Issued => slots_next[k] = NoUop
             /\ \A i \in Loaded(k) : k \notin Issued /\ slots_next[k] = is.in[i]
             /\ k \notin Issued /\ Loaded(k) = {} => slots_next[k] = slots[k]
  <2>1. slots_next[k] = IF k \in Issued THEN NoUop
                        ELSE IF Loaded(k) # {} THEN is.in[CHOOSE i \in Loaded(k) : TRUE]
                        ELSE slots[k]
    BY DEF slots_next
  <2>2. \A i \in Loaded(k) : Loaded(k) = {i} /\ k \in Free BY Loading
  <2>3. \A i \in Loaded(k) : (CHOOSE j \in Loaded(k) : TRUE) = i BY <2>2
  <2> QED BY <1>1, <2>1, <2>2, <2>3
<1>3. ASSUME NEW k \in Slot PROVE slots_next[k] \in AnyUop
  <2>1. \A i \in Loaded(k) : is.in[i] \in AnyUop
    <3>1. \A i \in Loaded(k) : i \in 1..DISPATCH_WIDTH BY Loading
    <3> QED BY <1>0, <3>1 DEF Group
  <2> QED BY <1>0, <1>2, <2>1, UopFacts
<1>4. slots_next = [k \in Slot |-> slots_next[k]] BY DEF slots_next
<1>5. slots_next \in [Slot -> AnyUop] BY <1>3, <1>4
<1> QED BY <1>1, <1>2, <1>5

\* The counter counts exactly, and does not wrap.
LEMMA Counting ==
  ASSUME TypeOK, StageOK, SlotsOK, slots' = slots_next
  PROVE  free_count = Cardinality(Free)' /\ free_count \in 0..IQ_INT_SIZE
<1>1. PICK n, a, f : n = Count(is.in) /\ a = Cardinality(Issued) /\ f = Cardinality(Free) OBVIOUS
<1>2. /\ IsFiniteSet(Slot) /\ IsFiniteSet(Free) /\ Free \in SUBSET Slot
      /\ Cardinality(Slot) = IQ_INT_SIZE /\ f \in 0..IQ_INT_SIZE
  BY <1>1, Selection
<1>3. n \in Nat /\ n <= f /\ LoadedSlots \in SUBSET Free /\ Cardinality(LoadedSlots) = n
  BY <1>1, Loading, Sizes
<1>4. Issued \in SUBSET (Slot \ Free) BY SlotsNext
<1>5. Free' = (Free \ LoadedSlots) \cup Issued
  <2>1. Free' = {k \in Slot : ~Valid(slots_next[k])} BY DEF Free, Slot
  <2>2. ASSUME NEW k \in Slot
        PROVE  ~Valid(slots_next[k]) <=> k \in (Free \ LoadedSlots) \cup Issued
    <3>1. CASE k \in Issued BY <3>1, SlotsNext, UopFacts
    <3>2. CASE k \notin Issued /\ Loaded(k) = {}
      <4>1. slots_next[k] = slots[k] BY <3>2, SlotsNext
      <4> QED BY <3>2, <4>1 DEF LoadedSlots, Free
    <3>3. ASSUME NEW i \in Loaded(k)
          PROVE  ~Valid(slots_next[k]) <=> k \in (Free \ LoadedSlots) \cup Issued
      <4>1. k \notin Issued /\ slots_next[k] = is.in[i] /\ Valid(is.in[i]) BY SlotsNext, Loading
      <4> QED BY <4>1 DEF LoadedSlots
    <3> QED BY <3>1, <3>2, <3>3
  <2> QED BY <1>2, <1>4, <2>1, <2>2
<1>6. PICK g : g = Cardinality(Free') OBVIOUS
<1>7. IsFiniteSet(Issued) /\ a \in Nat
  <2>1. IsFiniteSet(Issued) BY <1>2, <1>4, FS_Subset
  <2> QED BY <1>1, <2>1, FS_CardinalityType
<1>8. g = f - n + a
  <2>1. PICK T : T = Free \ LoadedSlots OBVIOUS
  <2>2. Free \cap LoadedSlots = LoadedSlots /\ T \cap Issued = {} BY <1>3, <1>4, <2>1
  <2>3. IsFiniteSet(T) /\ Cardinality(T) = f - n
    <3>1. /\ IsFiniteSet(Free \ LoadedSlots)
          /\ Cardinality(Free \ LoadedSlots)
               = Cardinality(Free) - Cardinality(Free \cap LoadedSlots)
      BY ONLY <1>2, FS_Difference
    <3> QED BY ONLY <1>1, <1>3, <2>1, <2>2, <3>1
  <2>4. Cardinality(T \cup Issued) = Cardinality(T) + a - Cardinality(T \cap Issued)
    BY <1>1, <1>7, <2>3, FS_Union
  <2>5. Cardinality(T \cap Issued) = 0 BY <2>2, FS_EmptySet
  <2> QED BY <1>2, <1>3, <1>5, <1>6, <1>7, <2>1, <2>3, <2>4, <2>5
<1>9. g \in 0..IQ_INT_SIZE
  <2>1. Free' \in SUBSET Slot BY <1>2, <1>4, <1>5
  <2>2. IsFiniteSet(Free') /\ g <= IQ_INT_SIZE BY <1>2, <1>6, <2>1, FS_Subset
  <2>3. g \in Nat BY <1>6, <2>2, FS_CardinalityType
  <2> QED BY <2>2, <2>3, Sizes
<1>10. free_count = (f - n + a) % (2 * IQ_INT_SIZE) BY <1>1 DEF free_count, SlotsOK, Count
<1>11. g % (2 * IQ_INT_SIZE) = g
  <2>1. g \in 0..(2 * IQ_INT_SIZE - 1) /\ 2 * IQ_INT_SIZE \in Nat \ {0} BY <1>9, Sizes
  <2> QED BY <2>1, SmallMod
<1> QED BY <1>6, <1>8, <1>9, <1>10, <1>11

-----------------------------------------------------------------------------
(* What dispatch.sv sends, and the stage in front of the queue.              *)

\* A group of micro-ops with the next numbers, as many as are left, that read
\* registers of the path or of the group.
Dispatched(group) ==
  /\ group \in Group /\ Packed(group, Count(group)) /\ fresh + Count(group) <= MAX_UOP
  /\ is.stall_prev => group = Bubble
  /\ \A i \in 1..Count(group) :
       /\ i \in 1..DISPATCH_WIDTH /\ group[i] \in Uop /\ group[i].id = fresh + i
       /\ \/ group[i].src = 0 \/ group[i].src \in Ids(live)
          \/ \E j \in 1..Count(group) : group[i].src = group[j].id

\* The bound of Groups.
LEMMA GroupsAre ==
  ASSUME TypeOK, NEW group \in Groups
  PROVE  Dispatched(group)
<1> DEFINE room == IF is.stall_prev THEN 0 ELSE MAX_UOP - fresh
           Made(n, fu, src) ==
             [i \in 1..DISPATCH_WIDTH |->
                IF i <= n THEN [id |-> fresh + i, fu |-> fu[i], src |-> src[i]] ELSE NoUop]
           Srcs(n) == {src \in [1..n -> {0} \cup Ids(live) \cup (fresh + 1)..(fresh + n)] :
                         \A i \in 1..n : src[i] < fresh + i}
           Sent == UNION {{Made(n, fu, src) : fu \in [1..n -> FuCode], src \in Srcs(n)} :
                            n \in 0..(IF room < DISPATCH_WIDTH THEN room ELSE DISPATCH_WIDTH)}
<1>0. group \in Sent BY DEF Groups
<1> HIDE DEF room, Made, Srcs
<1>1. PICK m \in 0..(IF room < DISPATCH_WIDTH THEN room ELSE DISPATCH_WIDTH) :
        group \in {Made(m, fu, src) : fu \in [1..m -> FuCode], src \in Srcs(m)}
  BY ONLY <1>0
<1>2. PICK fu \in [1..m -> FuCode], src \in Srcs(m) : group = Made(m, fu, src) BY ONLY <1>1
<1> USE DEF room, Made, Srcs
<1>3. fresh \in 0..MAX_UOP /\ is.stall_prev \in BOOLEAN /\ live \in SUBSET Uop BY DEF TypeOK, Stage
<1>4. /\ m \in 0..DISPATCH_WIDTH /\ fresh + m <= MAX_UOP /\ fresh \in Nat
      /\ is.stall_prev => m = 0
  BY <1>1, <1>3, Sizes
<1>5. \A i \in 1..m : i \in 1..DISPATCH_WIDTH /\ fresh + i \in Id BY <1>4, Sizes
<1>6. ASSUME NEW i \in 1..m
      PROVE  /\ group[i] \in Uop /\ group[i].id = fresh + i
             /\ \/ group[i].src = 0 \/ group[i].src \in Ids(live)
                \/ group[i].src \in (fresh + 1)..(fresh + m)
  <2>1. fu[i] \in FuCode BY <1>2
  <2>2. src[i] \in {0} \cup Ids(live) \cup (fresh + 1)..(fresh + m) BY <1>2
  <2>3. group[i] = [id |-> fresh + i, fu |-> fu[i], src |-> src[i]] BY <1>2, <1>4, <1>5
  <2>4. src[i] \in 0..MAX_UOP
    <3>1. \A x \in Ids(live) : x \in 0..MAX_UOP
      <4> TAKE x \in Ids(live)
      <4>1. PICK u \in live : x = u.id BY DEF Ids
      <4>2. u.id \in Id BY <1>3, <4>1, UopFacts
      <4> QED BY <4>1, <4>2, Sizes
    <3>2. \A x \in (fresh + 1)..(fresh + m) : x \in 0..MAX_UOP BY <1>4, Sizes
    <3> QED BY <2>2, <3>1, <3>2, Sizes
  <2>5. group[i] \in Uop BY <1>5, <2>1, <2>3, <2>4 DEF Uop
  <2> QED BY <2>2, <2>3, <2>5
<1>7. \A i \in 1..DISPATCH_WIDTH : i \notin 1..m => group[i] = NoUop BY <1>2, <1>4, Sizes
<1>8. group \in Group
  <2>1. \A i \in 1..DISPATCH_WIDTH : group[i] \in AnyUop BY <1>6, <1>7, UopFacts
  <2>2. group = [i \in 1..DISPATCH_WIDTH |-> group[i]] BY <1>2
  <2> QED BY <2>1, <2>2 DEF Group
<1>9. Packed(group, m)
  <2>1. \A i \in 1..DISPATCH_WIDTH : Valid(group[i]) <=> i <= m
    <3> TAKE i \in 1..DISPATCH_WIDTH
    <3>1. i \in 1..m <=> i <= m BY <1>4, Sizes
    <3> QED BY <1>6, <1>7, <3>1, UopFacts
  <2>2. \A i, j \in 1..m : group[i].id = group[j].id => i = j BY <1>4, <1>6
  <2> QED BY <1>4, <2>1, <2>2 DEF Packed
<1>10. Count(group) = m BY <1>4, <1>8, <1>9, CountIs
<1>11. is.stall_prev => group = Bubble
  <2> SUFFICES ASSUME is.stall_prev PROVE group = Bubble OBVIOUS
  <2>1. \A i \in 1..DISPATCH_WIDTH : ~(i <= m) BY <1>4, Sizes
  <2> QED BY <1>2, <2>1 DEF Bubble
<1>12. \A x \in (fresh + 1)..(fresh + m) : \E j \in 1..m : x = group[j].id
  <2> TAKE x \in (fresh + 1)..(fresh + m)
  <2>1. x - fresh \in 1..m /\ x = fresh + (x - fresh) BY <1>4
  <2> QED BY <1>6, <2>1
<1>13. \A i \in 1..m : \/ group[i].src = 0 \/ group[i].src \in Ids(live)
                       \/ \E j \in 1..m : group[i].src = group[j].id
  BY <1>6, <1>12
<1> QED BY <1>4, <1>5, <1>6, <1>8, <1>9, <1>10, <1>11, <1>13 DEF Dispatched

\* The stage after an edge: where its groups come from.
Staged(s, group, full) ==
  /\ s.in = IF full THEN Bubble ELSE IF is.stall_prev THEN is.tmp ELSE group
  /\ s.tmp = IF ~full THEN Bubble ELSE IF is.stall_prev THEN is.tmp ELSE group
  /\ s.stall_prev = full

\* The skid buffer, in a cycle without a flush.
LEMMA StageNext ==
  ASSUME TypeOK, StageOK, NEW group \in Group, is.stall_prev => group = Bubble,
         NEW full \in BOOLEAN
  PROVE  /\ SkidNext(is, FALSE, full, group, Bubble) \in Stage(Group)
         /\ Staged(SkidNext(is, FALSE, full, group, Bubble), group, full)
<1>1. is \in [in : Group, tmp : Group, stall_prev : BOOLEAN] BY DEF TypeOK, Stage
<1>2. is.tmp \in Group /\ Bubble \in Group BY <1>1, BubbleFacts
<1>3. IF is.stall_prev THEN is.in = Bubble ELSE is.tmp = Bubble BY DEF StageOK
<1>4. CASE full /\ ~is.stall_prev BY <1>1, <1>2, <1>4 DEF SkidNext, Staged, Stage
<1>5. CASE ~full /\ is.stall_prev BY <1>1, <1>2, <1>5 DEF SkidNext, Staged, Stage
<1>6. CASE full /\ is.stall_prev BY <1>1, <1>2, <1>6 DEF SkidNext, Staged, Stage
<1>7. CASE ~full /\ ~is.stall_prev BY <1>1, <1>2, <1>3, <1>7 DEF SkidNext, Staged, Stage
<1> QED BY <1>4, <1>5, <1>6, <1>7

\* The queue and its stage after a cycle without a flush.
LEMMA QueueEdge ==
  ASSUME TypeOK, StageOK, SlotsOK, NEW group, Dispatched(group), NEW mem_full \in BOOLEAN,
         Queue(group, mem_full, FALSE)
  PROVE  /\ is' \in Stage(Group) /\ iq_full_reg' \in BOOLEAN
         /\ Staged(is', group, iq_full_reg')
         /\ slots' = slots_next /\ slots' \in [Slot -> AnyUop]
         /\ free_count_reg' \in 0..IQ_INT_SIZE /\ SlotsOK' /\ StageOK'
         /\ sb' = sb_next(group)
<1>1. PICK full \in BOOLEAN : full = (mem_full \/ iq_int_full) BY DEF iq_int_full
<1>2. /\ sb' = sb_next(group) /\ is' = SkidNext(is, FALSE, full, group, Bubble)
      /\ iq_full_reg' = full /\ slots' = slots_next /\ free_count_reg' = free_count
  BY <1>1 DEF Queue
<1>3. group \in Group /\ Packed(group, Count(group)) /\ (is.stall_prev => group = Bubble)
  BY DEF Dispatched
<1>4. is' \in Stage(Group) /\ Staged(is', group, full) BY <1>2, <1>3, StageNext
<1>5. slots' \in [Slot -> AnyUop] BY <1>2, SlotsNext
<1>6. free_count_reg' \in 0..IQ_INT_SIZE /\ SlotsOK' BY <1>2, Counting DEF SlotsOK
<1>7. StageOK'
  <2>1. Packed(Bubble, Count(Bubble)) /\ Uops(Bubble) = {} BY BubbleFacts
  <2>2. Packed(is.tmp, Count(is.tmp)) BY DEF StageOK
  <2>3. Packed(is'.in, Count(is'.in)) /\ Packed(is'.tmp, Count(is'.tmp))
    BY <1>3, <1>4, <2>1, <2>2 DEF Staged
  <2>4. IF is'.stall_prev THEN is'.in = Bubble ELSE is'.tmp = Bubble BY <1>4 DEF Staged
  <2>5. Uops(is'.in) # {} => ~full BY <1>4, <2>1 DEF Staged
  <2>6. ~full => free_count >= DISPATCH_WIDTH
    <3>1. free_count \in Int BY <1>2, <1>6, Sizes
    <3>2. ~full => ~(free_count < DISPATCH_WIDTH) BY <1>1 DEF iq_int_full
    <3> QED BY <3>1, <3>2, Sizes
  <2>7. /\ Packed(is.in, Count(is.in))' /\ Packed(is.tmp, Count(is.tmp))'
    BY <2>3 DEF Packed, Count, Uops, Valid
  <2> QED BY <1>2, <2>4, <2>5, <2>6, <2>7 DEF StageOK, Uops
<1> QED BY <1>2, <1>4, <1>5, <1>6, <1>7

-----------------------------------------------------------------------------
(* The places of the back end.                                               *)

\* The registers and queues that hold micro-ops.
Shape(T) ==
  /\ DOMAIN T = 1..6
  /\ T[1] \in Group /\ T[2] \in Group /\ T[3] \in [Slot -> AnyUop]
  /\ T[4] \in [Pipe -> AnyUop] /\ T[5] \in [Pipe -> AnyUop]
  /\ T[6] \in [Pipe -> AnyUop]

\* What they hold, by place.
LEMMA ShapeFacts ==
  ASSUME NEW T, Shape(T)
  PROVE  /\ \A n \in 1..6 : \A i \in DOMAIN T[n] : T[n][i] \in AnyUop
         /\ \A n \in 1..6 : \A u : u \in Uops(T[n]) <=>
                                   \E i \in DOMAIN T[n] : u = T[n][i] /\ Valid(T[n][i])
         /\ DOMAIN T[1] = 1..DISPATCH_WIDTH /\ DOMAIN T[2] = 1..DISPATCH_WIDTH
         /\ DOMAIN T[3] = Slot /\ DOMAIN T[4] = Pipe /\ DOMAIN T[5] = Pipe
         /\ DOMAIN T[6] = Pipe
<1>1. ASSUME NEW n \in 1..6 PROVE \E S : T[n] \in [S -> AnyUop]
  <2>1. CASE n \in {1, 2} BY <2>1 DEF Shape, Group
  <2>2. CASE n = 3 BY <2>2 DEF Shape
  <2>3. CASE n \in {4, 5} BY <2>3 DEF Shape
  <2>4. CASE n = 6 BY <2>4 DEF Shape
  <2> QED BY <2>1, <2>2, <2>3, <2>4
<1>2. ASSUME NEW n \in 1..6
      PROVE  /\ \A i \in DOMAIN T[n] : T[n][i] \in AnyUop
             /\ \A u : u \in Uops(T[n]) <=> \E i \in DOMAIN T[n] : u = T[n][i] /\ Valid(T[n][i])
  <2>1. PICK S : T[n] \in [S -> AnyUop] BY <1>1
  <2>2. DOMAIN T[n] = S BY <2>1
  <2> QED BY <2>1, <2>2, UopsOf
<1>3. /\ DOMAIN T[1] = 1..DISPATCH_WIDTH /\ DOMAIN T[2] = 1..DISPATCH_WIDTH
      /\ DOMAIN T[3] = Slot /\ DOMAIN T[4] = Pipe /\ DOMAIN T[5] = Pipe
      /\ DOMAIN T[6] = Pipe
  BY DEF Shape, Group
<1> QED BY <1>2, <1>3

\* The model's list of them.
LEMMA StagesAre ==
  ASSUME TypeOK
  PROVE  /\ Shape(Stages)
         /\ Stages[1] = is.in /\ Stages[2] = is.tmp /\ Stages[3] = slots /\ Stages[4] = rf
         /\ Stages[5] = ex /\ Stages[6] = alu_out
<1>1. /\ DOMAIN Stages = 1..6
      /\ Stages[1] = is.in /\ Stages[2] = is.tmp /\ Stages[3] = slots /\ Stages[4] = rf
      /\ Stages[5] = ex /\ Stages[6] = alu_out
  BY DEF Stages
<1>2. is.in \in Group /\ is.tmp \in Group BY DEF TypeOK, Stage
<1> QED BY <1>1, <1>2 DEF Shape, TypeOK

\* The same for the next state.
LEMMA NextStagesAre ==
  ASSUME TypeOK'
  PROVE  /\ Shape(Stages')
         /\ Stages'[1] = is'.in /\ Stages'[2] = is'.tmp /\ Stages'[3] = slots' /\ Stages'[4] = rf'
         /\ Stages'[5] = ex' /\ Stages'[6] = alu_out'
<1>1. /\ DOMAIN Stages' = 1..6
      /\ Stages'[1] = is'.in /\ Stages'[2] = is'.tmp /\ Stages'[3] = slots' /\ Stages'[4] = rf'
      /\ Stages'[5] = ex' /\ Stages'[6] = alu_out'
  BY DEF Stages
<1>2. is'.in \in Group /\ is'.tmp \in Group BY DEF TypeOK, Stage
<1>3. /\ slots' \in [Slot -> AnyUop] /\ rf' \in [Pipe -> AnyUop] /\ ex' \in [Pipe -> AnyUop]
      /\ alu_out' \in [Pipe -> AnyUop]
  BY DEF TypeOK, Slot, Pipe, AnyUop, Uop, NoUop, Id
<1> QED BY <1>1, <1>2, <1>3 DEF Shape

\* What writes back in this cycle.
LEMMA WbAre ==
  ASSUME IInv
  PROVE  /\ \A u : u \in wb_uops <=> \E p \in Pipe : u = alu_out[p] /\ Valid(alu_out[p])
         /\ \A u \in wb_uops : u \in live /\ u \in Uop /\ u.id \in 1..fresh
<1>1. alu_out \in [Pipe -> AnyUop] /\ live \in SUBSET Uop /\ fresh \in 0..MAX_UOP
  BY DEF IInv, TypeOK
<1>2. \A u : u \in wb_uops <=> \E p \in Pipe : u = alu_out[p] /\ Valid(alu_out[p])
  BY <1>1, UopsOf DEF wb_uops
<1>3. Stages[6] = alu_out /\ 6 \in 1..6 BY StagesAre DEF IInv
<1>4. wb_uops \subseteq live BY <1>3 DEF IInv, PathOK, wb_uops
<1>5. ASSUME NEW u \in wb_uops PROVE u \in live /\ u \in Uop /\ u.id \in 1..fresh
  <2>1. u \in live /\ u \in Uop BY <1>1, <1>4
  <2>2. u.id <= fresh BY <2>1 DEF IInv, PathOK
  <2>3. u.id \in Id BY <2>1, UopFacts
  <2> QED BY <1>1, <2>1, <2>2, <2>3, Sizes
<1> QED BY <1>2, <1>5

\* What each pipe is given.
LEMMA OutFacts ==
  ASSUME TypeOK, NEW p \in Pipe
  PROVE  /\ uop_out(p) \in AnyUop
         /\ Selected(p) = {} => uop_out(p) = NoUop
         /\ \A k \in Selected(p) : uop_out(p) = slots[k]
<1>1. ASSUME NEW k \in Selected(p) PROVE uop_out(p) = slots[k] /\ slots[k] \in AnyUop
  <2>1. \A j \in Selected(p) : j = k BY Selection
  <2>2. (CHOOSE j \in Selected(p) : TRUE) = k BY <2>1
  <2>3. k \in Slot BY Selection
  <2> QED BY <2>2, <2>3 DEF uop_out, TypeOK
<1>2. Selected(p) = {} => uop_out(p) = NoUop BY DEF uop_out
<1> QED BY <1>1, <1>2, UopFacts

\* The registers behind the queue after a cycle without a flush.
Executed ==
  /\ rf' = [p \in Pipe |-> uop_out(p)] /\ ex' = rf
  /\ ex_data' = [p \in Pipe |-> ReadPrf(rf[p].src)]
  /\ alu_out' = ex
  /\ prf' = [r \in Id |-> IF r \in Ids(wb_uops) THEN r ELSE prf[r]]

\* A cycle without a flush keeps the types.
LEMMA AdvanceTypes ==
  ASSUME IInv, NEW group, Dispatched(group), NEW mem_full \in BOOLEAN, Advance(group, mem_full)
  PROVE  TypeOK' /\ Executed
<1>1. Queue(group, mem_full, FALSE) /\ Execute(FALSE) BY DEF Advance
<1>2. /\ fresh' = fresh + Cardinality(Uops(group)) /\ live' = live \cup Uops(group)
      /\ done' = done \cup Ids(wb_uops)
  BY DEF Advance
<1>3. Executed
  <2>1. rf' = [p \in Pipe |-> uop_out(p)] BY <1>1 DEF Execute, Flushed
  <2>2. ex' = rf BY <1>1 DEF Execute, Flushed
  <2>3. alu_out' = ex BY <1>1 DEF Execute, Flushed
  <2>4. ex_data' = [p \in Pipe |-> ReadPrf(rf[p].src)] BY <1>1 DEF Execute
  <2>5. prf' = [r \in Id |-> IF r \in Ids(wb_uops) THEN r ELSE prf[r]] BY <1>1 DEF Execute
  <2> QED BY <2>1, <2>2, <2>3, <2>4, <2>5 DEF Executed
<1>4. /\ is' \in Stage(Group) /\ iq_full_reg' \in BOOLEAN
      /\ slots' \in [Slot -> AnyUop] /\ free_count_reg' \in 0..IQ_INT_SIZE
  BY <1>1, QueueEdge DEF IInv
<1>5. /\ rf' \in [Pipe -> AnyUop] /\ ex' \in [Pipe -> AnyUop] /\ alu_out' \in [Pipe -> AnyUop]
  <2>1. \A p \in Pipe : uop_out(p) \in AnyUop BY OutFacts DEF IInv
  <2>2. rf \in [Pipe -> AnyUop] /\ ex \in [Pipe -> AnyUop] BY DEF IInv, TypeOK
  <2> QED BY <1>3, <2>1, <2>2, Sizes DEF Executed
<1>6. ex_data' = [p \in Pipe |-> ex_data'[p]] /\ prf' = [r \in Id |-> prf'[r]]
  BY <1>3 DEF Executed
<1>7. PICK m : m = Cardinality(Uops(group)) OBVIOUS
<1>8. m \in 0..DISPATCH_WIDTH /\ m \in Nat /\ fresh + m <= MAX_UOP /\ fresh \in 0..MAX_UOP
  BY <1>7, Sizes DEF Dispatched, Packed, Count, IInv, TypeOK
<1>9. fresh' \in 0..MAX_UOP /\ fresh <= fresh' BY <1>2, <1>7, <1>8, Sizes
<1>10. live' \in SUBSET Uop
  <2>1. live \in SUBSET Uop BY DEF IInv, TypeOK
  <2>2. \A u \in Uops(group) : u \in Uop
    <3>0. group \in [1..DISPATCH_WIDTH -> AnyUop] BY DEF Dispatched, Group
    <3>1. \A u \in Uops(group) : \E i \in 1..DISPATCH_WIDTH : u = group[i] /\ Valid(group[i])
      BY <3>0, UopsOf
    <3>2. \A i \in 1..DISPATCH_WIDTH : group[i] \in AnyUop BY DEF Dispatched, Group
    <3> QED BY <3>1, <3>2, UopFacts
  <2> QED BY <1>2, <2>1, <2>2
<1>11. done' \in SUBSET (1..fresh')
  <2>1. \A x \in Ids(wb_uops) : x \in 1..fresh BY WbAre DEF Ids
  <2>2. done \in SUBSET (1..fresh) BY DEF IInv, TypeOK
  <2>3. \A x \in 1..fresh : x \in 1..fresh' BY <1>8, <1>9
  <2> QED BY <1>2, <2>1, <2>2, <2>3
<1>12. TypeOK'
  BY <1>4, <1>5, <1>6, <1>9, <1>10, <1>11
     DEF TypeOK, Group, Slot, Pipe, AnyUop, Uop, NoUop, Id
<1> QED BY <1>3, <1>12

-----------------------------------------------------------------------------
(* How micro-ops move.                                                       *)

\* What is in place k of stage m goes to place i of stage n.
Moves(m, k, n, i) ==
  \/ m = 1 /\ n = 3 /\ k \in Loaded(i)
  \/ m = 2 /\ n = 1 /\ k = i /\ is.stall_prev /\ ~iq_full_reg'
  \/ m = 2 /\ n = 2 /\ k = i /\ is.stall_prev /\ iq_full_reg'
  \/ m = 3 /\ n = 3 /\ k = i /\ i \notin Issued
  \/ m = 3 /\ n = 4 /\ k \in Selected(i)
  \/ m = 4 /\ n = 5 /\ k = i
  \/ m = 5 /\ n = 6 /\ k = i

\* The group goes to the first stage or to its skid buffer.
Enters(n, i, group) ==
  n = (IF iq_full_reg' THEN 2 ELSE 1) /\ ~is.stall_prev /\ i \in 1..Count(group)

\* One place goes to one place.
LEMMA MovesOnce ==
  ASSUME TypeOK, StageOK, SlotsOK,
         NEW m \in 1..6, NEW k \in DOMAIN Stages[m],
         NEW n \in 1..6, NEW i \in DOMAIN Stages'[n], NEW p \in 1..6, NEW j \in DOMAIN Stages'[p],
         TypeOK', Moves(m, k, n, i), Moves(m, k, p, j)
  PROVE  n = p /\ i = j
<1>1. /\ DOMAIN Stages'[3] = Slot /\ DOMAIN Stages'[4] = Pipe /\ DOMAIN Stages'[5] = Pipe
      /\ DOMAIN Stages'[6] = Pipe
  BY NextStagesAre, ShapeFacts
<1>2. iq_full_reg' \in BOOLEAN BY DEF TypeOK
<1>3. CASE m = 1
  <2>1. n = 3 /\ p = 3 /\ k \in Loaded(i) /\ k \in Loaded(j) BY <1>3 DEF Moves
  <2>2. i \in Slot /\ j \in Slot BY <1>1, <2>1
  <2> QED BY <2>1, <2>2, Loading
<1>4. CASE m = 2 BY <1>2, <1>4 DEF Moves
<1>5. CASE m = 3
  <2>1. \/ n = 3 /\ k = i /\ k \notin Issued
        \/ n = 4 /\ k \in Selected(i) /\ i \in Pipe /\ k \in Issued
    BY <1>1, <1>5 DEF Moves, Issued
  <2>2. \/ p = 3 /\ k = j /\ k \notin Issued
        \/ p = 4 /\ k \in Selected(j) /\ j \in Pipe /\ k \in Issued
    BY <1>1, <1>5 DEF Moves, Issued
  <2>3. \A x, y \in Pipe : k \in Selected(x) /\ k \in Selected(y) => x = y BY Selection
  <2> QED BY <2>1, <2>2, <2>3
<1>6. CASE m = 4 BY <1>6 DEF Moves
<1>7. CASE m = 5 BY <1>7 DEF Moves
<1>8. CASE m = 6 BY <1>8 DEF Moves
<1> QED BY <1>3, <1>4, <1>5, <1>6, <1>7, <1>8

\* Where the micro-op of a place comes from.
From(n, i, group) ==
  \/ \E m \in 1..6 : \E k \in DOMAIN Stages[m] : Moves(m, k, n, i) /\ Stages[m][k] = Stages'[n][i]
  \/ Enters(n, i, group) /\ Stages'[n][i] = group[i]

\* Every micro-op after the edge was in the back end before, or is of the group.
LEMMA Sources ==
  ASSUME IInv, NEW group, Dispatched(group), NEW mem_full \in BOOLEAN, Advance(group, mem_full),
         NEW n \in 1..6, NEW i \in DOMAIN Stages'[n], Valid(Stages'[n][i])
  PROVE  From(n, i, group)
<1>1. TypeOK' /\ Executed BY AdvanceTypes
<1>2. /\ Stages'[1] = is'.in /\ Stages'[2] = is'.tmp /\ Stages'[3] = slots' /\ Stages'[4] = rf'
      /\ Stages'[5] = ex' /\ Stages'[6] = alu_out'
      /\ DOMAIN Stages'[1] = 1..DISPATCH_WIDTH /\ DOMAIN Stages'[2] = 1..DISPATCH_WIDTH
      /\ DOMAIN Stages'[3] = Slot /\ DOMAIN Stages'[4] = Pipe /\ DOMAIN Stages'[5] = Pipe
      /\ DOMAIN Stages'[6] = Pipe
  BY <1>1, NextStagesAre, ShapeFacts
<1>3. /\ Stages[1] = is.in /\ Stages[2] = is.tmp /\ Stages[3] = slots /\ Stages[4] = rf
      /\ Stages[5] = ex /\ Stages[6] = alu_out
      /\ DOMAIN Stages[1] = 1..DISPATCH_WIDTH /\ DOMAIN Stages[2] = 1..DISPATCH_WIDTH
      /\ DOMAIN Stages[3] = Slot /\ DOMAIN Stages[4] = Pipe /\ DOMAIN Stages[5] = Pipe
      /\ DOMAIN Stages[6] = Pipe
  BY StagesAre, ShapeFacts DEF IInv
<1>4. Staged(is', group, iq_full_reg') /\ slots' = slots_next
  BY QueueEdge DEF Advance, IInv
<1>5. /\ \A j \in 1..DISPATCH_WIDTH : Valid(group[j]) => j \in 1..Count(group)
      /\ \A j \in 1..DISPATCH_WIDTH : ~Valid(Bubble[j])
      /\ is.stall_prev => group = Bubble
  <2>1. \A j \in 1..DISPATCH_WIDTH : Valid(group[j]) => j \in 1..Count(group)
    BY Sizes DEF Dispatched, Packed
  <2>2. \A j \in 1..DISPATCH_WIDTH : ~Valid(Bubble[j]) BY UopFacts DEF Bubble
  <2> QED BY <2>1, <2>2 DEF Dispatched
<1>6. CASE n = 1
  <2>1. i \in 1..DISPATCH_WIDTH /\ Valid(is'.in[i]) /\ Stages'[n][i] = is'.in[i] BY <1>2, <1>6
  <2>2. is'.in = IF iq_full_reg' THEN Bubble ELSE IF is.stall_prev THEN is.tmp ELSE group
    BY <1>4 DEF Staged
  <2>3. ~iq_full_reg' BY <1>5, <2>1, <2>2
  <2>4. CASE is.stall_prev
    <3>1. Moves(2, i, n, i) /\ Stages[2][i] = Stages'[n][i] BY <1>3, <1>6, <2>1, <2>2, <2>3, <2>4 DEF Moves
    <3>2. 2 \in 1..6 /\ i \in DOMAIN Stages[2] BY <1>3, <2>1
    <3> QED BY <3>1, <3>2 DEF From
  <2>5. CASE ~is.stall_prev BY <1>5, <1>6, <2>1, <2>2, <2>3, <2>5 DEF From, Enters
  <2> QED BY <2>4, <2>5
<1>7. CASE n = 2
  <2>1. i \in 1..DISPATCH_WIDTH /\ Valid(is'.tmp[i]) /\ Stages'[n][i] = is'.tmp[i] BY <1>2, <1>7
  <2>2. is'.tmp = IF ~iq_full_reg' THEN Bubble ELSE IF is.stall_prev THEN is.tmp ELSE group
    BY <1>4 DEF Staged
  <2>3. iq_full_reg' BY <1>5, <2>1, <2>2
  <2>4. CASE is.stall_prev
    <3>1. Moves(2, i, n, i) /\ Stages[2][i] = Stages'[n][i] BY <1>3, <1>7, <2>1, <2>2, <2>3, <2>4 DEF Moves
    <3>2. 2 \in 1..6 /\ i \in DOMAIN Stages[2] BY <1>3, <2>1
    <3> QED BY <3>1, <3>2 DEF From
  <2>5. CASE ~is.stall_prev BY <1>5, <1>7, <2>1, <2>2, <2>3, <2>5 DEF From, Enters
  <2> QED BY <2>4, <2>5
<1>8. CASE n = 3
  <2>1. i \in Slot /\ Valid(slots_next[i]) /\ Stages'[n][i] = slots_next[i] BY <1>2, <1>4, <1>8
  <2>2. i \notin Issued BY <2>1, SlotsNext, UopFacts DEF IInv
  <2>3. CASE Loaded(i) = {}
    <3>1. slots_next[i] = slots[i] BY <2>1, <2>2, <2>3, SlotsNext DEF IInv
    <3>2. Moves(3, i, n, i) /\ Stages[3][i] = Stages'[n][i] BY <1>3, <1>8, <2>1, <2>2, <3>1 DEF Moves
    <3>3. 3 \in 1..6 /\ i \in DOMAIN Stages[3] BY <1>3, <2>1
    <3> QED BY <3>2, <3>3 DEF From
  <2>4. ASSUME NEW k \in Loaded(i) PROVE From(n, i, group)
    <3>1. slots_next[i] = is.in[k] BY <2>1, SlotsNext DEF IInv
    <3>2. Moves(1, k, n, i) /\ Stages[1][k] = Stages'[n][i] BY <1>3, <1>8, <2>1, <3>1 DEF Moves
    <3>3. 1 \in 1..6 /\ k \in DOMAIN Stages[1] BY <1>3 DEF Loaded
    <3> QED BY <3>2, <3>3 DEF From
  <2> QED BY <2>3, <2>4
<1>9. CASE n = 4
  <2>1. i \in Pipe /\ rf'[i] = uop_out(i) /\ Valid(uop_out(i)) /\ Stages'[n][i] = uop_out(i)
    BY <1>1, <1>2, <1>9 DEF Executed
  <2>2. PICK k : k \in Selected(i) BY <2>1, OutFacts, UopFacts DEF IInv
  <2>3. uop_out(i) = slots[k] /\ k \in Slot BY <2>1, <2>2, OutFacts, Selection DEF IInv
  <2>4. Moves(3, k, n, i) /\ Stages[3][k] = Stages'[n][i] BY <1>3, <1>9, <2>1, <2>2, <2>3 DEF Moves
  <2>5. 3 \in 1..6 /\ k \in DOMAIN Stages[3] BY <1>3, <2>3
  <2> QED BY <2>4, <2>5 DEF From
<1>10. CASE n = 5
  <2>1. i \in Pipe /\ Stages'[n][i] = rf[i] BY <1>1, <1>2, <1>10 DEF Executed
  <2>2. Moves(4, i, n, i) /\ Stages[4][i] = Stages'[n][i] BY <1>3, <1>10, <2>1 DEF Moves
  <2>3. 4 \in 1..6 /\ i \in DOMAIN Stages[4] BY <1>3, <2>1
  <2> QED BY <2>2, <2>3 DEF From
<1>11. CASE n = 6
  <2>1. i \in Pipe /\ Stages'[n][i] = ex[i] BY <1>1, <1>2, <1>11 DEF Executed
  <2>2. Moves(5, i, n, i) /\ Stages[5][i] = Stages'[n][i] BY <1>3, <1>11, <2>1 DEF Moves
  <2>3. 5 \in 1..6 /\ i \in DOMAIN Stages[5] BY <1>3, <2>1
  <2> QED BY <2>2, <2>3 DEF From
<1> QED BY <1>6, <1>7, <1>8, <1>9, <1>10, <1>11

\* Every micro-op of the back end that does not write back is still there after
\* the edge.
LEMMA Destinations ==
  ASSUME IInv, NEW group, Dispatched(group), NEW mem_full \in BOOLEAN, Advance(group, mem_full),
         NEW m \in 1..6, NEW k \in DOMAIN Stages[m], Valid(Stages[m][k]),
         Stages[m][k] \notin wb_uops
  PROVE  \E n \in 1..6 : \E i \in DOMAIN Stages'[n] : Stages'[n][i] = Stages[m][k]
<1>1. TypeOK' /\ Executed BY AdvanceTypes
<1>2. /\ Stages'[1] = is'.in /\ Stages'[2] = is'.tmp /\ Stages'[3] = slots' /\ Stages'[4] = rf'
      /\ Stages'[5] = ex' /\ Stages'[6] = alu_out'
      /\ DOMAIN Stages'[1] = 1..DISPATCH_WIDTH /\ DOMAIN Stages'[2] = 1..DISPATCH_WIDTH
      /\ DOMAIN Stages'[3] = Slot /\ DOMAIN Stages'[4] = Pipe /\ DOMAIN Stages'[5] = Pipe
      /\ DOMAIN Stages'[6] = Pipe
  BY <1>1, NextStagesAre, ShapeFacts
<1>3. /\ Stages[1] = is.in /\ Stages[2] = is.tmp /\ Stages[3] = slots /\ Stages[4] = rf
      /\ Stages[5] = ex /\ Stages[6] = alu_out
      /\ DOMAIN Stages[1] = 1..DISPATCH_WIDTH /\ DOMAIN Stages[2] = 1..DISPATCH_WIDTH
      /\ DOMAIN Stages[3] = Slot /\ DOMAIN Stages[4] = Pipe /\ DOMAIN Stages[5] = Pipe
      /\ DOMAIN Stages[6] = Pipe
  BY StagesAre, ShapeFacts DEF IInv
<1>4. Staged(is', group, iq_full_reg') /\ slots' = slots_next
  BY QueueEdge DEF Advance, IInv
<1>5. CASE m = 1
  <2>1. k \in 1..DISPATCH_WIDTH /\ Valid(is.in[k]) /\ Stages[m][k] = is.in[k] BY <1>3, <1>5
  <2>2. PICK j \in Slot : Loaded(j) = {k} BY <2>1, Loading DEF IInv
  <2>3. slots_next[j] = is.in[k] BY <2>2, SlotsNext DEF IInv
  <2>4. 3 \in 1..6 /\ j \in DOMAIN Stages'[3] /\ Stages'[3][j] = Stages[m][k] BY <1>2, <1>4, <2>1, <2>2, <2>3
  <2> QED BY <2>4
<1>6. CASE m = 2
  <2>1. k \in 1..DISPATCH_WIDTH /\ Valid(is.tmp[k]) /\ Stages[m][k] = is.tmp[k] BY <1>3, <1>6
  <2>2. is.stall_prev
    <3>1. ~is.stall_prev => is.tmp = Bubble BY DEF IInv, StageOK
    <3>2. ~Valid(Bubble[k]) BY <2>1, UopFacts DEF Bubble
    <3> QED BY <2>1, <3>1, <3>2
  <2>3. IF iq_full_reg' THEN is'.tmp = is.tmp ELSE is'.in = is.tmp BY <1>4, <2>2 DEF Staged
  <2>4. CASE iq_full_reg'
    <3>1. 2 \in 1..6 /\ k \in DOMAIN Stages'[2] /\ Stages'[2][k] = Stages[m][k] BY <1>2, <2>1, <2>3, <2>4
    <3> QED BY <3>1
  <2>5. CASE ~iq_full_reg'
    <3>1. 1 \in 1..6 /\ k \in DOMAIN Stages'[1] /\ Stages'[1][k] = Stages[m][k] BY <1>2, <2>1, <2>3, <2>5
    <3> QED BY <3>1
  <2> QED BY <2>4, <2>5
<1>7. CASE m = 3
  <2>1. k \in Slot /\ Valid(slots[k]) /\ Stages[m][k] = slots[k] BY <1>3, <1>7
  <2>2. CASE k \in Issued
    <3>1. PICK p \in Pipe : k \in Selected(p) BY <2>2 DEF Issued
    <3>2. rf'[p] = slots[k] BY <1>1, <3>1, OutFacts DEF Executed, IInv
    <3>3. 4 \in 1..6 /\ p \in DOMAIN Stages'[4] /\ Stages'[4][p] = Stages[m][k] BY <1>2, <2>1, <3>2
    <3> QED BY <3>3
  <2>3. CASE k \notin Issued
    <3>1. k \notin Free BY <2>1 DEF Free
    <3>2. \A i : i \notin Loaded(k) BY <2>1, <3>1, Loading DEF IInv
    <3>3. slots_next[k] = slots[k] BY <2>1, <2>3, <3>2, SlotsNext DEF IInv
    <3>4. 3 \in 1..6 /\ k \in DOMAIN Stages'[3] /\ Stages'[3][k] = Stages[m][k] BY <1>2, <1>4, <2>1, <3>3
    <3> QED BY <3>4
  <2> QED BY <2>2, <2>3
<1>8. CASE m = 4
  <2>1. k \in Pipe /\ ex'[k] = rf[k] BY <1>1, <1>3, <1>8 DEF Executed
  <2>2. 5 \in 1..6 /\ k \in DOMAIN Stages'[5] /\ Stages'[5][k] = Stages[m][k] BY <1>2, <1>3, <1>8, <2>1
  <2> QED BY <2>2
<1>9. CASE m = 5
  <2>1. k \in Pipe /\ alu_out'[k] = ex[k] BY <1>1, <1>3, <1>9 DEF Executed
  <2>2. 6 \in 1..6 /\ k \in DOMAIN Stages'[6] /\ Stages'[6][k] = Stages[m][k] BY <1>2, <1>3, <1>9, <2>1
  <2> QED BY <2>2
<1>10. CASE m = 6
  <2>1. k \in Pipe /\ Stages[m][k] = alu_out[k] BY <1>3, <1>10
  <2>2. Stages[m][k] \in wb_uops BY <2>1, WbAre
  <2> QED BY <2>2
<1> QED BY <1>5, <1>6, <1>7, <1>8, <1>9, <1>10

\* The micro-ops of a group: new ones.
LEMMA NewUops ==
  ASSUME TypeOK, NEW group, Dispatched(group)
  PROVE  \A u : u \in Uops(group) <=> \E i \in 1..Count(group) : u = group[i]
<1>1. group \in [1..DISPATCH_WIDTH -> AnyUop] BY DEF Dispatched, Group
<1>2. \A u : u \in Uops(group) <=> \E i \in 1..DISPATCH_WIDTH : u = group[i] /\ Valid(group[i])
  BY <1>1, UopsOf
<1>3. /\ Count(group) \in 0..DISPATCH_WIDTH
      /\ \A i \in 1..DISPATCH_WIDTH : Valid(group[i]) <=> i <= Count(group)
  BY DEF Dispatched, Packed
<1>4. \A i : i \in 1..Count(group) <=> i \in 1..DISPATCH_WIDTH /\ i <= Count(group)
  BY <1>3, Sizes
<1> QED BY <1>2, <1>3, <1>4

\* The path grows by the group, and nothing else enters the back end.
LEMMA AdvancePath ==
  ASSUME IInv, NEW group, Dispatched(group), NEW mem_full \in BOOLEAN, Advance(group, mem_full)
  PROVE  PathOK' /\ Apart'
<1>1. TypeOK' /\ Executed BY AdvanceTypes
<1>2. PICK c : c = Count(group) OBVIOUS
<1>3. /\ c \in Nat /\ fresh \in Nat /\ fresh' = fresh + c /\ live' = live \cup Uops(group)
      /\ live \in SUBSET Uop
  BY <1>2, Sizes DEF Advance, Dispatched, Packed, Count, IInv, TypeOK
<1>4. \A u : u \in Uops(group) <=> \E i \in 1..c : u = group[i] BY <1>2, NewUops DEF IInv
<1>5. \A i \in 1..c : /\ group[i] \in Uop /\ group[i].id = fresh + i
                      /\ \/ group[i].src = 0 \/ group[i].src \in Ids(live)
                         \/ \E j \in 1..c : group[i].src = group[j].id
  BY <1>2 DEF Dispatched
<1>6. \A u \in live : u.id <= fresh /\ u.id \in Int
  <2>1. \A u \in live : u.id <= fresh BY DEF IInv, PathOK
  <2> QED BY <1>3, <2>1, UopFacts
<1>7. \A u \in Uops(group) : u.id > fresh /\ u.id <= fresh' /\ u.id \in Int BY <1>3, <1>4, <1>5
<1>8. \A u \in live' : u.id <= fresh' BY <1>3, <1>6, <1>7
<1>9. ASSUME NEW u \in live', NEW v \in live', u.id = v.id PROVE u = v
  <2>1. CASE u \in live /\ v \in live BY <1>9, <2>1 DEF IInv, PathOK
  <2>2. CASE u \in Uops(group) /\ v \in Uops(group)
    <3>1. PICK i \in 1..c : u = group[i] BY <1>4, <2>2
    <3>2. PICK j \in 1..c : v = group[j] BY <1>4, <2>2
    <3>3. fresh + i = fresh + j BY <1>5, <1>9, <3>1, <3>2
    <3>4. i = j BY <1>3, <3>3
    <3> QED BY <3>1, <3>2, <3>4
  <2>3. CASE (u \in live /\ v \in Uops(group)) \/ (u \in Uops(group) /\ v \in live)
    <3>1. FALSE BY <1>3, <1>6, <1>7, <1>9, <2>3
    <3> QED BY <3>1
  <2> QED BY <1>3, <2>1, <2>2, <2>3
<1>10. /\ \A n \in 1..6 : \A u : u \in Uops(Stages[n]) <=>
                                 \E i \in DOMAIN Stages[n] : u = Stages[n][i] /\ Valid(Stages[n][i])
       /\ \A n \in 1..6 : \A i \in DOMAIN Stages[n] : Stages[n][i] \in AnyUop
  BY StagesAre, ShapeFacts DEF IInv
<1>11. /\ \A n \in 1..6 : \A u : u \in Uops(Stages'[n]) <=>
                                 \E i \in DOMAIN Stages'[n] : u = Stages'[n][i] /\ Valid(Stages'[n][i])
       /\ \A n \in 1..6 : \A i \in DOMAIN Stages'[n] : Stages'[n][i] \in AnyUop
  BY <1>1, NextStagesAre, ShapeFacts
<1>12. ASSUME NEW n \in 1..6, NEW u \in Uops(Stages'[n])
       PROVE  (\E m \in 1..6 : u \in Uops(Stages[m])) \/ u \in Uops(group)
  <2>1. PICK i \in DOMAIN Stages'[n] : u = Stages'[n][i] /\ Valid(Stages'[n][i]) BY <1>11
  <2>2. From(n, i, group) BY <2>1, Sources
  <2>3. CASE \E m \in 1..6 : \E k \in DOMAIN Stages[m] :
               Moves(m, k, n, i) /\ Stages[m][k] = Stages'[n][i]
    BY <1>10, <2>1, <2>3
  <2>4. CASE Enters(n, i, group) /\ Stages'[n][i] = group[i] BY <1>2, <1>4, <2>1, <2>4 DEF Enters
  <2> QED BY <2>2, <2>3, <2>4 DEF From
<1>13. \A n \in 1..6 : Uops(Stages[n]) \subseteq live BY DEF IInv, PathOK
<1>14. \A n \in 1..6 : Uops(Stages'[n]) \subseteq live' BY <1>3, <1>12, <1>13
<1>15. ASSUME NEW n \in 1..6, NEW u \in Uops(Stages'[n]) PROVE u.src = 0 \/ u.src \in Ids(live')
  <2>1. Ids(live) \subseteq Ids(live') BY <1>3 DEF Ids
  <2>2. \A m \in 1..6 : \A v \in Uops(Stages[m]) : v.src = 0 \/ v.src \in Ids(live)
    BY DEF IInv, PathOK
  <2>3. CASE u \in Uops(group)
    <3>1. PICK i \in 1..c : u = group[i] BY <1>4, <2>3
    <3>2. \A j \in 1..c : group[j].id \in Ids(live') BY <1>3, <1>4 DEF Ids
    <3> QED BY <1>5, <2>1, <3>1, <3>2
  <2> QED BY <1>12, <2>1, <2>2, <2>3
<1>16. PathOK'
  <2>1. \A n \in 1..6 : Uops(Stages[n])' \subseteq live' BY <1>14 DEF Uops, NoUop
  <2>2. \A n \in 1..6 : \A u \in Uops(Stages[n])' : u.src = 0 \/ u.src \in Ids(live')
    BY <1>15 DEF Uops, NoUop
  <2> QED BY <1>8, <1>9, <2>1, <2>2 DEF PathOK, Ids
<1>17. ASSUME NEW n \in 1..6, NEW m \in 1..6,
              NEW i \in DOMAIN Stages'[n], NEW j \in DOMAIN Stages'[m],
              Valid(Stages'[n][i]), Stages'[n][i].id = Stages'[m][j].id
       PROVE  n = m /\ i = j
  <2>1. Valid(Stages'[m][j]) BY <1>17 DEF Valid
  <2>2. From(n, i, group) /\ From(m, j, group) BY <1>17, <2>1, Sources
  <2>3. ASSUME NEW p \in 1..6, NEW k \in DOMAIN Stages[p], Valid(Stages[p][k])
        PROVE  Stages[p][k].id <= fresh /\ Stages[p][k].id \in Int
    BY <1>6, <1>10, <1>13, <2>3
  <2>4. ASSUME NEW p \in 1..6, NEW k \in DOMAIN Stages[p],
               Moves(p, k, n, i), Stages[p][k] = Stages'[n][i],
               NEW q \in 1..6, NEW h \in DOMAIN Stages[q],
               Moves(q, h, m, j), Stages[q][h] = Stages'[m][j]
        PROVE  n = m /\ i = j
    <3>1. Valid(Stages[p][k]) /\ Stages[p][k].id = Stages[q][h].id BY <1>17, <2>4
    <3>0. Apart BY DEF IInv
    <3>2. p = q /\ k = h BY ONLY <2>4, <3>0, <3>1 DEF Apart
    <3> QED BY <1>1, <2>4, <3>2, MovesOnce DEF IInv
  <2>5. ASSUME NEW p \in 1..6, NEW k \in DOMAIN Stages[p], Stages[p][k] = Stages'[n][i],
               Enters(m, j, group), Stages'[m][j] = group[j]
        PROVE  FALSE
    <3>1. Stages[p][k].id <= fresh /\ Stages[p][k].id \in Int BY <1>17, <2>3, <2>5
    <3>2. j \in 1..c /\ group[j].id = fresh + j BY <1>2, <1>5, <2>5 DEF Enters
    <3> QED BY <1>3, <1>17, <2>5, <3>1, <3>2
  <2>6. ASSUME NEW p \in 1..6, NEW k \in DOMAIN Stages[p], Stages[p][k] = Stages'[m][j],
               Enters(n, i, group), Stages'[n][i] = group[i]
        PROVE  FALSE
    <3>1. Stages[p][k].id <= fresh /\ Stages[p][k].id \in Int BY <2>1, <2>3, <2>6
    <3>2. i \in 1..c /\ group[i].id = fresh + i BY <1>2, <1>5, <2>6 DEF Enters
    <3> QED BY <1>3, <1>17, <2>6, <3>1, <3>2
  <2>7. ASSUME Enters(n, i, group), Stages'[n][i] = group[i],
               Enters(m, j, group), Stages'[m][j] = group[j]
        PROVE  n = m /\ i = j
    <3>1. i \in 1..c /\ j \in 1..c /\ n = m BY <1>2, <2>7 DEF Enters
    <3>2. fresh + i = fresh + j BY <1>5, <1>17, <2>7, <3>1
    <3> QED BY <1>3, <3>1, <3>2
  <2> QED BY <2>2, <2>4, <2>5, <2>6, <2>7 DEF From
<1>18. Apart' BY <1>17 DEF Apart, Valid
<1> QED BY <1>16, <1>18

-----------------------------------------------------------------------------
(* What is complete, and the values.                                         *)

\* Two parts of OperandsArrive: what the pipes and the register file hold.
PipesExact == \A p \in Pipe : Valid(ex[p]) => ex_data[p] = ex[p].src
RegsExact == \A u \in live : u.id \in done => prf[u.id] = u.id

\* The property in its parts.
LEMMA OperandsAre == OperandsArrive <=> PipesExact /\ RegsExact
BY DEF OperandsArrive, PipesExact, RegsExact

\* What is read is the value of the micro-op that is asked for.
LEMMA ReadIs ==
  ASSUME IInv, NEW r, r = 0 \/ (r \in Ids(live) /\ r \in done)
  PROVE  ReadPrf(r) = r
<1>1. CASE r = 0 BY <1>1 DEF ReadPrf
<1>2. CASE r # 0 /\ r \in Ids(wb_uops) BY <1>2 DEF ReadPrf
<1>3. CASE r # 0 /\ r \notin Ids(wb_uops)
  <2>1. RegsExact BY OperandsAre DEF IInv
  <2>2. PICK u \in live : r = u.id BY <1>3 DEF Ids
  <2>3. prf[r] = r BY <1>3, <2>1, <2>2 DEF RegsExact
  <2> QED BY <1>3, <2>3 DEF ReadPrf
<1> QED BY <1>1, <1>2, <1>3

\* The micro-ops behind the queue are of the path, and read it.
LEMMA PipeUops ==
  ASSUME IInv
  PROVE  /\ \A k \in Slot : Valid(slots[k]) => slots[k] \in live
                                               /\ (slots[k].src = 0 \/ slots[k].src \in Ids(live))
         /\ \A p \in Pipe : Valid(rf[p]) => rf[p] \in live /\ (rf[p].src = 0 \/ rf[p].src \in Ids(live))
<1>1. /\ Shape(Stages) /\ Stages[3] = slots /\ Stages[4] = rf BY StagesAre DEF IInv
<1>2. /\ \A n \in 1..6 : \A u : u \in Uops(Stages[n]) <=>
                                \E i \in DOMAIN Stages[n] : u = Stages[n][i] /\ Valid(Stages[n][i])
      /\ DOMAIN Stages[3] = Slot /\ DOMAIN Stages[4] = Pipe
  BY <1>1, ShapeFacts
<1>3. \A n \in 1..6 : \A u \in Uops(Stages[n]) : u \in live /\ (u.src = 0 \/ u.src \in Ids(live))
  BY DEF IInv, PathOK
<1>4. 3 \in 1..6 /\ 4 \in 1..6 OBVIOUS
<1> QED BY <1>1, <1>2, <1>3, <1>4

\* A cycle without a flush, for the scoreboard and what is complete.
LEMMA AdvanceDone ==
  ASSUME IInv, NEW group, Dispatched(group), NEW mem_full \in BOOLEAN, Advance(group, mem_full)
  PROVE  ScoreboardExact' /\ KnownOK'
<1>1. TypeOK' /\ Executed BY AdvanceTypes
<1>2. PICK c : c = Count(group) OBVIOUS
<1>3. /\ live' = live \cup Uops(group) /\ done' = done \cup Ids(wb_uops) /\ sb' = sb_next(group)
      /\ fresh \in Nat /\ done \in SUBSET (1..fresh)
  <2>1. sb' = sb_next(group) BY QueueEdge DEF Advance, IInv
  <2>2. fresh \in Nat /\ done \in SUBSET (1..fresh) BY Sizes DEF IInv, TypeOK
  <2> QED BY <2>1, <2>2 DEF Advance
<1>4. \A u : u \in Uops(group) <=> \E i \in 1..c : u = group[i] BY <1>2, NewUops DEF IInv
<1>5. \A i \in 1..c : group[i].id = fresh + i /\ i \in 1..DISPATCH_WIDTH BY <1>2 DEF Dispatched
<1>6. c \in Nat BY <1>2, Sizes DEF Dispatched, Packed
<1>7. \A x \in Ids(wb_uops) : x \in 1..fresh BY WbAre DEF Ids
<1>8. \A x \in Ids(Uops(group)) : x \notin done
  <2> TAKE x \in Ids(Uops(group))
  <2>1. PICK i \in 1..c : x = group[i].id BY <1>4 DEF Ids
  <2> QED BY <1>3, <1>5, <1>6, <2>1
<1>9. ScoreboardExact'
  <2>1. sb = {x \in Ids(live) : x \notin done} BY DEF IInv, ScoreboardExact
  <2>2. sb' = (sb \cup Ids(Uops(group))) \ Ids(wb_uops) BY <1>3 DEF sb_next
  <2>3. Ids(live') = Ids(live) \cup Ids(Uops(group)) BY <1>3 DEF Ids
  <2>4. sb' = {x \in Ids(live') : x \notin done'} BY <1>3, <1>8, <2>1, <2>2, <2>3
  <2> QED BY <2>4 DEF ScoreboardExact, Ids
<1>10. ASSUME NEW u \in live', u.id \notin done'
       PROVE  \E n \in 1..6 : \E i \in DOMAIN Stages'[n] : Stages'[n][i] = u
  <2>1. CASE u \in live
    <3>1. u.id \notin done /\ u \notin wb_uops BY <1>3, <1>10 DEF Ids
    <3>2. PICK n \in 1..6 : \E i \in DOMAIN Stages[n] : Stages[n][i] = u
      BY <2>1, <3>1 DEF IInv, KnownOK
    <3>3. PICK i \in DOMAIN Stages[n] : Stages[n][i] = u BY <3>2
    <3>4. Valid(Stages[n][i]) BY <2>1, <3>3, UopFacts DEF IInv, TypeOK
    <3> QED BY <1>10, <3>1, <3>3, <3>4, Destinations
  <2>2. CASE u \in Uops(group)
    <3>1. PICK j \in 1..c : u = group[j] BY <1>4, <2>2
    <3>2. j \in 1..DISPATCH_WIDTH /\ ~is.stall_prev
      <4>1. is.stall_prev => c = 0
        <5>1. is.stall_prev => group = Bubble BY DEF Dispatched
        <5> QED BY <1>2, <5>1, BubbleFacts
      <4> QED BY <1>5, <1>6, <3>1, <4>1
    <3>3. Staged(is', group, iq_full_reg') BY QueueEdge DEF Advance, IInv
    <3>4. /\ Stages'[1] = is'.in /\ Stages'[2] = is'.tmp
          /\ DOMAIN Stages'[1] = 1..DISPATCH_WIDTH /\ DOMAIN Stages'[2] = 1..DISPATCH_WIDTH
      BY <1>1, NextStagesAre, ShapeFacts
    <3>5. CASE iq_full_reg'
      <4>1. 2 \in 1..6 /\ j \in DOMAIN Stages'[2] /\ Stages'[2][j] = u
        BY <3>1, <3>2, <3>3, <3>4, <3>5 DEF Staged
      <4> QED BY <4>1
    <3>6. CASE ~iq_full_reg'
      <4>1. 1 \in 1..6 /\ j \in DOMAIN Stages'[1] /\ Stages'[1][j] = u
        BY <3>1, <3>2, <3>3, <3>4, <3>6 DEF Staged
      <4> QED BY <4>1
    <3> QED BY <3>5, <3>6
  <2> QED BY <1>3, <1>10, <2>1, <2>2
<1>11. KnownOK' BY <1>10 DEF KnownOK
<1> QED BY <1>9, <1>11

\* A cycle without a flush, for the values.
LEMMA AdvanceValues ==
  ASSUME IInv, NEW group, Dispatched(group), NEW mem_full \in BOOLEAN, Advance(group, mem_full)
  PROVE  ValuesOK' /\ OperandsArrive'
<1>1. TypeOK' /\ Executed BY AdvanceTypes
<1>2. /\ live' = live \cup Uops(group) /\ done' = done \cup Ids(wb_uops)
      /\ fresh \in Nat /\ done \in SUBSET (1..fresh) /\ live \in SUBSET Uop
  BY Sizes DEF Advance, IInv, TypeOK
<1>3. \A p \in Pipe : rf'[p] = uop_out(p) /\ ex'[p] = rf[p] /\ ex_data'[p] = ReadPrf(rf[p].src)
  BY <1>1 DEF Executed
<1>4. ASSUME NEW p \in Pipe, Valid(rf'[p])
      PROVE  rf'[p].src = 0 \/ rf'[p].src \in done'
  <2>0. rf'[p] = uop_out(p) /\ Valid(uop_out(p)) BY <1>3, <1>4
  <2>1. PICK k \in Selected(p) : rf'[p] = slots[k] BY <2>0, OutFacts, UopFacts DEF IInv
  <2>2. k \in Slot /\ Ready(slots[k]) BY Selection DEF IInv
  <2>3. slots[k].src = 0 \/ slots[k].src \in Ids(live) BY <2>2, PipeUops DEF Ready
  <2>4. slots[k].src \notin sb \/ slots[k].src \in Ids(wb_uops) BY <2>2 DEF Ready
  <2>5. \A x \in Ids(live) : x \notin sb => x \in done BY DEF IInv, ScoreboardExact
  <2> QED BY <1>2, <2>1, <2>2, <2>3, <2>4, <2>5
<1>5. ValuesOK' BY <1>4 DEF ValuesOK, Valid, Pipe
<1>6. PipesExact'
  <2>1. ASSUME NEW p \in Pipe, Valid(ex'[p]) PROVE ex_data'[p] = ex'[p].src
    <3>1. rf[p].src = 0 \/ rf[p].src \in done BY <1>3, <2>1 DEF IInv, ValuesOK
    <3>2. rf[p].src = 0 \/ rf[p].src \in Ids(live) BY <1>3, <2>1, PipeUops
    <3>3. ReadPrf(rf[p].src) = rf[p].src BY <3>1, <3>2, ReadIs
    <3> QED BY <1>3, <3>3
  <2> QED BY <2>1 DEF PipesExact, Valid, Pipe
<1>7. RegsExact'
  <2>1. ASSUME NEW u \in live', u.id \in done' PROVE prf'[u.id] = u.id
    <3>1. u \in live
      <4>1. u.id \in 1..fresh
        <5>1. \A x \in Ids(wb_uops) : x \in 1..fresh BY WbAre DEF Ids
        <5> QED BY <1>2, <2>1, <5>1
      <4>2. \A v \in Uops(group) : v.id \notin 1..fresh
        <5> TAKE v \in Uops(group)
        <5>1. PICK i \in 1..Count(group) : v = group[i] BY NewUops DEF IInv
        <5>2. v.id = fresh + i /\ i >= 1 /\ i \in Int BY <5>1 DEF Dispatched
        <5> QED BY <1>2, <5>2
      <4> QED BY <1>2, <2>1, <4>1, <4>2
    <3>2. u.id \in Id BY <1>2, <3>1, UopFacts
    <3>3. prf'[u.id] = IF u.id \in Ids(wb_uops) THEN u.id ELSE prf[u.id]
      BY <1>1, <3>2 DEF Executed
    <3>4. u.id \notin Ids(wb_uops) => prf[u.id] = u.id
      <4>1. RegsExact BY OperandsAre DEF IInv
      <4> QED BY <1>2, <2>1, <3>1, <4>1 DEF RegsExact
    <3> QED BY <3>3, <3>4
  <2> QED BY <2>1 DEF RegsExact
<1>8. OperandsArrive' BY <1>6, <1>7 DEF OperandsArrive, PipesExact, RegsExact
<1> QED BY <1>5, <1>8

-----------------------------------------------------------------------------
(* A flush, and the invariant.                                               *)

\* A cycle in which a mispredicted branch retires empties everything, and what
\* is left of the path is complete.
LEMMA FlushStep ==
  ASSUME IInv, Flush
  PROVE  IInv'
<1>1. PICK b \in live, mem_full \in BOOLEAN :
        /\ \A u \in live : u.id <= b.id => u.id \in done
        /\ Queue(Bubble, mem_full, TRUE) /\ Execute(TRUE)
        /\ live' = {u \in live : u.id <= b.id}
        /\ UNCHANGED <<fresh, done>>
  BY DEF Flush
<1>2. /\ sb' = {} /\ is' = SkidReset(Bubble) /\ iq_full_reg' \in BOOLEAN
      /\ slots' = [k \in Slot |-> NoUop] /\ free_count_reg' = IQ_INT_SIZE
  BY <1>1 DEF Queue, SkidNext, iq_int_full
<1>3. /\ rf' = [p \in Pipe |-> NoUop] /\ ex' = [p \in Pipe |-> NoUop]
      /\ alu_out' = [p \in Pipe |-> NoUop] /\ ex_data' = [p \in Pipe |-> 0]
      /\ prf' = [r \in Id |-> IF r \in Ids(wb_uops) THEN r ELSE prf[r]]
  <2>1. DOMAIN rf = Pipe /\ DOMAIN ex = Pipe BY DEF IInv, TypeOK
  <2>2. rf' = [p \in Pipe |-> NoUop] BY <1>1 DEF Execute, Flushed
  <2>3. ex' = [p \in Pipe |-> NoUop] /\ alu_out' = [p \in Pipe |-> NoUop]
    BY <1>1, <2>1 DEF Execute, Flushed
  <2>4. /\ ex_data' = [p \in Pipe |-> 0]
        /\ prf' = [r \in Id |-> IF r \in Ids(wb_uops) THEN r ELSE prf[r]]
    BY <1>1 DEF Execute
  <2> QED BY <2>2, <2>3, <2>4
<1>4. /\ is'.in = Bubble /\ is'.tmp = Bubble /\ ~is'.stall_prev /\ is' \in Stage(Group)
  BY <1>2, BubbleFacts DEF SkidReset, Stage
<1>5. /\ fresh' \in 0..MAX_UOP /\ live' \in SUBSET Uop /\ done' \in SUBSET (1..fresh')
      /\ prf' = [r \in Id |-> prf'[r]] /\ ex_data' = [p \in Pipe |-> ex_data'[p]]
  BY <1>1, <1>3 DEF IInv, TypeOK
<1>6. /\ slots' \in [Slot -> AnyUop] /\ free_count_reg' \in 0..IQ_INT_SIZE
      /\ rf' \in [Pipe -> AnyUop] /\ ex' \in [Pipe -> AnyUop] /\ alu_out' \in [Pipe -> AnyUop]
  <2>1. IQ_INT_SIZE \in 0..IQ_INT_SIZE BY Sizes
  <2>2. NoUop \in AnyUop BY UopFacts
  <2> QED BY ONLY <1>2, <1>3, <2>1, <2>2
<1>7. TypeOK'
  BY <1>2, <1>4, <1>5, <1>6 DEF TypeOK, Group, Slot, Pipe, AnyUop, Uop, NoUop, Id
<1>8. ASSUME NEW n \in 1..6, NEW i \in DOMAIN Stages'[n] PROVE Stages'[n][i] = NoUop
  <2>1. /\ Stages'[1] = Bubble /\ Stages'[2] = Bubble /\ Stages'[3] = slots' /\ Stages'[4] = rf'
        /\ Stages'[5] = ex' /\ Stages'[6] = alu_out'
    BY <1>4, <1>7, NextStagesAre
  <2>2. \A j \in DOMAIN Bubble : Bubble[j] = NoUop BY DEF Bubble
  <2>3. CASE n \in {1, 2} BY <2>1, <2>2, <2>3
  <2>4. CASE n = 3 BY <1>2, <2>1, <2>4
  <2>5. CASE n \in {4, 5} BY <1>3, <2>1, <2>5
  <2>6. CASE n = 6 BY <1>3, <2>1, <2>6
  <2> QED BY <2>3, <2>4, <2>5, <2>6
<1>9. StageOK'
  <2>1. Packed(Bubble, Count(Bubble)) /\ Uops(Bubble) = {} BY BubbleFacts
  <2>2. Packed(is.in, Count(is.in))' /\ Packed(is.tmp, Count(is.tmp))'
    BY <1>4, <2>1 DEF Packed, Count, Uops, Valid
  <2> QED BY <1>4, <2>1, <2>2 DEF StageOK, Uops, Bubble, NoUop
<1>10. SlotsOK'
  <2>1. \A k \in Slot : ~Valid(slots'[k]) BY <1>2, UopFacts
  <2>2. Free' = Slot BY <2>1 DEF Free, Slot, Valid
  <2>3. Cardinality(Slot) = IQ_INT_SIZE BY Selection DEF IInv
  <2> QED BY <1>2, <2>2, <2>3 DEF SlotsOK
<1>11. Apart' BY <1>8, UopFacts DEF Apart, Valid
<1>12. \A n \in 1..6 : Uops(Stages[n])' = {}
  <2>1. \A n \in 1..6 : Uops(Stages'[n]) = {} BY <1>8 DEF Uops
  <2> QED BY <2>1 DEF Uops, NoUop
<1>13. PathOK'
  <2>1. \A u \in live : u.id <= fresh BY DEF IInv, PathOK
  <2>2. \A u, v \in live : u.id = v.id => u = v BY DEF IInv, PathOK
  <2> QED BY <1>1, <1>12, <2>1, <2>2 DEF PathOK
<1>14. \A u \in live' : u.id \in done' BY <1>1
<1>15. KnownOK' BY <1>14 DEF KnownOK
<1>16. \A p \in Pipe : ~Valid(rf'[p]) /\ ~Valid(ex'[p]) BY <1>3, UopFacts
<1>17. ValuesOK' BY <1>16 DEF ValuesOK, Valid, Pipe
<1>18. ScoreboardExact' BY <1>2, <1>14 DEF ScoreboardExact, Ids
<1>19. PipesExact' BY <1>16 DEF PipesExact, Valid, Pipe
<1>20. RegsExact'
  <2>1. ASSUME NEW u \in live', u.id \in done' PROVE prf'[u.id] = u.id
    <3>1. u \in live /\ u.id \in done BY <1>1, <2>1
    <3>2. u.id \in Id BY <3>1, UopFacts DEF IInv, TypeOK
    <3>3. prf[u.id] = u.id BY <3>1, OperandsAre DEF IInv, RegsExact
    <3> QED BY <1>3, <3>2, <3>3
  <2> QED BY <2>1 DEF RegsExact
<1>21. OperandsArrive' BY <1>19, <1>20 DEF OperandsArrive, PipesExact, RegsExact
<1> QED BY <1>7, <1>9, <1>10, <1>11, <1>13, <1>15, <1>17, <1>18, <1>21 DEF IInv

\* The reset state.
LEMMA InitIInv == Init => IInv
<1> SUFFICES ASSUME Init PROVE IInv OBVIOUS
<1>1. /\ sb = {} /\ is = SkidReset(Bubble) /\ iq_full_reg = FALSE
      /\ slots = [k \in Slot |-> NoUop] /\ free_count_reg = IQ_INT_SIZE
      /\ rf = [p \in Pipe |-> NoUop] /\ ex = [p \in Pipe |-> NoUop] /\ ex_data = [p \in Pipe |-> 0]
      /\ alu_out = [p \in Pipe |-> NoUop]
      /\ prf = [r \in Id |-> 0]
      /\ fresh = 0 /\ live = {} /\ done = {}
  BY DEF Init
<1>2. is.in = Bubble /\ is.tmp = Bubble /\ is.stall_prev = FALSE /\ is \in Stage(Group)
  BY <1>1, BubbleFacts DEF SkidReset, Stage
<1>3. /\ slots \in [Slot -> AnyUop] /\ free_count_reg \in 0..IQ_INT_SIZE
      /\ rf \in [Pipe -> AnyUop] /\ ex \in [Pipe -> AnyUop] /\ alu_out \in [Pipe -> AnyUop]
  <2>1. IQ_INT_SIZE \in 0..IQ_INT_SIZE BY Sizes
  <2>2. NoUop \in AnyUop BY UopFacts
  <2> QED BY ONLY <1>1, <2>1, <2>2
<1>4. fresh \in 0..MAX_UOP BY <1>1, Sizes
<1>5. TypeOK BY <1>1, <1>2, <1>3, <1>4 DEF TypeOK
<1>6. \A n \in 1..6 : \A i \in DOMAIN Stages[n] : Stages[n][i] = NoUop
  <2> TAKE n \in 1..6
  <2> TAKE i \in DOMAIN Stages[n]
  <2>1. /\ Stages[1] = Bubble /\ Stages[2] = Bubble /\ Stages[3] = slots /\ Stages[4] = rf
        /\ Stages[5] = ex /\ Stages[6] = alu_out
    BY <1>2, <1>5, StagesAre
  <2>2. \A j \in DOMAIN Bubble : Bubble[j] = NoUop BY DEF Bubble
  <2>3. CASE n \in {1, 2} BY <2>1, <2>2, <2>3
  <2>4. CASE n = 3 BY <1>1, <2>1, <2>4
  <2>5. CASE n \in {4, 5} BY <1>1, <2>1, <2>5
  <2>6. CASE n = 6 BY <1>1, <2>1, <2>6
  <2> QED BY <2>3, <2>4, <2>5, <2>6
<1>7. StageOK
  <2>1. Packed(Bubble, Count(Bubble)) /\ Uops(Bubble) = {} BY BubbleFacts
  <2> QED BY <1>2, <2>1 DEF StageOK
<1>8. SlotsOK
  <2>1. Free = Slot BY <1>1, UopFacts DEF Free
  <2>2. Cardinality(Slot) = IQ_INT_SIZE BY <1>5, Selection
  <2> QED BY <1>1, <2>1, <2>2 DEF SlotsOK
<1>9. Apart BY <1>6, UopFacts DEF Apart
<1>10. \A n \in 1..6 : Uops(Stages[n]) = {} BY <1>6 DEF Uops
<1>11. PathOK BY <1>1, <1>10 DEF PathOK
<1>12. KnownOK BY <1>1 DEF KnownOK
<1>13. ValuesOK BY <1>1, UopFacts DEF ValuesOK
<1>14. ScoreboardExact BY <1>1 DEF ScoreboardExact, Ids
<1>15. OperandsArrive
  <2>1. \A p \in Pipe : ~Valid(ex[p]) BY <1>1, UopFacts
  <2> QED BY <1>1, <2>1, OperandsAre DEF PipesExact, RegsExact
<1> QED BY <1>5, <1>7, <1>8, <1>9, <1>11, <1>12, <1>13, <1>14, <1>15 DEF IInv

\* Nothing changes.
LEMMA StutterIInv ==
  ASSUME IInv, UNCHANGED vars
  PROVE  IInv'
<1>1. UNCHANGED <<is, iq_full_reg, slots, free_count_reg, rf, ex, ex_data, alu_out,
                  prf, fresh, live, done, sb>>
  BY DEF vars, iqVars, exVars
<1>2. TypeOK' BY <1>1 DEF IInv, TypeOK
<1>3. StageOK' BY <1>1 DEF IInv, StageOK, Packed, Count
<1>4. SlotsOK' BY <1>1 DEF IInv, SlotsOK, Free
<1>5. Stages' = Stages BY <1>1 DEF Stages
<1>6. Apart' BY <1>5 DEF IInv, Apart
<1>7. PathOK' BY <1>1, <1>5 DEF IInv, PathOK
<1>8. KnownOK' BY <1>1, <1>5 DEF IInv, KnownOK
<1>9. ValuesOK' BY <1>1 DEF IInv, ValuesOK
<1>10. ScoreboardExact' BY <1>1 DEF IInv, ScoreboardExact
<1>11. OperandsArrive' BY <1>1 DEF IInv, OperandsArrive
<1> QED BY <1>2, <1>3, <1>4, <1>6, <1>7, <1>8, <1>9, <1>10, <1>11 DEF IInv

\* Every step keeps the invariant.
LEMMA NextIInv ==
  ASSUME IInv, [Next]_vars
  PROVE  IInv'
<1>1. ASSUME NEW group \in Groups, NEW mem_full \in BOOLEAN, Advance(group, mem_full) PROVE IInv'
  <2>1. Dispatched(group) BY GroupsAre DEF IInv
  <2>2. TypeOK' BY <1>1, <2>1, AdvanceTypes
  <2>3. StageOK' /\ SlotsOK' BY <1>1, <2>1, QueueEdge DEF Advance, IInv
  <2>4. PathOK' /\ Apart' BY <1>1, <2>1, AdvancePath
  <2>5. ScoreboardExact' /\ KnownOK' BY <1>1, <2>1, AdvanceDone
  <2>6. ValuesOK' /\ OperandsArrive' BY <1>1, <2>1, AdvanceValues
  <2> QED BY <2>2, <2>3, <2>4, <2>5, <2>6 DEF IInv
<1>2. CASE Flush BY <1>2, FlushStep
<1>3. CASE UNCHANGED vars BY <1>3, StutterIInv
<1> QED BY <1>1, <1>2, <1>3 DEF Next

\* The inductive invariant.
THEOREM Invariance == Spec => []IInv
BY InitIInv, NextIInv, PTL DEF Spec

-----------------------------------------------------------------------------
(* What follows.                                                             *)

\* The counter of the integer queue's free slots is exact, and a group that it
\* is given always finds room and load enable, for every size and width:
\* issue_queue_int.sv's counters and full signal.
THEOREM CountsExactly == Spec => []QueueExact
<1>1. IInv => QueueExact
  <2> SUFFICES ASSUME IInv PROVE QueueExact OBVIOUS
  <2>1. Count(is.in) <= Cardinality(Free) BY Loading DEF IInv
  <2> QED BY <2>1 DEF IInv, SlotsOK, StageOK, QueueExact, Count
<1> QED BY <1>1, Invariance, PTL

\* A register is busy exactly from its dispatch to its write back:
\* scoreboard_int.sv's set, clear and flush.
THEOREM BusyExactly == Spec => []ScoreboardExact
<1>1. IInv => ScoreboardExact BY DEF IInv
<1> QED BY <1>1, Invariance, PTL

\* A micro-op that its pipe executes has its operands, read from the register
\* file or bypassed, for every schedule: core.sv's order of wake-up, register
\* read and write back.
THEOREM OperandsInTime == Spec => []OperandsArrive
<1>1. IInv => OperandsArrive BY DEF IInv
<1> QED BY <1>1, Invariance, PTL

\* A micro-op of the path that is not complete is in one place.
LEMMA InOnePlace ==
  ASSUME IInv, NEW u \in live, u.id \notin done
  PROVE  Cardinality(Places(u)) = 1
<1>1. PICK n \in 1..6 : \E i \in DOMAIN Stages[n] : Stages[n][i] = u BY DEF IInv, KnownOK
<1>2. PICK i \in DOMAIN Stages[n] : Stages[n][i] = u BY <1>1
<1>3. Valid(u) BY UopFacts DEF IInv, TypeOK
<1>4. DOMAIN Stages = 1..6 BY StagesAre DEF IInv, Shape
<1>5. ASSUME NEW x \in Places(u) PROVE x = <<n, i>>
  <2>1. PICK m \in DOMAIN Stages :
          x \in {m} \X {j \in DOMAIN Stages[m] : Stages[m][j] = u}
    BY DEF Places
  <2>2. PICK j \in DOMAIN Stages[m] : x = <<m, j>> /\ Stages[m][j] = u BY <2>1
  <2>3. m = n /\ j = i BY <1>2, <1>3, <1>4, <2>2 DEF IInv, Apart
  <2> QED BY <2>2, <2>3
<1>6. <<n, i>> \in Places(u)
  <2>1. <<n, i>> \in {n} \X {j \in DOMAIN Stages[n] : Stages[n][j] = u} BY <1>2
  <2> QED BY <1>4, <2>1 DEF Places
<1>7. Places(u) = {<<n, i>>} BY <1>5, <1>6
<1> QED BY <1>7, FS_Singleton

\* No micro-op is lost, doubled or left behind by a flush, from dispatch to
\* write back, whatever issues, stalls and arrives.
THEOREM EachOnce == Spec => []NoneLostOrDoubled
<1>1. IInv => NoneLostOrDoubled
  <2> SUFFICES ASSUME IInv PROVE NoneLostOrDoubled OBVIOUS
  <2>1. DOMAIN Stages = 1..6 BY StagesAre DEF IInv, Shape
  <2>2. \A n \in DOMAIN Stages : Uops(Stages[n]) \subseteq live BY <2>1 DEF IInv, PathOK
  <2> QED BY <2>2, InOnePlace DEF NoneLostOrDoubled
<1> QED BY <1>1, Invariance, PTL

=============================================================================
