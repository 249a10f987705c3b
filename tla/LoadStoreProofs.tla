-------------------------- MODULE LoadStoreProofs ---------------------------
(* Loads and stores, for every size, every width and every program: the      *)
(* queue stays packed and in program order, what enters it executes once,    *)
(* and the harness's buffer, its memory and what loads get are exact.        *)
EXTENDS LoadStore, FiniteSetTheorems, SequenceTheorems, WellFoundedInduction, TLAPS

AnyUop == Uop \cup {NoUop}
Group == [1..DISPATCH_WIDTH -> AnyUop]
Count(g) == Cardinality(Uops(g))

TypeOK ==
  /\ is \in Stage(Group) /\ iq_full_reg \in BOOLEAN
  /\ slots \in [Slot -> AnyUop] /\ tail_reg \in 0..IQ_MEM_SIZE
  /\ rf \in AnyUop /\ ex \in AnyUop /\ pipe \in AnyUop /\ cm \in AnyUop
  /\ fresh \in 0..MAX_UOP /\ path \in Seq(Uop) /\ retired \in 0..Len(path)

\* The first n of a group are micro-ops, in program order.
Packed(g, n) ==
  /\ n \in 0..DISPATCH_WIDTH
  /\ \A i \in 1..DISPATCH_WIDTH : Valid(g[i]) <=> i <= n
  /\ \A i, j \in 1..n : i < j => g[i].id < g[j].id

\* The stage in front of the queue holds one group at most, and presents it
\* only when the queue loads and has room for the largest one.
Behind == IF is.stall_prev THEN is.tmp ELSE is.in
StageOK ==
  /\ Packed(is.in, Count(is.in)) /\ Packed(is.tmp, Count(is.tmp))
  /\ IF is.stall_prev THEN is.in = Bubble ELSE is.tmp = Bubble
  /\ Uops(is.in) # {} => ~iq_full_reg /\ tail_reg + DISPATCH_WIDTH <= IQ_MEM_SIZE

\* The queue is packed and in program order, and older than what is behind it.
SlotsOK ==
  /\ free_count_reg = IQ_MEM_SIZE - tail_reg
  /\ \A k \in Slot : Valid(slots[k]) <=> k < tail_reg
  /\ \A j, k \in 0..(tail_reg - 1) : j < k => slots[j].id < slots[k].id
  /\ \A k \in 0..(tail_reg - 1), i \in 1..Count(Behind) : slots[k].id < Behind[i].id

Waiting == Uops(slots) \cup Uops(is.in) \cup Uops(is.tmp)
Issuing == {rf, ex, pipe, cm} \ {NoUop}
Current == {path[k] : k \in DOMAIN path}

\* The micro-op of a register, if there is one.
In(r) == {r} \ {NoUop}

\* Of a micro-op of S and one of T, of which one is a store, the first is older.
Older(S, T) == \A u \in S, v \in T : u.st \/ v.st => u.id < v.id

\* No micro-op is in two registers of the pipe, or in one and in the queue.
Apart ==
  /\ Valid(rf) => rf.id \notin {ex.id, pipe.id, cm.id}
  /\ Valid(ex) => ex.id \notin {pipe.id, cm.id}
  /\ Valid(pipe) => pipe.id # cm.id
  /\ \A u \in Waiting, v \in Issuing : u.id # v.id

\* What is under way is of the current path, and what of this is not under
\* way is complete.
PathOK ==
  /\ \A j, k \in 1..Len(path) : j < k => path[j].id < path[k].id
  /\ \A k \in 1..Len(path) : path[k].id <= fresh
  /\ \A k \in 1..retired : path[k].id \in done
  /\ Waiting \cup Issuing \subseteq Current
  /\ \A u \in Current : u.id \notin done => u \in Waiting \cup Issuing

IInv == TypeOK /\ StageOK /\ SlotsOK /\ Apart /\ PathOK

-----------------------------------------------------------------------------
(* Groups.                                                                   *)

\* The sizes are numbers.
LEMMA Sizes ==
  /\ DISPATCH_WIDTH \in Nat \ {0} /\ IQ_MEM_SIZE \in Nat \ {0} /\ COMMIT_WIDTH \in Nat
  /\ MAX_UOP \in Nat /\ Slot = 0..(IQ_MEM_SIZE - 1)
BY LoadStoreAssumption DEF Slot

\* A micro-op has a number, a bubble has none.
LEMMA UopFacts ==
  /\ NoUop \in AnyUop /\ ~Valid(NoUop) /\ NoUop.id = 0
  /\ \A u \in Uop : u \in AnyUop /\ u.id \in 1..MAX_UOP /\ Valid(u) /\ u # NoUop
  /\ \A u \in AnyUop : /\ u.id \in 0..MAX_UOP /\ u.id \in Int
                       /\ Valid(u) <=> u \in Uop
                       /\ Valid(u) <=> u # NoUop
<1>1. NoUop \in AnyUop /\ ~Valid(NoUop) /\ NoUop.id = 0 BY DEF AnyUop, NoUop, Valid
<1>2. ASSUME NEW u \in Uop PROVE u.id \in 1..MAX_UOP
  BY <1>2 DEF Uop
<1>3. \A u \in Uop : u \in AnyUop /\ u.id \in 1..MAX_UOP /\ Valid(u) /\ u # NoUop
  BY <1>1, <1>2, Sizes DEF AnyUop, Valid
<1>4. ASSUME NEW u \in AnyUop
      PROVE  u.id \in 0..MAX_UOP /\ u.id \in Int /\ (Valid(u) <=> u \in Uop) /\ (Valid(u) <=> u # NoUop)
  <2>1. CASE u \in Uop BY <1>1, <1>3, <2>1, Sizes
  <2>2. CASE u = NoUop BY <1>1, <1>3, <2>2, Sizes
  <2> QED BY <2>1, <2>2 DEF AnyUop
<1> QED BY <1>1, <1>3, <1>4

\* What a group or a queue holds, by place.
LEMMA UopsOf ==
  ASSUME NEW S, NEW f \in [S -> AnyUop]
  PROVE  \A u : u \in Uops(f) <=> \E k \in S : u = f[k] /\ Valid(f[k])
<1>1. \A k \in S : f[k] \in AnyUop OBVIOUS
<1> QED BY <1>1, UopFacts DEF Uops

\* The number of micro-ops in a packed group.
LEMMA CountIs ==
  ASSUME NEW g \in Group, NEW n \in 0..DISPATCH_WIDTH, Packed(g, n)
  PROVE  Count(g) = n
<1>0. n \in Nat /\ \A i \in 1..n : i \in 1..DISPATCH_WIDTH BY Sizes
<1>1. \A u : u \in Uops(g) <=> \E i \in 1..DISPATCH_WIDTH : u = g[i] /\ Valid(g[i]) BY UopsOf DEF Group
<1>2. \A i \in 1..n : g[i] \in AnyUop /\ g[i].id \in Int BY <1>0, UopFacts DEF Group
<1>3. PICK f : f = [i \in 1..n |-> g[i]] OBVIOUS
<1>4. f \in [1..n -> Uops(g)]
  <2>1. \A i \in 1..n : g[i] \in Uops(g) BY <1>0, <1>1 DEF Packed
  <2> QED BY <1>3, <2>1
<1>5. \A i, j \in 1..n : f[i] = f[j] => i = j
  <2> SUFFICES ASSUME NEW i \in 1..n, NEW j \in 1..n, f[i] = f[j], i # j PROVE FALSE OBVIOUS
  <2>1. g[i].id = g[j].id /\ g[i].id \in Int BY <1>2, <1>3
  <2>2. i < j \/ j < i OBVIOUS
  <2> QED BY <2>1, <2>2 DEF Packed
<1>6. \A u \in Uops(g) : \E i \in 1..n : f[i] = u
  <2> TAKE u \in Uops(g)
  <2>1. PICK i \in 1..DISPATCH_WIDTH : u = g[i] /\ Valid(g[i]) BY <1>1
  <2>2. i \in 1..n BY <1>0, <2>1 DEF Packed
  <2> QED BY <1>3, <2>1, <2>2
<1>7. f \in Bijection(1..n, Uops(g))
  BY <1>4, <1>5, <1>6 DEF Bijection, Injection, Surjection, IsInjective
<1>8. ExistsBijection(1..n, Uops(g)) BY <1>7 DEF ExistsBijection
<1> QED BY <1>0, <1>8, FS_CountingElements DEF Count

\* The bubble is a group of none.
LEMMA BubbleFacts == Bubble \in Group /\ Packed(Bubble, 0) /\ Count(Bubble) = 0 /\ Uops(Bubble) = {}
<1>1. Bubble \in Group /\ \A i \in 1..DISPATCH_WIDTH : Bubble[i] = NoUop BY UopFacts DEF Bubble, Group
<1>2. Packed(Bubble, 0) BY <1>1, UopFacts, Sizes DEF Packed
<1>3. Count(Bubble) = 0 BY <1>1, <1>2, CountIs, Sizes
<1>4. Uops(Bubble) = {} BY <1>1 DEF Uops, Bubble
<1> QED BY <1>1, <1>2, <1>3, <1>4

\* A group with micro-ops has some, and the other way round.
LEMMA SomeUops ==
  ASSUME NEW g \in Group, Packed(g, Count(g))
  PROVE  /\ Count(g) \in 0..DISPATCH_WIDTH
         /\ Uops(g) # {} <=> Count(g) > 0
         /\ \A i \in 1..Count(g) : i \in 1..DISPATCH_WIDTH /\ g[i] \in Uop /\ g[i] \in Uops(g)
         /\ \A u \in Uops(g) : \E i \in 1..Count(g) : u = g[i]
         /\ Uops(g) \subseteq Uop
<1>0. Count(g) \in 0..DISPATCH_WIDTH BY DEF Packed
<1>1. \A u : u \in Uops(g) <=> \E i \in 1..DISPATCH_WIDTH : u = g[i] /\ Valid(g[i]) BY UopsOf DEF Group
<1>2. \A i \in 1..DISPATCH_WIDTH : Valid(g[i]) <=> i <= Count(g) BY DEF Packed
<1>3. \A i \in 1..Count(g) : i \in 1..DISPATCH_WIDTH BY <1>0, Sizes
<1>4. \A i \in 1..Count(g) : g[i] \in Uop /\ g[i] \in Uops(g)
  BY <1>1, <1>2, <1>3, <1>0, UopFacts DEF Group
<1>5. \A u \in Uops(g) : \E i \in 1..Count(g) : u = g[i]
  <2> TAKE u \in Uops(g)
  <2>1. PICK i \in 1..DISPATCH_WIDTH : u = g[i] /\ Valid(g[i]) BY <1>1
  <2>2. i \in 1..Count(g) BY <1>0, <1>2, <2>1
  <2> QED BY <2>1, <2>2
<1>6. Uops(g) # {} <=> Count(g) > 0
  <2>1. CASE Count(g) = 0 BY <1>5, <2>1
  <2>2. CASE Count(g) > 0
    <3>1. 1 \in 1..Count(g) BY <1>0, <2>2
    <3> QED BY <1>4, <2>2, <3>1
  <2> QED BY <1>0, <2>1, <2>2
<1> QED BY <1>0, <1>3, <1>4, <1>5, <1>6

-----------------------------------------------------------------------------
(* The queue.                                                                *)

\* One slot below the tail issues, or none.
Takes(sel, c) ==
  /\ c = Cardinality(sel)
  /\ (sel = {} /\ c = 0) \/ \E s \in 0..(tail_reg - 1) : sel = {s} /\ c = 1

\* The selection picks a micro-op of the queue, or none.
LEMMA SelectedIs ==
  ASSUME TypeOK, SlotsOK, NEW operands \in SUBSET Slot, NEW sel, sel = Selected(operands)
  PROVE  Takes(sel, Cardinality(sel))
<1>1. \A k \in sel : k \in Slot /\ Valid(slots[k]) /\ \A j \in sel : k <= j
  BY DEF Selected, Ready
<1>2. \A k \in sel : k \in 0..(tail_reg - 1) BY <1>1, Sizes DEF SlotsOK, TypeOK
<1>3. CASE sel = {} BY <1>3, FS_EmptySet DEF Takes
<1>4. CASE sel # {}
  <2>1. PICK s : s \in sel BY <1>4
  <2>2. \A k \in sel : k = s
    <3> TAKE k \in sel
    <3>1. k <= s /\ s <= k BY <1>1, <2>1
    <3> QED BY <1>2, <2>1, <3>1, Sizes
  <2>3. sel = {s} BY <2>1, <2>2
  <2> QED BY <1>2, <2>1, <2>3, FS_Singleton DEF Takes
<1> QED BY <1>3, <1>4

\* A number below the modulus is its own remainder.
LEMMA SmallMod == ASSUME NEW m \in Nat \ {0}, NEW x \in 0..(m - 1) PROVE x % m = x
OBVIOUS

\* The counters count without wrapping.
LEMMA Counters ==
  ASSUME TypeOK, StageOK, SlotsOK, NEW sel, NEW c, Takes(sel, c), NEW n, n = Count(is.in)
  PROVE  /\ c \in {0, 1} /\ c <= tail_reg /\ n \in 0..DISPATCH_WIDTH
         /\ tail_reg + n <= IQ_MEM_SIZE
         /\ tail(sel) = tail_reg - c + n /\ tail(sel) \in 0..IQ_MEM_SIZE
         /\ free_count(sel) = IQ_MEM_SIZE - tail(sel)
<1>0. is.in \in Group /\ tail_reg \in 0..IQ_MEM_SIZE BY DEF TypeOK, Stage
<1>1. n \in 0..DISPATCH_WIDTH /\ tail_reg + n <= IQ_MEM_SIZE
  <2>1. n \in 0..DISPATCH_WIDTH /\ (Uops(is.in) # {} <=> n > 0) BY <1>0, SomeUops DEF StageOK
  <2> QED BY <1>0, <2>1, Sizes DEF StageOK
<1>2. c \in {0, 1} /\ c <= tail_reg BY <1>0, Sizes DEF Takes
<1>3. Cardinality(sel) = c /\ Cardinality(Uops(is.in)) = n BY DEF Takes, Count
<1>4. tail_reg + n - c \in 0..(2 * IQ_MEM_SIZE - 1) BY <1>0, <1>1, <1>2, Sizes
<1>5. tail(sel) = tail_reg - c + n
  <2>1. tail(sel) = (tail_reg + n - c) % (2 * IQ_MEM_SIZE) BY <1>3 DEF tail
  <2>2. (tail_reg + n - c) % (2 * IQ_MEM_SIZE) = tail_reg + n - c
    BY <1>4, Sizes, SmallMod
  <2> QED BY <1>0, <1>1, <1>2, <2>1, <2>2
<1>6. tail(sel) \in 0..IQ_MEM_SIZE BY <1>0, <1>1, <1>2, <1>5, Sizes
<1>7. free_count(sel) = IQ_MEM_SIZE - tail(sel)
  <2>1. free_count(sel) = (IQ_MEM_SIZE - tail_reg - n + c) % (2 * IQ_MEM_SIZE)
    BY <1>3 DEF free_count, SlotsOK
  <2>2. IQ_MEM_SIZE - tail_reg - n + c \in 0..(2 * IQ_MEM_SIZE - 1) BY <1>0, <1>1, <1>2, Sizes
  <2>3. (IQ_MEM_SIZE - tail_reg - n + c) % (2 * IQ_MEM_SIZE) = IQ_MEM_SIZE - tail_reg - n + c
    BY <2>2, Sizes, SmallMod
  <2> QED BY <1>0, <1>1, <1>2, <1>5, <2>1, <2>3, Sizes
<1> QED BY <1>1, <1>2, <1>5, <1>6, <1>7

\* What the slots hold after the edge: the older ones, with a gap closed, and
\* the group behind them.
Compressed(new, sel, c, n) ==
  /\ new \in [Slot -> AnyUop]
  /\ \A k \in 0..(tail_reg - c - 1) :
       new[k] = IF \A j \in sel : k < j THEN slots[k] ELSE slots[k + 1]
  /\ \A i \in 1..n : new[tail_reg - c + i - 1] = is.in[i]
  /\ \A k \in (tail_reg - c + n)..(IQ_MEM_SIZE - 1) : new[k] = NoUop

\* One edge of the queue, slot by slot.
LEMMA SlotsNext ==
  ASSUME TypeOK, StageOK, SlotsOK, NEW sel, NEW c, Takes(sel, c), NEW n, n = Count(is.in)
  PROVE  Compressed(slots_next(sel), sel, c, n)
<1>0. /\ is.in \in Group /\ slots \in [Slot -> AnyUop] /\ tail_reg \in 0..IQ_MEM_SIZE
      /\ \A k \in Slot : Valid(slots[k]) <=> k < tail_reg
      /\ Packed(is.in, n)
  BY DEF TypeOK, Stage, StageOK, SlotsOK
<1>1. /\ c \in {0, 1} /\ c <= tail_reg /\ n \in 0..DISPATCH_WIDTH /\ tail_reg + n <= IQ_MEM_SIZE
  BY Counters
<1>2. ASSUME NEW k \in Slot
      PROVE  Loaded(k, sel) = {i \in 1..n : k = tail_reg - c + i - 1}
  <2>1. n > 0 => ~iq_full_reg
    <3>1. Uops(is.in) # {} <=> n > 0 BY <1>0, SomeUops
    <3> QED BY <3>1 DEF StageOK
  <2>2. Loaded(k, sel) =
          {i \in 1..DISPATCH_WIDTH : k = tail_reg - c + i - 1 /\ Valid(is.in[i]) /\ ~iq_full_reg}
    BY DEF Loaded, Takes
  <2>3. \A i \in 1..DISPATCH_WIDTH : Valid(is.in[i]) <=> i <= n BY <1>0 DEF Packed
  <2>4. \A i : i \in 1..n <=> i \in 1..DISPATCH_WIDTH /\ i <= n BY <1>1, Sizes
  <2>5. \A i \in 1..n : n > 0 BY <1>1
  <2> QED BY <2>1, <2>2, <2>3, <2>4, <2>5
<1>3. ASSUME NEW k \in Slot PROVE uop_new(k, sel) \in AnyUop
  BY <1>0, <1>3, UopFacts DEF uop_new
<1>4. ASSUME NEW i \in 1..n
      PROVE  tail_reg - c + i - 1 \in Slot /\ slots_next(sel)[tail_reg - c + i - 1] = is.in[i]
  <2>1. PICK k : k = tail_reg - c + i - 1 OBVIOUS
  <2>2. k \in Slot BY <1>0, <1>1, <2>1, Sizes
  <2>3. \A j \in Loaded(k, sel) : j = i BY <1>0, <1>1, <1>2, <2>1, <2>2
  <2>4. i \in Loaded(k, sel) BY <1>2, <2>1, <2>2
  <2>5. (CHOOSE j \in Loaded(k, sel) : TRUE) = i BY <2>3, <2>4
  <2> QED BY <2>1, <2>2, <2>4, <2>5 DEF slots_next
<1>5. ASSUME NEW k \in Slot, k \notin (tail_reg - c)..(tail_reg - c + n - 1)
      PROVE  slots_next(sel)[k] = uop_new(k, sel)
  <2>1. Loaded(k, sel) = {}
    <3> SUFFICES ASSUME NEW i \in Loaded(k, sel) PROVE FALSE OBVIOUS
    <3>1. i \in 1..n /\ k = tail_reg - c + i - 1 BY <1>2
    <3> QED BY <1>0, <1>1, <1>5, <3>1
  <2> QED BY <2>1 DEF slots_next
<1>6. slots_next(sel) \in [Slot -> AnyUop]
  <2>1. DOMAIN slots_next(sel) = Slot /\ slots_next(sel) = [k \in Slot |-> slots_next(sel)[k]]
    BY DEF slots_next
  <2>2. ASSUME NEW k \in Slot PROVE slots_next(sel)[k] \in AnyUop
    <3>1. CASE k \in (tail_reg - c)..(tail_reg - c + n - 1)
      <4>1. PICK i : i = k - (tail_reg - c) + 1 OBVIOUS
      <4>2. i \in 1..n /\ k = tail_reg - c + i - 1 BY <1>0, <1>1, <3>1, <4>1
      <4>3. i \in 1..DISPATCH_WIDTH BY <1>1, <4>2, Sizes
      <4> QED BY <1>0, <1>4, <4>2, <4>3 DEF Group
    <3>2. CASE k \notin (tail_reg - c)..(tail_reg - c + n - 1) BY <1>3, <1>5, <3>2
    <3> QED BY <3>1, <3>2
  <2> QED BY <2>1, <2>2
<1>7. ASSUME NEW k \in 0..(tail_reg - c - 1)
      PROVE  slots_next(sel)[k] = IF \A j \in sel : k < j THEN slots[k] ELSE slots[k + 1]
  <2>1. k \in Slot /\ k \notin (tail_reg - c)..(tail_reg - c + n - 1) BY <1>0, <1>1, Sizes
  <2>2. (\E j \in sel : ~(k < j)) => k + 1 \in Slot
    <3>1. (\E j \in sel : ~(k < j)) => c = 1 BY DEF Takes
    <3> QED BY <1>0, <1>1, <3>1, Sizes
  <2> QED BY <1>5, <2>1, <2>2 DEF uop_new
<1>8. ASSUME NEW k \in (tail_reg - c + n)..(IQ_MEM_SIZE - 1)
      PROVE  slots_next(sel)[k] = NoUop
  <2>1. k \in Slot /\ k \notin (tail_reg - c)..(tail_reg - c + n - 1) /\ k >= tail_reg - c
    BY <1>0, <1>1, Sizes
  <2>2. \A j \in Slot : j >= tail_reg => slots[j] = NoUop BY <1>0, UopFacts, Sizes
  <2>3. CASE \A j \in sel : k < j
    <3>1. sel = {}
      <4> SUFFICES ASSUME NEW s \in 0..(tail_reg - 1), sel = {s}, c = 1 PROVE FALSE BY DEF Takes
      <4>1. k < s BY <2>3
      <4> QED BY <1>0, <2>1, <4>1, Sizes
    <3>2. c = 0 BY <3>1 DEF Takes
    <3>3. slots[k] = NoUop BY <1>0, <2>1, <2>2, <3>2, Sizes
    <3> QED BY <1>5, <2>1, <2>3, <3>3 DEF uop_new
  <2>4. CASE ~\A j \in sel : k < j
    <3>1. uop_new(k, sel) = IF k + 1 \in Slot THEN slots[k + 1] ELSE NoUop BY <2>4 DEF uop_new
    <3>2. k + 1 \in Slot => slots[k + 1] = NoUop BY <1>0, <1>1, <2>1, <2>2, Sizes
    <3> QED BY <1>5, <2>1, <3>1, <3>2
  <2> QED BY <2>3, <2>4
<1> QED BY <1>4, <1>6, <1>7, <1>8 DEF Compressed

\* Where the micro-op comes from that is k-th in the queue after the edge.
Source(sel, k) == IF \A j \in sel : k < j THEN k ELSE k + 1

\* Closing the gap keeps the order and loses only what issues.
LEMMA Sources ==
  ASSUME NEW t \in Nat, NEW sel, NEW c,
         (sel = {} /\ c = 0) \/ \E s \in 0..(t - 1) : sel = {s} /\ c = 1
  PROVE  /\ \A k \in 0..(t - c - 1) : Source(sel, k) \in 0..(t - 1) /\ Source(sel, k) \notin sel
         /\ \A j, k \in 0..(t - c - 1) : j < k => Source(sel, j) < Source(sel, k)
         /\ \A o \in 0..(t - 1) : o \notin sel => \E k \in 0..(t - c - 1) : Source(sel, k) = o
<1>1. CASE sel = {} /\ c = 0
  <2>1. \A k : Source(sel, k) = k BY <1>1 DEF Source
  <2> QED BY <1>1, <2>1
<1>2. ASSUME NEW s \in 0..(t - 1), sel = {s}, c = 1
      PROVE  /\ \A k \in 0..(t - c - 1) : Source(sel, k) \in 0..(t - 1) /\ Source(sel, k) \notin sel
             /\ \A j, k \in 0..(t - c - 1) : j < k => Source(sel, j) < Source(sel, k)
             /\ \A o \in 0..(t - 1) : o \notin sel => \E k \in 0..(t - c - 1) : Source(sel, k) = o
  <2>1. \A k \in Int : Source(sel, k) = IF k < s THEN k ELSE k + 1 BY <1>2 DEF Source
  <2>2. ASSUME NEW o \in 0..(t - 1), o # s PROVE \E k \in 0..(t - c - 1) : Source(sel, k) = o
    <3>1. CASE o < s
      <4>1. o \in 0..(t - c - 1) /\ Source(sel, o) = o BY <1>2, <2>1, <3>1
      <4> QED BY <4>1
    <3>2. CASE o > s
      <4>1. o - 1 \in 0..(t - c - 1) /\ Source(sel, o - 1) = o BY <1>2, <2>1, <3>2
      <4> QED BY <4>1
    <3> QED BY <2>2, <3>1, <3>2
  <2>3. ASSUME NEW k \in 0..(t - c - 1) PROVE Source(sel, k) \in 0..(t - 1) /\ Source(sel, k) \notin sel
    <3>1. k \in 0..(t - 2) /\ s \in Int BY <1>2
    <3> QED BY <1>2, <2>1, <3>1
  <2>4. ASSUME NEW j \in 0..(t - c - 1), NEW k \in 0..(t - c - 1), j < k PROVE Source(sel, j) < Source(sel, k)
    BY <1>2, <2>1, <2>4
  <2>5. \A o \in 0..(t - 1) : o \notin sel => o # s BY <1>2
  <2> QED BY ONLY <2>2, <2>3, <2>4, <2>5
<1> QED BY <1>1, <1>2

\* What is in a queue of which t slots from the first on are taken.
LEMMA InQueue ==
  ASSUME NEW f \in [Slot -> AnyUop], NEW t \in 0..IQ_MEM_SIZE,
         \A k \in Slot : Valid(f[k]) <=> k < t
  PROVE  \A u : u \in Uops(f) <=> \E k \in 0..(t - 1) : u = f[k]
<1>1. \A u : u \in Uops(f) <=> \E k \in Slot : u = f[k] /\ Valid(f[k]) BY UopsOf
<1>2. \A k : k \in 0..(t - 1) <=> k \in Slot /\ k < t BY Sizes
<1> QED BY <1>1, <1>2

\* What a micro-op in the slots has to do with what it meets there.
LEMMA InSlots ==
  ASSUME TypeOK, SlotsOK
  PROVE  /\ \A k \in 0..(tail_reg - 1) : k \in Slot /\ slots[k] \in Uop /\ slots[k].id \in Int
         /\ \A u : u \in Uops(slots) <=> \E k \in 0..(tail_reg - 1) : u = slots[k]
<1>1. \A k : k \in 0..(tail_reg - 1) => k \in Slot /\ k < tail_reg BY Sizes DEF TypeOK
<1>2. \A k \in 0..(tail_reg - 1) : slots[k] \in AnyUop /\ Valid(slots[k]) BY <1>1 DEF TypeOK, SlotsOK
<1> QED BY <1>1, <1>2, UopFacts, InQueue DEF TypeOK, SlotsOK

\* The micro-op that issues, if any, is the one selected.
LEMMA IssuesIs ==
  ASSUME TypeOK, SlotsOK, NEW sel, NEW c, Takes(sel, c)
  PROVE  /\ uop_out(sel) \in AnyUop
         /\ sel = {} => uop_out(sel) = NoUop
         /\ \A s \in sel : s \in 0..(tail_reg - 1) /\ uop_out(sel) = slots[s]
<1>1. CASE sel = {} BY <1>1, UopFacts DEF uop_out
<1>2. ASSUME NEW s \in 0..(tail_reg - 1), sel = {s}
      PROVE  uop_out(sel) = slots[s] /\ slots[s] \in AnyUop
  <2>1. (CHOOSE k \in sel : TRUE) = s BY <1>2
  <2>2. uop_out(sel) = slots[s] BY <1>2, <2>1 DEF uop_out
  <2> QED BY <2>2, InSlots, UopFacts
<1> QED BY <1>1, <1>2 DEF Takes

\* The queue after the edge, as a queue.
LEMMA SlotsHold ==
  ASSUME TypeOK, StageOK, SlotsOK, NEW sel, NEW c, Takes(sel, c), NEW n, n = Count(is.in),
         NEW new, Compressed(new, sel, c, n), NEW t, t = tail_reg - c + n
  PROVE  /\ t \in 0..IQ_MEM_SIZE
         /\ \A k \in Slot : Valid(new[k]) <=> k < t
         /\ \A j, k \in 0..(t - 1) : j < k => new[j].id < new[k].id
         /\ Uops(new) = (Uops(slots) \ {uop_out(sel)}) \cup Uops(is.in)
<1>0. /\ is.in \in Group /\ slots \in [Slot -> AnyUop] /\ tail_reg \in 0..IQ_MEM_SIZE /\ tail_reg \in Nat
      /\ Packed(is.in, n)
  BY Sizes DEF TypeOK, Stage, StageOK
<1>1. /\ c \in {0, 1} /\ c <= tail_reg /\ n \in 0..DISPATCH_WIDTH /\ tail_reg + n <= IQ_MEM_SIZE
      /\ t \in 0..IQ_MEM_SIZE
  <2>1. c \in {0, 1} /\ c <= tail_reg /\ n \in 0..DISPATCH_WIDTH /\ tail_reg + n <= IQ_MEM_SIZE BY Counters
  <2> QED BY <1>0, <2>1, Sizes
<1>2. PICK m : m = tail_reg - c OBVIOUS
<1>3. m \in 0..tail_reg /\ t = m + n BY <1>0, <1>1, <1>2
<1>4. /\ \A k \in 0..(m - 1) : Source(sel, k) \in 0..(tail_reg - 1) /\ Source(sel, k) \notin sel
      /\ \A j, k \in 0..(m - 1) : j < k => Source(sel, j) < Source(sel, k)
      /\ \A o \in 0..(tail_reg - 1) : o \notin sel => \E k \in 0..(m - 1) : Source(sel, k) = o
  <2>1. (sel = {} /\ c = 0) \/ \E s \in 0..(tail_reg - 1) : sel = {s} /\ c = 1 BY DEF Takes
  <2> QED BY ONLY <1>0, <1>2, <2>1, Sources
<1>5. /\ \A k \in 0..(m - 1) : new[k] = slots[Source(sel, k)]
      /\ \A i \in 1..n : new[m + i - 1] = is.in[i]
      /\ \A k \in t..(IQ_MEM_SIZE - 1) : new[k] = NoUop
      /\ new \in [Slot -> AnyUop]
  <2>1. \A k \in 0..(m - 1) : new[k] = slots[Source(sel, k)]
    BY <1>2 DEF Compressed, Source
  <2>2. \A i \in 1..n : new[m + i - 1] = is.in[i] BY <1>2 DEF Compressed
  <2> QED BY <2>1, <2>2 DEF Compressed
<1>6. /\ \A k \in 0..(tail_reg - 1) : slots[k] \in Uop /\ slots[k].id \in Int
      /\ \A u : u \in Uops(slots) <=> \E k \in 0..(tail_reg - 1) : u = slots[k]
  BY InSlots
<1>7. /\ \A i \in 1..n : is.in[i] \in Uop /\ is.in[i] \in Uops(is.in) /\ is.in[i].id \in Int
      /\ \A u \in Uops(is.in) : \E i \in 1..n : u = is.in[i]
      /\ n > 0 => Behind = is.in
  <2>1. Uops(is.in) # {} <=> n > 0 BY <1>0, SomeUops
  <2>2. n > 0 => ~is.stall_prev BY <2>1, BubbleFacts DEF StageOK
  <2> QED BY <1>0, <2>2, SomeUops, UopFacts DEF Behind
<1>8. \A k \in m..(t - 1) : \E i \in 1..n : k = m + i - 1 /\ new[k] = is.in[i]
  <2> TAKE k \in m..(t - 1)
  <2>1. k - m + 1 \in 1..n /\ k = m + (k - m + 1) - 1 BY <1>1, <1>3
  <2> QED BY <1>5, <2>1
<1>9. \A k \in 0..(t - 1) : k \in 0..(m - 1) \/ k \in m..(t - 1) BY <1>1, <1>3
<1>10. \A k \in 0..(t - 1) : Valid(new[k]) /\ new[k] \in Uop
  BY <1>4, <1>5, <1>6, <1>7, <1>8, <1>9, UopFacts
<1>11. \A k \in Slot : Valid(new[k]) <=> k < t
  <2> TAKE k \in Slot
  <2>1. k \in 0..(t - 1) \/ (k \in t..(IQ_MEM_SIZE - 1) /\ ~(k < t)) BY <1>1, Sizes
  <2>2. k \in 0..(t - 1) => k < t BY <1>1
  <2> QED BY <1>5, <1>10, <2>1, <2>2, UopFacts
<1>12. ASSUME NEW j \in 0..(t - 1), NEW k \in 0..(t - 1), j < k PROVE new[j].id < new[k].id
  <2>1. CASE j \in 0..(m - 1) /\ k \in 0..(m - 1)
    <3>1. Source(sel, j) < Source(sel, k) BY <1>4, <1>12, <2>1
    <3> QED BY <1>4, <1>5, <2>1, <3>1 DEF SlotsOK
  <2>2. CASE j \in 0..(m - 1) /\ k \in m..(t - 1)
    <3>1. PICK i \in 1..n : new[k] = is.in[i] BY <1>8, <2>2
    <3>2. Behind = is.in BY <1>1, <1>7
    <3>3. \A o \in 0..(tail_reg - 1) : slots[o].id < is.in[i].id BY <3>2 DEF SlotsOK
    <3> QED BY <1>4, <1>5, <2>2, <3>1, <3>3
  <2>3. CASE j \in m..(t - 1) /\ k \in m..(t - 1)
    <3>1. PICK a \in 1..n : j = m + a - 1 /\ new[j] = is.in[a] BY <1>8, <2>3
    <3>2. PICK b \in 1..n : k = m + b - 1 /\ new[k] = is.in[b] BY <1>8, <2>3
    <3>3. a < b BY <1>1, <1>3, <1>12, <3>1, <3>2
    <3> QED BY <1>0, <3>1, <3>2, <3>3 DEF Packed
  <2>4. ~(j \in m..(t - 1) /\ k \in 0..(m - 1)) BY <1>1, <1>3, <1>12
  <2> QED BY <1>9, <2>1, <2>2, <2>3, <2>4
<1>13. Uops(new) = (Uops(slots) \ {uop_out(sel)}) \cup Uops(is.in)
  <2>1. \A u : u \in Uops(new) <=> \E k \in 0..(t - 1) : u = new[k] BY <1>1, <1>5, <1>11, InQueue
  <2>2. ASSUME NEW u \in Uops(new) PROVE u \in (Uops(slots) \ {uop_out(sel)}) \cup Uops(is.in)
    <3>1. PICK k \in 0..(t - 1) : u = new[k] BY <2>1
    <3>2. CASE k \in 0..(m - 1)
      <4>1. PICK o \in 0..(tail_reg - 1) : o \notin sel /\ u = slots[o] BY <1>4, <1>5, <3>1, <3>2
      <4>2. u # uop_out(sel)
        <5>1. CASE sel = {} BY <1>6, <4>1, <5>1, IssuesIs, UopFacts
        <5>2. ASSUME NEW s \in sel PROVE u # uop_out(sel)
          <6>1. s \in 0..(tail_reg - 1) /\ uop_out(sel) = slots[s] /\ s # o BY <4>1, IssuesIs
          <6>2. s < o \/ o < s BY <1>0, <6>1
          <6>3. slots[s].id < slots[o].id \/ slots[o].id < slots[s].id BY <6>1, <6>2 DEF SlotsOK
          <6>4. slots[s].id \in Int /\ slots[o].id \in Int BY <1>6, <6>1
          <6> QED BY <4>1, <6>1, <6>3, <6>4
        <5> QED BY <5>1, <5>2
      <4> QED BY <1>6, <4>1, <4>2
    <3>3. CASE k \in m..(t - 1) BY <1>7, <1>8, <3>1, <3>3
    <3> QED BY <1>9, <3>2, <3>3
  <2>3. ASSUME NEW u \in Uops(slots), u # uop_out(sel) PROVE u \in Uops(new)
    <3>1. PICK o \in 0..(tail_reg - 1) : u = slots[o] BY <1>6
    <3>2. o \notin sel BY <2>3, <3>1, IssuesIs
    <3>3. PICK k \in 0..(m - 1) : Source(sel, k) = o BY <1>4, <3>2
    <3>4. k \in 0..(t - 1) BY <1>1, <1>3
    <3> QED BY <1>5, <2>1, <3>1, <3>3, <3>4
  <2>4. ASSUME NEW u \in Uops(is.in) PROVE u \in Uops(new)
    <3>1. PICK i \in 1..n : u = is.in[i] BY <1>7
    <3>2. m + i - 1 \in 0..(t - 1) BY <1>1, <1>3
    <3> QED BY <1>5, <2>1, <3>1, <3>2
  <2> QED BY <2>2, <2>3, <2>4
<1> QED BY <1>1, <1>11, <1>12, <1>13

\* A store issues only after what is older, and before what is younger.
LEMMA IssuesInOrder ==
  ASSUME TypeOK, SlotsOK, Uops(is.in) \cup Uops(is.tmp) = Uops(Behind),
         \A v \in Uops(Behind) : \E i \in 1..Count(Behind) : v = Behind[i],
         NEW operands \in SUBSET Slot, NEW sel, sel = Selected(operands)
  PROVE  Older(In(uop_out(sel)), Waiting \ {uop_out(sel)})
<1>1. Takes(sel, Cardinality(sel)) BY SelectedIs
<1>2. ASSUME NEW s \in 0..(tail_reg - 1), sel = {s}, NEW v \in Waiting, v # slots[s],
             slots[s].st \/ v.st
      PROVE  slots[s].id < v.id
  <2>1. s \in Slot /\ Unmasked(s) BY <1>2 DEF Selected, Ready
  <2>2. CASE v \in Uops(slots)
    <3>1. PICK k \in 0..(tail_reg - 1) : v = slots[k] /\ k \in Slot BY <2>2, InSlots
    <3>2. k # s BY <1>2, <3>1
    <3>3. ~(k < s)
      <4> SUFFICES ASSUME k < s PROVE FALSE OBVIOUS
      <4>1. slots[s].st => IF s = 0 THEN s = 0 ELSE s < s BY <2>1 DEF Unmasked
      <4>2. v.st => IF k = 0 THEN s = 0 ELSE s < k BY <2>1, <3>1 DEF Unmasked
      <4> QED BY <1>2, <4>1, <4>2, Sizes DEF TypeOK
    <3>4. s < k BY <3>2, <3>3, Sizes DEF TypeOK
    <3> QED BY <3>1, <3>4 DEF SlotsOK
  <2>3. CASE v \in Uops(Behind)
    <3>1. PICK i \in 1..Count(Behind) : v = Behind[i] BY <2>3
    <3> QED BY <3>1 DEF SlotsOK
  <2> QED BY <2>2, <2>3 DEF Waiting
<1>3. CASE sel = {} BY <1>3 DEF uop_out, In, Older
<1>4. ASSUME NEW s \in 0..(tail_reg - 1), sel = {s}
      PROVE  Older(In(uop_out(sel)), Waiting \ {uop_out(sel)})
  <2>1. uop_out(sel) = slots[s] BY <1>1, <1>4, IssuesIs
  <2> QED BY <1>2, <1>4, <2>1 DEF In, Older
<1> QED BY <1>1, <1>3, <1>4 DEF Takes

-----------------------------------------------------------------------------
(* The stage in front of the queue.                                          *)

\* The stage sends or keeps the one group it has.
Staged(new, g, full) ==
  /\ new.in = IF full THEN Bubble ELSE g
  /\ new.tmp = IF full THEN g ELSE Bubble
  /\ new.stall_prev = full

\* SkidNext on a stage that is not given a group while it has one.
LEMMA StageNext ==
  ASSUME TypeOK, StageOK, NEW group \in Group, is.stall_prev => group = Bubble,
         NEW full \in BOOLEAN, NEW g, g = IF is.stall_prev THEN is.tmp ELSE group
  PROVE  /\ SkidNext(is, FALSE, full, group, Bubble) \in Stage(Group)
         /\ Staged(SkidNext(is, FALSE, full, group, Bubble), g, full)
         /\ g \in Group /\ Uops(g) = Uops(is.tmp) \cup Uops(group)
<1>1. is \in [in : Group, tmp : Group, stall_prev : BOOLEAN] BY DEF TypeOK, Stage
<1>2. is.tmp \in Group /\ Bubble \in Group /\ g \in Group BY <1>1, BubbleFacts
<1>3. IF is.stall_prev THEN is.in = Bubble ELSE is.tmp = Bubble BY DEF StageOK
<1>4. Uops(g) = Uops(is.tmp) \cup Uops(group) BY <1>3, BubbleFacts
<1>5. CASE full /\ ~is.stall_prev
  BY <1>1, <1>2, <1>4, <1>5 DEF SkidNext, Staged, Stage
<1>6. CASE ~full /\ is.stall_prev
  BY <1>1, <1>2, <1>4, <1>6 DEF SkidNext, Staged, Stage
<1>7. CASE full /\ is.stall_prev
  BY <1>1, <1>2, <1>4, <1>7 DEF SkidNext, Staged, Stage
<1>8. CASE ~full /\ ~is.stall_prev
  BY <1>1, <1>2, <1>3, <1>4, <1>8 DEF SkidNext, Staged, Stage
<1> QED BY <1>5, <1>6, <1>7, <1>8

\* What the stage holds is younger than what is in the queue.
LEMMA BehindIs ==
  ASSUME TypeOK, StageOK
  PROVE  /\ Behind \in Group /\ Packed(Behind, Count(Behind))
         /\ Uops(is.in) \cup Uops(is.tmp) = Uops(Behind)
         /\ is.in = Bubble \/ is.in = Behind
         /\ is.tmp = Bubble \/ is.tmp = Behind
BY BubbleFacts DEF TypeOK, StageOK, Stage, Behind

\* Everything that waits is a micro-op.
LEMMA WaitingFacts ==
  ASSUME TypeOK
  PROVE  \A u \in Waiting : u \in Uop /\ u.id \in Int
<1>1. /\ slots \in [Slot -> AnyUop] /\ is.in \in [1..DISPATCH_WIDTH -> AnyUop]
      /\ is.tmp \in [1..DISPATCH_WIDTH -> AnyUop]
  BY DEF TypeOK, Stage, Group
<1>2. ASSUME NEW S, NEW f \in [S -> AnyUop], NEW u \in Uops(f) PROVE u \in Uop
  <2>1. PICK k \in S : u = f[k] /\ Valid(f[k]) BY UopsOf
  <2>2. f[k] \in AnyUop OBVIOUS
  <2> QED BY <2>1, <2>2, UopFacts
<1> QED BY <1>1, <1>2, UopFacts DEF Waiting

\* A group is younger than all that waits.
Younger(group) == \A i \in 1..Count(group), u \in Waiting : u.id < group[i].id

\* The queue, its counters and its stage after a cycle without a flush; and
\* what waits there.
LEMMA QueueEdge ==
  ASSUME TypeOK, StageOK, SlotsOK,
         NEW group \in Group, Packed(group, Count(group)), is.stall_prev => group = Bubble,
         Younger(group),
         NEW operands \in SUBSET Slot, NEW int_full \in BOOLEAN,
         Queue(group, operands, int_full, FALSE)
  PROVE  /\ is' \in Stage(Group) /\ iq_full_reg' \in BOOLEAN
         /\ slots' \in [Slot -> AnyUop] /\ tail_reg' \in 0..IQ_MEM_SIZE
         /\ StageOK' /\ SlotsOK'
         /\ rf' \in AnyUop /\ (Valid(rf') => rf' \in Uops(slots))
         /\ Waiting' = (Waiting \ {rf'}) \cup Uops(group)
         /\ Older(In(rf'), Waiting \ {rf'})
<1>1. PICK sel : sel = Selected(operands) OBVIOUS
<1>2. PICK full \in BOOLEAN : full = (int_full \/ iq_mem_full(sel)) BY DEF iq_mem_full
<1>3. PICK g : g = IF is.stall_prev THEN is.tmp ELSE group OBVIOUS
<1>4. PICK c : c = Cardinality(sel) OBVIOUS
<1>5. PICK n : n = Count(is.in) OBVIOUS
<1>6. /\ is' = SkidNext(is, FALSE, full, group, Bubble)
      /\ iq_full_reg' = full
      /\ slots' = slots_next(sel)
      /\ free_count_reg' = free_count(sel) /\ tail_reg' = tail(sel)
      /\ rf' = uop_out(sel)
  BY <1>1, <1>2 DEF Queue
<1>7. Takes(sel, c) BY <1>1, <1>4, SelectedIs
<1>8. /\ is' \in Stage(Group) /\ Staged(is', g, full) /\ g \in Group
      /\ Uops(g) = Uops(is.tmp) \cup Uops(group)
  BY <1>3, <1>6, StageNext
<1>9. /\ tail_reg' = tail_reg - c + n /\ tail_reg' \in 0..IQ_MEM_SIZE
      /\ free_count_reg' = IQ_MEM_SIZE - tail_reg'
      /\ n \in 0..DISPATCH_WIDTH /\ tail_reg + n <= IQ_MEM_SIZE
      /\ free_count(sel) = IQ_MEM_SIZE - tail_reg'
  BY <1>5, <1>6, <1>7, Counters
<1>10. Compressed(slots', sel, c, n) BY <1>5, <1>6, <1>7, SlotsNext
<1>11. /\ \A k \in Slot : Valid(slots'[k]) <=> k < tail_reg'
       /\ \A j, k \in 0..(tail_reg' - 1) : j < k => slots'[j].id < slots'[k].id
       /\ Uops(slots') = (Uops(slots) \ {rf'}) \cup Uops(is.in)
       /\ slots' \in [Slot -> AnyUop]
  <2>1. slots' \in [Slot -> AnyUop] BY <1>10 DEF Compressed
  <2> QED BY <1>5, <1>6, <1>7, <1>9, <1>10, <2>1, SlotsHold
<1>12. /\ rf' \in AnyUop /\ (Valid(rf') => rf' \in Uops(slots))
       /\ rf' \notin Uops(is.in) \cup Uops(is.tmp)
  <2>1. CASE sel = {}
    <3>1. rf' = NoUop BY <1>6, <1>7, <2>1, IssuesIs
    <3> QED BY <3>1, UopFacts DEF Uops
  <2>2. ASSUME NEW s \in sel
        PROVE  rf' \in AnyUop /\ rf' \in Uops(slots) /\ rf' \notin Uops(is.in) \cup Uops(is.tmp)
    <3>1. s \in 0..(tail_reg - 1) /\ rf' = slots[s] BY <1>6, <1>7, IssuesIs
    <3>2. rf' \in Uop /\ rf' \in Uops(slots) /\ rf' \in AnyUop /\ rf'.id \in Int BY <3>1, InSlots, UopFacts
    <3>3. ASSUME rf' \in Uops(Behind) PROVE FALSE
      <4>1. PICK i \in 1..Count(Behind) : rf' = Behind[i] BY <3>3, BehindIs, SomeUops
      <4>2. slots[s].id < Behind[i].id BY <3>1 DEF SlotsOK
      <4> QED BY <3>1, <3>2, <4>1, <4>2
    <3> QED BY <3>2, <3>3, BehindIs
  <2> QED BY <2>1, <2>2
<1>13. Uops(is.in) \cup Uops(is.tmp) = Uops(Behind) /\ Uops(is.in)' \cup Uops(is.tmp)' = Uops(g)
  BY <1>8, BehindIs, BubbleFacts DEF Staged
<1>14. Waiting' = (Waiting \ {rf'}) \cup Uops(group)
  <2>1. Waiting' = ((Uops(slots) \ {rf'}) \cup Uops(is.in)) \cup Uops(is.tmp) \cup Uops(group)
    BY <1>8, <1>11, <1>13 DEF Waiting
  <2> QED BY <1>12, <2>1 DEF Waiting
<1>15. Packed(g, Count(g)) BY <1>3 DEF StageOK
<1>16. StageOK'
  <2>1. Packed(is'.in, Count(is'.in)) /\ Packed(is'.tmp, Count(is'.tmp))
    BY <1>8, <1>15, BubbleFacts DEF Staged
  <2>2. IF is'.stall_prev THEN is'.in = Bubble ELSE is'.tmp = Bubble BY <1>8 DEF Staged
  <2>3. ASSUME Uops(is'.in) # {} PROVE ~iq_full_reg' /\ tail_reg' + DISPATCH_WIDTH <= IQ_MEM_SIZE
    <3>1. ~full BY <1>8, <2>3, BubbleFacts DEF Staged
    <3>2. ~(IQ_MEM_SIZE - tail_reg' < DISPATCH_WIDTH) BY <1>2, <1>9, <3>1 DEF iq_mem_full
    <3> QED BY <1>6, <1>9, <3>1, <3>2, Sizes
  <2>4. Packed(is.in, Count(is.in))' /\ Packed(is.tmp, Count(is.tmp))' BY <2>1 DEF Packed, Count, Uops
  <2> QED BY <2>2, <2>3, <2>4 DEF StageOK
<1>17. \A k \in 0..(tail_reg' - 1), i \in 1..Count(g) : slots'[k].id < g[i].id
  <2> TAKE k \in 0..(tail_reg' - 1), i \in 1..Count(g)
  <2>1. slots'[k] \in (Uops(slots) \cup Uops(is.in))
    <3>1. slots'[k] \in Uops(slots') BY <1>9, <1>11, InQueue
    <3> QED BY <1>11, <3>1
  <2>2. CASE is.stall_prev
    <3>1. Uops(is.in) = {} /\ Behind = g BY <1>3, <2>2, BubbleFacts DEF StageOK, Behind
    <3>2. PICK o \in 0..(tail_reg - 1) : slots'[k] = slots[o] BY <2>1, <3>1, InSlots
    <3> QED BY <3>1, <3>2 DEF SlotsOK
  <2>3. CASE ~is.stall_prev
    BY <1>3, <2>1, <2>3 DEF Younger, Waiting
  <2> QED BY <2>2, <2>3
<1>18. SlotsOK'
  <2>1. Behind' = g BY <1>8 DEF Behind, Staged
  <2>2. \A k \in 0..(tail_reg' - 1), i \in 1..Count(Behind') : slots'[k].id < Behind'[i].id BY <1>17, <2>1
  <2>3. Count(Behind)' = Count(Behind') BY DEF Count, Uops
  <2> QED BY <1>9, <1>11, <2>2, <2>3 DEF SlotsOK
<1>19. Older(In(rf'), Waiting \ {rf'})
  <2>1. /\ Uops(is.in) \cup Uops(is.tmp) = Uops(Behind)
        /\ \A v \in Uops(Behind) : \E i \in 1..Count(Behind) : v = Behind[i]
    BY BehindIs, SomeUops
  <2> QED BY <1>1, <1>6, <2>1, IssuesInOrder
<1> QED BY <1>6, <1>8, <1>9, <1>11, <1>12, <1>14, <1>16, <1>18, <1>19

-----------------------------------------------------------------------------
(* The path.                                                                 *)

\* A group from dispatch: micro-ops with the next numbers, as many as are left.
Dispatched(group, m) ==
  /\ group \in Group /\ Packed(group, m) /\ m = Count(group) /\ fresh + m <= MAX_UOP
  /\ \A i \in 1..m : group[i] \in Uop /\ group[i].id = fresh + i
  /\ is.stall_prev => group = Bubble

\* What dispatch.sv sends.
LEMMA GroupsAre ==
  ASSUME TypeOK, NEW group \in Groups
  PROVE  Dispatched(group, Count(group))
<1> DEFINE room == IF is.stall_prev THEN 0 ELSE MAX_UOP - fresh
           Made(n, a) == [i \in 1..DISPATCH_WIDTH |->
                            IF i <= n THEN [id |-> fresh + i, st |-> a[i].st,
                                            addr |-> a[i].addr, size |-> a[i].size]
                            ELSE NoUop]
<1>0. PICK m \in 0..(IF room < DISPATCH_WIDTH THEN room ELSE DISPATCH_WIDTH) :
        \E a \in [1..m -> ACCESSES] : group = Made(m, a)
  BY DEF Groups
<1>1. PICK a \in [1..m -> ACCESSES] : group = Made(m, a) BY <1>0
<1>2. /\ fresh \in 0..MAX_UOP /\ is.stall_prev \in BOOLEAN BY DEF TypeOK, Stage
<1>3. /\ m \in 0..DISPATCH_WIDTH /\ fresh + m <= MAX_UOP /\ fresh \in Nat
      /\ is.stall_prev => m = 0
  BY <1>0, <1>2, Sizes
<1>4. \A i \in 1..m : i \in 1..DISPATCH_WIDTH /\ fresh + i \in 1..MAX_UOP BY <1>3, Sizes
<1>5. ASSUME NEW i \in 1..m PROVE group[i] \in Uop /\ group[i].id = fresh + i
  <2>1. a[i] \in ACCESSES BY <1>1
  <2>2. group[i] = [id |-> fresh + i, st |-> a[i].st, addr |-> a[i].addr, size |-> a[i].size]
    BY <1>1, <1>3, <1>4
  <2>3. \E j \in 1..MAX_UOP, b \in ACCESSES :
          group[i] = [id |-> j, st |-> b.st, addr |-> b.addr, size |-> b.size]
    BY <1>4, <2>1, <2>2
  <2>4. group[i] \in Uop BY ONLY <2>3 DEF Uop
  <2> QED BY <2>2, <2>4
<1>6. \A i \in 1..DISPATCH_WIDTH : i \notin 1..m => group[i] = NoUop BY <1>1, <1>3, Sizes
<1>7. group \in Group
  <2>1. \A i \in 1..DISPATCH_WIDTH : group[i] \in AnyUop BY <1>5, <1>6, UopFacts
  <2>2. group = [i \in 1..DISPATCH_WIDTH |-> group[i]] BY <1>1
  <2> QED BY <2>1, <2>2 DEF Group
<1>8. Packed(group, m)
  <2>1. \A i \in 1..DISPATCH_WIDTH : Valid(group[i]) <=> i <= m
    <3> TAKE i \in 1..DISPATCH_WIDTH
    <3>1. i \in 1..m <=> i <= m BY <1>3, Sizes
    <3> QED BY <1>5, <1>6, <3>1, UopFacts
  <2>2. \A i, j \in 1..m : i < j => group[i].id < group[j].id BY <1>3, <1>5
  <2> QED BY <1>3, <2>1, <2>2 DEF Packed
<1>9. Count(group) = m BY <1>3, <1>7, <1>8, CountIs
<1>10. is.stall_prev => group = Bubble
  <2> SUFFICES ASSUME is.stall_prev PROVE group = Bubble OBVIOUS
  <2>1. \A i \in 1..DISPATCH_WIDTH : ~(i <= m) BY <1>3, Sizes
  <2> QED BY <1>1, <2>1 DEF Bubble
<1> QED BY <1>3, <1>5, <1>7, <1>8, <1>9, <1>10 DEF Dispatched

\* The path, place by place.
LEMMA PathFacts ==
  ASSUME TypeOK, PathOK
  PROVE  /\ Len(path) \in Nat /\ DOMAIN path = 1..Len(path)
         /\ \A k \in 1..Len(path) : path[k] \in Uop /\ path[k].id \in Int
         /\ \A u \in Current : u \in Uop /\ u.id \in Int /\ u.id <= fresh
         /\ \A u, v \in Current : u.id = v.id => u = v
<1>1. Len(path) \in Nat /\ DOMAIN path = 1..Len(path) BY DEF TypeOK
<1>2. \A k \in 1..Len(path) : path[k] \in Uop /\ path[k].id \in Int BY <1>1, UopFacts DEF TypeOK
<1>3. \A u \in Current : \E k \in 1..Len(path) : u = path[k] BY <1>1 DEF Current
<1>4. \A u \in Current : u \in Uop /\ u.id \in Int /\ u.id <= fresh BY <1>2, <1>3 DEF PathOK
<1>5. ASSUME NEW u \in Current, NEW v \in Current, u.id = v.id PROVE u = v
  <2>1. PICK j \in 1..Len(path) : u = path[j] BY <1>3
  <2>2. PICK k \in 1..Len(path) : v = path[k] BY <1>3
  <2>3. j = k
    <3>1. j < k \/ k < j \/ j = k BY <1>1
    <3> QED BY <1>2, <1>5, <2>1, <2>2, <3>1 DEF PathOK
  <2> QED BY <2>1, <2>2, <2>3
<1> QED BY <1>1, <1>2, <1>4, <1>5

\* The first n elements of a sequence.
LEMMA FirstOf ==
  ASSUME NEW S, NEW s, NEW n \in Nat, \A i \in 1..n : s[i] \in S
  PROVE  /\ SubSeq(s, 1, n) \in Seq(S) /\ Len(SubSeq(s, 1, n)) = n
         /\ \A i \in 1..n : SubSeq(s, 1, n)[i] = s[i]
<1>1. /\ SubSeq(s, 1, n) \in Seq(S) /\ Len(SubSeq(s, 1, n)) = IF 1 <= n THEN n - 1 + 1 ELSE 0
      /\ \A i \in 1..(n - 1 + 1) : SubSeq(s, 1, n)[i] = s[1 + i - 1]
  BY SubSeqProperties
<1>2. n - 1 + 1 = n /\ (1 <= n \/ n = 0) /\ \A i \in 1..n : 1 + i - 1 = i OBVIOUS
<1>3. PICK len : len = Len(SubSeq(s, 1, n)) OBVIOUS
<1>4. len = n BY ONLY <1>1, <1>2, <1>3
<1> QED BY <1>1, <1>2, <1>3, <1>4

\* The path with a group behind it.
LEMMA Extended ==
  ASSUME TypeOK, PathOK, NEW group, NEW m, Dispatched(group, m),
         path' = path \o SubSeq(group, 1, m), fresh' = fresh + m
  PROVE  /\ path' \in Seq(Uop) /\ Len(path') = Len(path) + m /\ fresh' \in 0..MAX_UOP
         /\ \A k \in 1..Len(path) : path'[k] = path[k]
         /\ \A k \in 1..Len(path') : k > Len(path) => path'[k] \in Uops(group)
         /\ \A j, k \in 1..Len(path') : j < k => path'[j].id < path'[k].id
         /\ \A k \in 1..Len(path') : path'[k].id <= fresh'
         /\ Current' = Current \cup Uops(group)
<1>0. m \in 0..DISPATCH_WIDTH /\ m \in Nat /\ fresh \in 0..MAX_UOP /\ fresh + m <= MAX_UOP
  BY Sizes DEF Dispatched, Packed, TypeOK
<1>1. \A i \in 1..m : group[i] \in Uop /\ group[i].id = fresh + i BY DEF Dispatched
<1>2. PICK add : add = SubSeq(group, 1, m) OBVIOUS
<1>3. add \in Seq(Uop) /\ Len(add) = m /\ \A i \in 1..m : add[i] = group[i]
  BY <1>0, <1>1, <1>2, FirstOf
<1>4. Len(path) \in Nat /\ path \in Seq(Uop) BY PathFacts DEF TypeOK
<1>5. /\ path' \in Seq(Uop) /\ Len(path') = Len(path) + m
      /\ \A k \in 1..(Len(path) + m) :
           path'[k] = IF k <= Len(path) THEN path[k] ELSE add[k - Len(path)]
  BY <1>2, <1>3, <1>4, ConcatProperties
<1>6. \A k \in 1..Len(path) : path'[k] = path[k] /\ k \in 1..Len(path') BY <1>0, <1>4, <1>5
<1>7. \A i \in 1..m : path'[Len(path) + i] = group[i] /\ Len(path) + i \in 1..Len(path')
  <2> TAKE i \in 1..m
  <2>1. Len(path) + i \in 1..(Len(path) + m) /\ ~(Len(path) + i <= Len(path)) /\ Len(path) + i - Len(path) = i
    BY <1>0, <1>4
  <2> QED BY <1>3, <1>5, <2>1
<1>8. \A k \in 1..Len(path') : k \in 1..Len(path) \/ \E i \in 1..m : k = Len(path) + i
  <2> TAKE k \in 1..Len(path')
  <2>1. k \in 1..Len(path) \/ (k - Len(path) \in 1..m /\ k = Len(path) + (k - Len(path)))
    BY <1>0, <1>4, <1>5
  <2> QED BY <2>1
<1>9. ASSUME NEW k \in 1..Len(path')
      PROVE  path'[k].id <= fresh' /\ path'[k].id \in Int
  <2>1. CASE k \in 1..Len(path) BY <1>0, <1>6, <2>1, PathFacts DEF PathOK
  <2>2. ASSUME NEW i \in 1..m, k = Len(path) + i PROVE path'[k].id <= fresh' /\ path'[k].id \in Int
    BY <1>0, <1>1, <1>7, <2>2
  <2> QED BY <1>8, <2>1, <2>2
<1>10. ASSUME NEW j \in 1..Len(path'), NEW k \in 1..Len(path'), j < k
       PROVE  path'[j].id < path'[k].id
  <2>1. CASE k \in 1..Len(path)
    <3>1. j \in 1..Len(path) BY <1>4, <1>10, <2>1
    <3> QED BY <1>6, <1>10, <2>1, <3>1 DEF PathOK
  <2>2. ASSUME NEW i \in 1..m, k = Len(path) + i PROVE path'[j].id < path'[k].id
    <3>1. path'[k].id = fresh + i BY <1>1, <1>7, <2>2
    <3>2. CASE j \in 1..Len(path)
      <4>1. path[j].id <= fresh /\ path[j].id \in Int BY <3>2, PathFacts DEF PathOK
      <4>2. path'[j] = path[j] BY <1>6, <3>2
      <4> QED BY ONLY <1>0, <2>2, <3>1, <4>1, <4>2
    <3>3. ASSUME NEW h \in 1..m, j = Len(path) + h PROVE path'[j].id < path'[k].id
      <4>1. path'[j].id = fresh + h BY <1>1, <1>7, <3>3
      <4>2. fresh \in Int /\ h < i BY ONLY <1>0, <1>4, <1>10, <2>2, <3>3
      <4> QED BY ONLY <3>1, <4>1, <4>2
    <3> QED BY <1>8, <3>2, <3>3
  <2> QED BY <1>8, <2>1, <2>2
<1>11. Current' = Current \cup Uops(group)
  <2>0. DOMAIN path = 1..Len(path) /\ DOMAIN path' = 1..Len(path') BY <1>4, <1>5
  <2>1. ASSUME NEW u \in Current PROVE u \in Current'
    <3>1. PICK k \in 1..Len(path) : u = path[k] BY <2>0 DEF Current
    <3> QED BY <1>6, <2>0, <3>1 DEF Current
  <2>2. \A u : u \in Uops(group) <=> \E i \in 1..m : u = group[i]
    BY SomeUops DEF Dispatched
  <2>3. ASSUME NEW u \in Uops(group) PROVE u \in Current'
    <3>1. PICK i \in 1..m : u = group[i] BY <2>2
    <3>2. Len(path) + i \in DOMAIN path' /\ u = path'[Len(path) + i] BY <1>7, <2>0, <3>1
    <3> QED BY <3>2 DEF Current
  <2>4. ASSUME NEW u \in Current' PROVE u \in Current \cup Uops(group)
    <3>1. PICK k \in 1..Len(path') : u = path'[k] BY <2>0 DEF Current
    <3>2. CASE k \in 1..Len(path) BY <1>6, <2>0, <3>1, <3>2 DEF Current
    <3>3. CASE \E i \in 1..m : k = Len(path) + i BY <1>7, <2>2, <3>1, <3>3
    <3> QED BY <1>8, <3>2, <3>3
  <2> QED BY <2>1, <2>3, <2>4
<1>12. \A k \in 1..Len(path') : k > Len(path) => path'[k] \in Uops(group)
  <2> SUFFICES ASSUME NEW k \in 1..Len(path'), k > Len(path) PROVE path'[k] \in Uops(group) OBVIOUS
  <2>1. k \notin 1..Len(path) BY <1>4
  <2>2. PICK i \in 1..m : k = Len(path) + i BY <1>8, <2>1
  <2>3. group[i] \in Uops(group) BY SomeUops DEF Dispatched
  <2> QED BY <1>7, <2>2, <2>3
<1>13. fresh' \in 0..MAX_UOP BY <1>0, Sizes
<1>14. \A k \in 1..Len(path') : path'[k].id <= fresh' BY <1>9
<1>15. \A k \in 1..Len(path) : path'[k] = path[k] BY <1>6
<1> QED BY ONLY <1>5, <1>10, <1>11, <1>12, <1>13, <1>14, <1>15

-----------------------------------------------------------------------------
(* A clock cycle.                                                            *)

\* What may issue, as sets of slots.
LEMMA OperandsAre == \A operands \in Operands : operands \in SUBSET Slot
BY DEF Operands

\* A cycle without a flush: where each micro-op is after it.
LEMMA Shifted ==
  ASSUME IInv, NEW group \in Group, Uops(group) \cap Waiting = {},
         \A u \in Uops(group), v \in Current : u.id # v.id /\ u.id # 0,
         rf' \in AnyUop, Valid(rf') => rf' \in Uops(slots),
         Waiting' = (Waiting \ {rf'}) \cup Uops(group), Current' = Current \cup Uops(group),
         ex' = rf, pipe' = ex, cm' = pipe, done' = Complete
  PROVE  /\ Apart' /\ Waiting' \cup Issuing' \subseteq Current'
         /\ \A u \in Current' : u.id \notin done' => u \in Waiting' \cup Issuing'
<1>1. /\ rf \in AnyUop /\ ex \in AnyUop /\ pipe \in AnyUop /\ cm \in AnyUop
      /\ Waiting \cup Issuing \subseteq Current
      /\ \A u \in Current : u.id \notin done => u \in Waiting \cup Issuing
  BY DEF IInv, TypeOK, PathOK
<1>2. \A u, v \in Current : u.id = v.id => u = v BY PathFacts DEF IInv
<1>3. Valid(rf') => rf' \in Waiting /\ \A v \in {rf, ex, pipe} : rf'.id # v.id
  <2> SUFFICES ASSUME Valid(rf') PROVE rf' \in Waiting /\ \A v \in {rf, ex, pipe} : rf'.id # v.id OBVIOUS
  <2>1. rf' \in Waiting BY DEF Waiting
  <2>2. rf'.id # 0 BY DEF Valid
  <2>3. \A v \in {rf, ex, pipe} : v \in Issuing \/ v.id = 0 BY UopFacts DEF Issuing
  <2>4. \A v \in Issuing : rf'.id # v.id BY <2>1 DEF IInv, Apart
  <2> QED BY <2>1, <2>2, <2>3, <2>4
<1>4. Issuing' = {rf', rf, ex, pipe} \ {NoUop} BY DEF Issuing
<1>5. \A v \in Issuing' : v \in Current /\ (v = rf' \/ v \in Issuing)
  <2> TAKE v \in Issuing'
  <2>1. CASE v = rf' BY <1>1, <1>3, <1>4, <2>1, UopFacts
  <2>2. CASE v \in {rf, ex, pipe} BY <1>1, <1>4, <2>2 DEF Issuing
  <2> QED BY <1>4, <2>1, <2>2
<1>6. Apart'
  <2>1. Valid(rf') => rf'.id \notin {ex'.id, pipe'.id, cm'.id} BY <1>3
  <2>2. Valid(ex') => ex'.id \notin {pipe'.id, cm'.id} BY DEF IInv, Apart
  <2>3. Valid(pipe') => pipe'.id # cm'.id BY DEF IInv, Apart
  <2>4. ASSUME NEW u \in Waiting', NEW v \in Issuing' PROVE u.id # v.id
    <3>1. CASE u \in Waiting \ {rf'} /\ v \in Issuing BY <3>1 DEF IInv, Apart
    <3>2. CASE u \in Waiting \ {rf'} /\ v = rf'
      <4>1. u \in Current /\ v \in Current /\ u # v BY <1>1, <1>5, <3>2
      <4> QED BY <1>2, <4>1
    <3>3. CASE u \in Uops(group) BY <1>5, <3>3
    <3> QED BY <1>5, <3>1, <3>2, <3>3
  <2>5. (Valid(rf) => rf.id \notin {ex.id, pipe.id, cm.id})' BY <2>1 DEF Valid
  <2>6. (Valid(ex) => ex.id \notin {pipe.id, cm.id})' /\ (Valid(pipe) => pipe.id # cm.id)'
    BY <2>2, <2>3 DEF Valid
  <2> QED BY <2>4, <2>5, <2>6 DEF Apart
<1>7. Waiting' \cup Issuing' \subseteq Current' BY <1>1, <1>5
<1>8. ASSUME NEW u \in Current', u.id \notin done' PROVE u \in Waiting' \cup Issuing'
  <2>1. CASE u \in Uops(group) BY <2>1
  <2>2. CASE u \in Current
    <3>1. u \in Waiting \cup Issuing BY <1>1, <1>8, <2>2 DEF Complete
    <3>2. CASE u \in Waiting
      <4>1. u = rf' => u \in Issuing'
        <5>1. u # NoUop BY <3>2, WaitingFacts, UopFacts DEF IInv
        <5> QED BY <1>4, <5>1
      <4> QED BY <3>2, <4>1
    <3>3. CASE u \in Issuing
      <4>1. u # cm
        <5> SUFFICES ASSUME u = cm PROVE FALSE OBVIOUS
        <5>1. cm.id # 0 BY <1>1, <3>3, UopFacts DEF Issuing, Valid
        <5> QED BY <1>8, <5>1 DEF Complete
      <4> QED BY <1>4, <3>3, <4>1 DEF Issuing
    <3> QED BY <3>1, <3>2, <3>3
  <2> QED BY <2>1, <2>2
<1> QED BY <1>6, <1>7, <1>8

\* What has retired is complete.
LEMMA Retirement ==
  ASSUME IInv, NEW n \in 0..COMMIT_WIDTH, MayRetire(n)
  PROVE  /\ retired + n \in 0..Len(path)
         /\ \A k \in 1..(retired + n) : path[k].id \in Complete
<1>1. retired \in Nat /\ n \in Nat /\ Len(path) \in Nat /\ retired + n <= Len(path)
  BY Sizes DEF MayRetire, IInv, TypeOK
<1>2. ASSUME NEW k \in 1..(retired + n) PROVE path[k].id \in Complete
  <2>1. k \in 1..retired \/ k \in (retired + 1)..(retired + n) BY <1>1
  <2>2. k \in 1..retired => path[k].id \in Complete BY DEF IInv, PathOK, Complete
  <2>3. k \in (retired + 1)..(retired + n) => path[k].id \in Complete BY DEF MayRetire
  <2> QED BY <2>1, <2>2, <2>3
<1> QED BY <1>1, <1>2

\* The registers move on by one and the group joins what waits.
Moved(group) ==
  /\ ex' = rf /\ pipe' = ex /\ cm' = pipe
  /\ rf' \in AnyUop /\ (Valid(rf') => rf' \in Uops(slots)) /\ Older(In(rf'), Waiting \ {rf'})
  /\ Waiting' = (Waiting \ {rf'}) \cup Uops(group) /\ Current' = Current \cup Uops(group)
  /\ group \in Group /\ fresh' \in fresh..MAX_UOP
  /\ \A u \in Uops(group) : u \in Uop /\ fresh < u.id /\ u.id <= fresh'

\* The group joins the path.
Grown(group) ==
  /\ path' \in Seq(Uop) /\ Len(path') >= Len(path)
  /\ \A k \in 1..Len(path) : path'[k] = path[k]
  /\ \A k \in 1..Len(path') : k > Len(path) => path'[k] \in Uops(group)
  /\ \A j, k \in 1..Len(path') : j < k => path'[j].id < path'[k].id
  /\ \A k \in 1..Len(path') : path'[k].id <= fresh'

\* A cycle in which nothing is flushed.
LEMMA AdvanceMoves ==
  ASSUME IInv, NEW group \in Groups, NEW operands \in SUBSET Slot, NEW int_full \in BOOLEAN,
         Advance(group, operands, int_full)
  PROVE  /\ Moved(group) /\ Grown(group)
         /\ is' \in Stage(Group) /\ iq_full_reg' \in BOOLEAN
         /\ slots' \in [Slot -> AnyUop] /\ tail_reg' \in 0..IQ_MEM_SIZE
         /\ StageOK' /\ SlotsOK'
<1>1. PICK n \in 0..COMMIT_WIDTH :
        /\ Queue(group, operands, int_full, FALSE) /\ Pipe3(FALSE)
        /\ fresh' = fresh + Cardinality(Uops(group))
        /\ path' = path \o SubSeq(group, 1, Cardinality(Uops(group)))
  BY DEF Advance
<1>2. PICK m : m = Count(group) OBVIOUS
<1>3. Dispatched(group, m) BY <1>2, GroupsAre DEF IInv
<1>4. fresh' = fresh + m /\ path' = path \o SubSeq(group, 1, m) BY <1>1, <1>2 DEF Count
<1>5. /\ path' \in Seq(Uop) /\ Len(path') = Len(path) + m /\ fresh' \in 0..MAX_UOP
      /\ \A k \in 1..Len(path) : path'[k] = path[k]
      /\ \A k \in 1..Len(path') : k > Len(path) => path'[k] \in Uops(group)
      /\ \A j, k \in 1..Len(path') : j < k => path'[j].id < path'[k].id
      /\ \A k \in 1..Len(path') : path'[k].id <= fresh'
      /\ Current' = Current \cup Uops(group)
  BY <1>3, <1>4, Extended DEF IInv
<1>6. /\ group \in Group /\ Packed(group, Count(group)) /\ (is.stall_prev => group = Bubble)
      /\ \A i \in 1..m : group[i] \in Uop /\ group[i].id = fresh + i
      /\ \A u \in Uops(group) : \E i \in 1..m : u = group[i]
      /\ m \in Nat /\ fresh \in Nat
  <2>1. /\ group \in Group /\ Packed(group, Count(group)) /\ (is.stall_prev => group = Bubble)
        /\ \A i \in 1..m : group[i] \in Uop /\ group[i].id = fresh + i
    BY <1>2, <1>3 DEF Dispatched
  <2>2. m \in Nat /\ fresh \in Nat BY <1>3, Sizes DEF Dispatched, Packed, IInv, TypeOK
  <2> QED BY <1>2, <2>1, <2>2, SomeUops
<1>7. \A u \in Uops(group) : u \in Uop /\ fresh < u.id /\ u.id <= fresh'
  <2> TAKE u \in Uops(group)
  <2>1. PICK i \in 1..m : u = group[i] /\ u.id = fresh + i /\ u \in Uop BY <1>6
  <2> QED BY <1>4, <1>6, <2>1
<1>8. Younger(group)
  <2>1. \A i \in 1..m : group[i] \in Uops(group) /\ group[i].id \in Int BY <1>2, <1>6, SomeUops
  <2>2. \A v \in Waiting : v.id <= fresh /\ v.id \in Int BY PathFacts DEF IInv, PathOK
  <2> QED BY <1>2, <1>6, <1>7, <2>1, <2>2 DEF Younger
<1>9. /\ is' \in Stage(Group) /\ iq_full_reg' \in BOOLEAN
      /\ slots' \in [Slot -> AnyUop] /\ tail_reg' \in 0..IQ_MEM_SIZE
      /\ StageOK' /\ SlotsOK'
      /\ rf' \in AnyUop /\ (Valid(rf') => rf' \in Uops(slots))
      /\ Waiting' = (Waiting \ {rf'}) \cup Uops(group)
      /\ Older(In(rf'), Waiting \ {rf'})
  BY <1>1, <1>6, <1>8, QueueEdge DEF IInv
<1>10. ex' = rf /\ pipe' = ex /\ cm' = pipe BY <1>1 DEF Pipe3
<1>11. fresh' \in fresh..MAX_UOP /\ Len(path') >= Len(path)
  <2>1. Len(path) \in Nat BY PathFacts DEF IInv
  <2> QED BY <1>4, <1>5, <1>6, <2>1, Sizes
<1>12. Moved(group) BY <1>5, <1>6, <1>7, <1>9, <1>10, <1>11 DEF Moved
<1>13. Grown(group) BY <1>5, <1>11 DEF Grown
<1> QED BY <1>9, <1>12, <1>13

\* Such a cycle keeps the invariant.
LEMMA AdvanceStep ==
  ASSUME IInv, NEW group \in Groups, NEW operands \in SUBSET Slot, NEW int_full \in BOOLEAN,
         Advance(group, operands, int_full)
  PROVE  IInv'
<1>1. PICK n \in 0..COMMIT_WIDTH : MayRetire(n) /\ retired' = retired + n /\ done' = Complete
  BY DEF Advance, Retire
<1>2. /\ Moved(group) /\ Grown(group)
      /\ is' \in Stage(Group) /\ iq_full_reg' \in BOOLEAN
      /\ slots' \in [Slot -> AnyUop] /\ tail_reg' \in 0..IQ_MEM_SIZE
      /\ StageOK' /\ SlotsOK'
  BY AdvanceMoves
<1>3. \A u \in Uops(group), v \in Current : u.id # v.id /\ u.id # 0
  <2> TAKE u \in Uops(group), v \in Current
  <2>1. u \in Uop /\ fresh < u.id BY <1>2 DEF Moved
  <2>2. v.id <= fresh /\ v.id \in Int BY PathFacts DEF IInv
  <2>3. u.id \in Int /\ fresh \in Nat BY <2>1, UopFacts, Sizes DEF IInv, TypeOK
  <2> QED BY <2>1, <2>2, <2>3
<1>4. /\ Apart' /\ Waiting' \cup Issuing' \subseteq Current'
      /\ \A u \in Current' : u.id \notin done' => u \in Waiting' \cup Issuing'
  <2>1. Uops(group) \cap Waiting = {} BY <1>3 DEF IInv, PathOK
  <2> QED BY <1>1, <1>2, <1>3, <2>1, Shifted DEF Moved
<1>5. /\ retired' \in 0..Len(path) /\ \A k \in 1..retired' : path[k].id \in done'
  BY <1>1, Retirement
<1>6. Len(path) \in Nat /\ Len(path') \in Nat /\ Len(path') >= Len(path) /\ path' \in Seq(Uop)
  BY <1>2, PathFacts DEF IInv, Grown
<1>7. TypeOK'
  <2>1. ex' \in AnyUop /\ pipe' \in AnyUop /\ cm' \in AnyUop /\ rf' \in AnyUop
    BY <1>2 DEF IInv, TypeOK, Moved
  <2>2. retired' \in 0..Len(path') BY <1>5, <1>6
  <2>3. fresh' \in 0..MAX_UOP BY <1>2, Sizes DEF IInv, TypeOK, Moved
  <2> QED BY <1>2, <1>6, <2>1, <2>2, <2>3 DEF TypeOK
<1>8. PathOK'
  <2>1. \A k \in 1..retired' : path'[k].id \in done' BY <1>2, <1>5, <1>6 DEF Grown
  <2> QED BY <1>2, <1>4, <2>1 DEF PathOK, Grown
<1> QED BY <1>2, <1>4, <1>7, <1>8 DEF IInv

\* A cycle in which a mispredicted branch retires.
LEMMA FlushStep ==
  ASSUME IInv, Flush
  PROVE  IInv'
<1>1. PICK n \in 0..COMMIT_WIDTH, operands \in Operands, int_full \in BOOLEAN :
        /\ Queue(Bubble, operands, int_full, TRUE) /\ Pipe3(TRUE) /\ Retire(n, TRUE)
        /\ path' = SubSeq(path, 1, retired + n)
        /\ UNCHANGED fresh
  BY DEF Flush
<1>2. /\ is' = SkidReset(Bubble) /\ iq_full_reg' \in BOOLEAN
      /\ slots' = NoSlots /\ free_count_reg' = IQ_MEM_SIZE /\ tail_reg' = 0
      /\ rf' = NoUop /\ ex' = NoUop /\ pipe' = NoUop /\ cm' = NoUop
  BY <1>1 DEF Queue, SkidNext, Pipe3, iq_mem_full
<1>3. MayRetire(n) /\ retired' = retired + n /\ done' = Complete BY <1>1 DEF Retire
<1>4. retired' \in 0..Len(path) /\ \A k \in 1..retired' : path[k].id \in done' BY <1>3, Retirement
<1>5. Len(path) \in Nat /\ path \in Seq(Uop) /\ retired' \in Nat BY <1>4, PathFacts DEF IInv, TypeOK
<1>6. /\ path' \in Seq(Uop) /\ Len(path') = retired'
      /\ \A k \in 1..retired' : path'[k] = path[k] /\ k \in 1..Len(path)
  <2>1. \A k \in 1..retired' : k \in 1..Len(path) /\ path[k] \in Uop BY <1>4, <1>5, PathFacts DEF IInv
  <2>2. path' = SubSeq(path, 1, retired') BY <1>1, <1>3
  <2>3. PICK s, r : s = path /\ r = retired' OBVIOUS
  <2>4. r \in Nat /\ \A k \in 1..r : s[k] \in Uop BY ONLY <1>5, <2>1, <2>3
  <2>5. /\ SubSeq(s, 1, r) \in Seq(Uop) /\ Len(SubSeq(s, 1, r)) = r
        /\ \A i \in 1..r : SubSeq(s, 1, r)[i] = s[i]
    BY ONLY <2>4, FirstOf
  <2> QED BY ONLY <2>1, <2>2, <2>3, <2>5
<1>7. /\ is'.in = Bubble /\ is'.tmp = Bubble /\ ~is'.stall_prev /\ is' \in Stage(Group)
  BY <1>2, BubbleFacts DEF SkidReset, Stage
<1>8. \A k \in Slot : slots'[k] = NoUop BY <1>2 DEF NoSlots
<1>9. slots' \in [Slot -> AnyUop] BY <1>2, UopFacts DEF NoSlots
<1>10. Waiting' = {} /\ Issuing' = {}
  <2>1. Uops(slots') = {} BY <1>8, <1>9, UopFacts, UopsOf
  <2> QED BY <1>2, <1>7, <2>1, BubbleFacts DEF Waiting, Issuing
<1>11. TypeOK' BY <1>1, <1>2, <1>5, <1>6, <1>7, <1>9, UopFacts, Sizes DEF TypeOK, IInv
<1>12. StageOK'
  <2>1. Packed(is'.in, Count(is'.in)) /\ Packed(is'.tmp, Count(is'.tmp)) /\ Uops(is'.in) = {}
    BY <1>7, BubbleFacts
  <2>2. Packed(is.in, Count(is.in))' /\ Packed(is.tmp, Count(is.tmp))' BY <2>1 DEF Packed, Count, Uops
  <2> QED BY <1>7, <2>1, <2>2 DEF StageOK
<1>13. SlotsOK'
  <2>1. \A k \in Slot : Valid(slots'[k]) <=> k < 0 BY <1>8, UopFacts, Sizes
  <2> QED BY <1>2, <2>1, Sizes DEF SlotsOK
<1>14. Apart' BY <1>2, <1>10, UopFacts DEF Apart
<1>15. \A u \in Current' : u.id \in done'
  <2>1. DOMAIN path' = 1..retired' BY <1>6
  <2> QED BY <1>4, <1>6, <2>1 DEF Current
<1>16. PathOK'
  <2>1. \A j, k \in 1..Len(path') : j < k => path'[j].id < path'[k].id BY <1>6 DEF IInv, PathOK
  <2>2. \A k \in 1..Len(path') : path'[k].id <= fresh' BY <1>1, <1>6 DEF IInv, PathOK
  <2> QED BY <1>4, <1>6, <1>10, <1>15, <2>1, <2>2 DEF PathOK
<1> QED BY <1>11, <1>12, <1>13, <1>14, <1>16 DEF IInv

\* The invariant holds at reset.
LEMMA InitIInv == Init => IInv
<1> SUFFICES ASSUME Init PROVE IInv OBVIOUS
<1>1. /\ is.in = Bubble /\ is.tmp = Bubble /\ ~is.stall_prev /\ is \in Stage(Group)
  BY BubbleFacts DEF Init, SkidReset, Stage
<1>2. slots \in [Slot -> AnyUop] /\ \A k \in Slot : slots[k] = NoUop BY UopFacts DEF Init, NoSlots
<1>3. path = <<>> /\ Len(path) = 0 /\ path \in Seq(Uop) /\ DOMAIN path = {} BY DEF Init
<1>4. TypeOK
  <2>1. retired \in 0..Len(path) /\ fresh \in 0..MAX_UOP /\ tail_reg \in 0..IQ_MEM_SIZE
    BY <1>3, Sizes DEF Init
  <2> QED BY <1>1, <1>2, <1>3, <2>1, UopFacts DEF Init, TypeOK
<1>5. StageOK BY <1>1, BubbleFacts DEF StageOK
<1>6. SlotsOK
  <2>1. \A k \in Slot : Valid(slots[k]) <=> k < 0 BY <1>2, UopFacts, Sizes
  <2> QED BY <2>1, Sizes DEF Init, SlotsOK
<1>7. Waiting = {} /\ Issuing = {}
  <2>1. Uops(slots) = {} BY <1>2, UopFacts, UopsOf
  <2> QED BY <1>1, <2>1, BubbleFacts DEF Init, Waiting, Issuing
<1>8. Apart BY <1>7, UopFacts DEF Init, Apart
<1>9. PathOK
  <2>1. Current = {} BY <1>3 DEF Current
  <2> QED BY <1>3, <1>7, <2>1 DEF Init, PathOK
<1> QED BY <1>4, <1>5, <1>6, <1>8, <1>9 DEF IInv

\* The invariant says nothing of memory, of the buffer or of the harness.
LEMMA StutterIInv ==
  ASSUME IInv, UNCHANGED <<iqVars, exVars, pathVars>>
  PROVE  IInv'
<1>1. /\ is' = is /\ iq_full_reg' = iq_full_reg /\ slots' = slots
      /\ free_count_reg' = free_count_reg /\ tail_reg' = tail_reg
      /\ rf' = rf /\ ex' = ex /\ pipe' = pipe /\ cm' = cm
      /\ fresh' = fresh /\ path' = path /\ retired' = retired /\ done' = done
  BY DEF iqVars, exVars, pathVars
<1>2. Behind' = Behind /\ Waiting' = Waiting /\ Issuing' = Issuing /\ Current' = Current
  BY <1>1 DEF Behind, Waiting, Issuing, Current, Uops
<1>3. TypeOK' BY <1>1 DEF IInv, TypeOK
<1>4. StageOK' BY <1>1 DEF IInv, StageOK, Packed, Count, Uops, Valid
<1>5. SlotsOK' BY <1>1, <1>2 DEF IInv, SlotsOK, Count, Uops, Valid
<1>6. Apart' BY <1>1, <1>2 DEF IInv, Apart, Valid
<1>7. PathOK' BY <1>1, <1>2 DEF IInv, PathOK
<1> QED BY <1>3, <1>4, <1>5, <1>6, <1>7 DEF IInv

\* Every cycle keeps the invariant.
LEMMA NextIInv == IInv /\ [Next]_vars => IInv'
<1> SUFFICES ASSUME IInv, [Next]_vars PROVE IInv' OBVIOUS
<1>1. ASSUME NEW group \in Groups, NEW operands \in Operands, NEW int_full \in BOOLEAN,
             Advance(group, operands, int_full)
      PROVE  IInv'
  BY <1>1, AdvanceStep, OperandsAre
<1>2. CASE Flush BY <1>2, FlushStep
<1>3. CASE Halt BY <1>3, StutterIInv DEF Halt
<1>4. CASE UNCHANGED vars BY <1>4, StutterIInv DEF vars
<1> QED BY <1>1, <1>2, <1>3, <1>4 DEF Next

\* The invariant holds in every state.
THEOREM Invariance == Spec => []IInv
BY InitIInv, NextIInv, PTL DEF Spec

-----------------------------------------------------------------------------
(* What the invariant says.                                                  *)

\* A micro-op is once in a packed group that it is in.
LEMMA OnceInGroup ==
  ASSUME NEW g \in Group, Packed(g, Count(g)), NEW u \in Uop
  PROVE  /\ u \notin Uops(g) => {i \in 1..DISPATCH_WIDTH : g[i] = u} = {}
         /\ u \in Uops(g) => \E k : {i \in 1..DISPATCH_WIDTH : g[i] = u} = {k}
<1>1. \A i \in 1..DISPATCH_WIDTH : g[i] = u => u \in Uops(g) /\ i \in 1..Count(g)
  <2> SUFFICES ASSUME NEW i \in 1..DISPATCH_WIDTH, g[i] = u PROVE u \in Uops(g) /\ i \in 1..Count(g) OBVIOUS
  <2>1. Valid(g[i]) BY UopFacts
  <2>2. u \in Uops(g) BY <2>1, UopsOf DEF Group
  <2>3. i <= Count(g) /\ Count(g) \in 0..DISPATCH_WIDTH BY <2>1 DEF Packed
  <2> QED BY <2>2, <2>3, Sizes
<1>2. ASSUME u \in Uops(g) PROVE \E k : {i \in 1..DISPATCH_WIDTH : g[i] = u} = {k}
  <2>1. PICK k \in 1..Count(g) : u = g[k] /\ k \in 1..DISPATCH_WIDTH BY <1>2, SomeUops
  <2>2. \A i \in 1..DISPATCH_WIDTH : g[i] = u => i = k
    <3> SUFFICES ASSUME NEW i \in 1..DISPATCH_WIDTH, g[i] = u, i # k PROVE FALSE OBVIOUS
    <3>1. i \in 1..Count(g) /\ u.id \in Int BY <1>1, UopFacts
    <3>2. i < k \/ k < i BY Sizes
    <3>3. g[i].id < g[k].id \/ g[k].id < g[i].id BY <2>1, <3>1, <3>2 DEF Packed
    <3> QED BY <2>1, <3>1, <3>3
  <2>3. {i \in 1..DISPATCH_WIDTH : g[i] = u} = {k} BY <2>1, <2>2
  <2> QED BY <2>3
<1> QED BY <1>1, <1>2

\* Likewise in the queue.
LEMMA OnceInSlots ==
  ASSUME TypeOK, SlotsOK, NEW u \in Uop
  PROVE  /\ u \notin Uops(slots) => {k \in Slot : slots[k] = u} = {}
         /\ u \in Uops(slots) => \E k : {j \in Slot : slots[j] = u} = {k}
<1>1. \A k \in Slot : slots[k] = u => u \in Uops(slots) /\ k \in 0..(tail_reg - 1)
  <2> SUFFICES ASSUME NEW k \in Slot, slots[k] = u PROVE u \in Uops(slots) /\ k \in 0..(tail_reg - 1) OBVIOUS
  <2>1. Valid(slots[k]) BY UopFacts
  <2>2. k < tail_reg BY <2>1 DEF SlotsOK
  <2>3. k \in 0..(tail_reg - 1) BY <2>2, Sizes DEF TypeOK
  <2> QED BY <2>3, InSlots
<1>2. ASSUME u \in Uops(slots) PROVE \E k : {j \in Slot : slots[j] = u} = {k}
  <2>1. PICK k \in 0..(tail_reg - 1) : u = slots[k] /\ k \in Slot BY <1>2, InSlots
  <2>2. \A j \in Slot : slots[j] = u => j = k
    <3> SUFFICES ASSUME NEW j \in Slot, slots[j] = u, j # k PROVE FALSE OBVIOUS
    <3>1. j \in 0..(tail_reg - 1) /\ u.id \in Int BY <1>1, UopFacts
    <3>2. j < k \/ k < j BY <3>1
    <3>3. slots[j].id < slots[k].id \/ slots[k].id < slots[j].id BY <2>1, <3>1, <3>2 DEF SlotsOK
    <3> QED BY <2>1, <3>1, <3>3
  <2>3. {j \in Slot : slots[j] = u} = {k} BY <2>1, <2>2
  <2> QED BY <2>3
<1> QED BY <1>1, <1>2

\* Likewise in the registers of the pipe.
LEMMA OnceInPipe ==
  ASSUME TypeOK, Apart, NEW u \in Uop
  PROVE  /\ u \notin Issuing => {p \in 1..4 : <<rf, ex, pipe, cm>>[p] = u} = {}
         /\ u \in Issuing => \E k : {p \in 1..4 : <<rf, ex, pipe, cm>>[p] = u} = {k}
<1>1. u # NoUop /\ Valid(u) /\ (u = rf \/ u = ex \/ u = pipe \/ u = cm <=> u \in Issuing)
  BY UopFacts DEF Issuing
<1>2. \A p \in 1..4 : <<rf, ex, pipe, cm>>[p] = u <=>
        (p = 1 /\ rf = u) \/ (p = 2 /\ ex = u) \/ (p = 3 /\ pipe = u) \/ (p = 4 /\ cm = u)
  <2> TAKE p \in 1..4
  <2>1. p = 1 \/ p = 2 \/ p = 3 \/ p = 4 OBVIOUS
  <2> QED BY <2>1
<1>3. /\ u = rf => u # ex /\ u # pipe /\ u # cm
      /\ u = ex => u # pipe /\ u # cm
      /\ u = pipe => u # cm
  BY <1>1 DEF Apart
<1>4. ASSUME NEW k \in 1..4,
             (k = 1 /\ rf = u) \/ (k = 2 /\ ex = u) \/ (k = 3 /\ pipe = u) \/ (k = 4 /\ cm = u)
      PROVE  {p \in 1..4 : <<rf, ex, pipe, cm>>[p] = u} = {k}
  <2>1. \A p \in 1..4 : <<rf, ex, pipe, cm>>[p] = u <=> p = k BY ONLY <1>2, <1>3, <1>4
  <2> QED BY ONLY <2>1, k \in 1..4
<1>5. 1 \in 1..4 /\ 2 \in 1..4 /\ 3 \in 1..4 /\ 4 \in 1..4 OBVIOUS
<1>6. u \in Issuing => \E k : {p \in 1..4 : <<rf, ex, pipe, cm>>[p] = u} = {k} BY <1>1, <1>4, <1>5
<1>7. u \notin Issuing => {p \in 1..4 : <<rf, ex, pipe, cm>>[p] = u} = {} BY <1>1, <1>2
<1> QED BY <1>6, <1>7

\* The places of a micro-op, given those in the stage's two registers, in the
\* slots and in the pipe.
Parts(A, B, C, D) == {<<0, i>> : i \in A} \cup {<<1, i>> : i \in B}
                     \cup {<<2, k>> : k \in C} \cup {<<3, p>> : p \in D}

\* One of the four sets has one element and the others none.
OneOf(A, B, C, D) ==
  \E x : \/ A = {x} /\ B = {} /\ C = {} /\ D = {}
         \/ A = {} /\ B = {x} /\ C = {} /\ D = {}
         \/ A = {} /\ B = {} /\ C = {x} /\ D = {}
         \/ A = {} /\ B = {} /\ C = {} /\ D = {x}

\* A set with a part for each place has one element if one part has.
LEMMA OnePart ==
  ASSUME NEW A, NEW B, NEW C, NEW D, OneOf(A, B, C, D)
  PROVE  Cardinality(Parts(A, B, C, D)) = 1
<1>1. PICK x : \/ A = {x} /\ B = {} /\ C = {} /\ D = {}
               \/ A = {} /\ B = {x} /\ C = {} /\ D = {}
               \/ A = {} /\ B = {} /\ C = {x} /\ D = {}
               \/ A = {} /\ B = {} /\ C = {} /\ D = {x}
  BY DEF OneOf
<1>2. \/ Parts(A, B, C, D) = {<<0, x>>} \/ Parts(A, B, C, D) = {<<1, x>>}
      \/ Parts(A, B, C, D) = {<<2, x>>} \/ Parts(A, B, C, D) = {<<3, x>>}
  BY <1>1 DEF Parts
<1> QED BY <1>2, FS_Singleton

\* The micro-ops of the slots are not in the stage, and those of the stage
\* are in one of its two registers.
LEMMA WaitsOnce ==
  ASSUME IInv, NEW u \in Uop
  PROVE  /\ u \in Uops(slots) => u \notin Uops(is.in) /\ u \notin Uops(is.tmp)
         /\ u \in Uops(is.in) => u \notin Uops(is.tmp)
<1>1. u \in Uops(slots) => u \notin Uops(Behind)
  <2> SUFFICES ASSUME u \in Uops(slots), u \in Uops(Behind) PROVE FALSE OBVIOUS
  <2>1. PICK k \in 0..(tail_reg - 1) : u = slots[k] BY InSlots DEF IInv
  <2>2. PICK i \in 1..Count(Behind) : u = Behind[i] BY BehindIs, SomeUops DEF IInv
  <2>3. slots[k].id < Behind[i].id /\ u.id \in Int BY UopFacts DEF IInv, SlotsOK
  <2> QED BY <2>1, <2>2, <2>3
<1>2. Uops(is.in) \cup Uops(is.tmp) = Uops(Behind) BY BehindIs DEF IInv
<1>3. Uops(is.in) = {} \/ Uops(is.tmp) = {} BY BubbleFacts DEF IInv, StageOK
<1> QED BY <1>1, <1>2, <1>3

\* What ExecutesOnce claims.
LEMMA OnceHolds ==
  ASSUME IInv
  PROVE  ExecutesOnce
<1>1. ASSUME NEW u \in Current, u.id \notin done PROVE Places(u) = 1
  <2>1. u \in Uop BY PathFacts DEF IInv
  <2>2. u \in Waiting \cup Issuing BY <1>1 DEF IInv, PathOK
  <2>3. u \in Waiting => u \notin Issuing BY DEF IInv, Apart
  <2>4. /\ is.in \in Group /\ is.tmp \in Group
        /\ Packed(is.in, Count(is.in)) /\ Packed(is.tmp, Count(is.tmp))
    BY DEF IInv, TypeOK, StageOK, Stage
  <2> DEFINE A == {i \in 1..DISPATCH_WIDTH : is.in[i] = u}
  <2> DEFINE B == {i \in 1..DISPATCH_WIDTH : is.tmp[i] = u}
  <2> DEFINE C == {k \in Slot : slots[k] = u}
  <2> DEFINE D == {p \in 1..4 : <<rf, ex, pipe, cm>>[p] = u}
  <2>5. (u \notin Uops(is.in) => A = {}) /\ (u \in Uops(is.in) => \E x : A = {x})
    BY <2>1, <2>4, OnceInGroup
  <2>6. (u \notin Uops(is.tmp) => B = {}) /\ (u \in Uops(is.tmp) => \E x : B = {x})
    BY <2>1, <2>4, OnceInGroup
  <2>7. (u \notin Uops(slots) => C = {}) /\ (u \in Uops(slots) => \E x : C = {x})
    BY <2>1, OnceInSlots DEF IInv
  <2>8. (u \notin Issuing => D = {}) /\ (u \in Issuing => \E x : D = {x})
    BY <2>1, OnceInPipe DEF IInv
  <2>9. /\ u \in Uops(slots) => u \notin Uops(is.in) /\ u \notin Uops(is.tmp)
        /\ u \in Uops(is.in) => u \notin Uops(is.tmp)
    BY <2>1, WaitsOnce
  <2>10. u \in Waiting <=> u \in Uops(slots) \/ u \in Uops(is.in) \/ u \in Uops(is.tmp) BY DEF Waiting
  <2>11. Places(u) = Cardinality(Parts(A, B, C, D)) BY DEF Places, Parts
  <2> HIDE DEF A, B, C, D
  <2>12. OneOf(A, B, C, D)
    BY ONLY <2>2, <2>3, <2>5, <2>6, <2>7, <2>8, <2>9, <2>10 DEF OneOf
  <2> QED BY ONLY <2>11, <2>12, OnePart
<1>2. Uops(is.in) \cup Uops(is.tmp) \cup Uops(slots) \cup Uops(<<rf, ex, pipe, cm>>) \subseteq Current
  <2>1. Uops(<<rf, ex, pipe, cm>>) = Issuing
    <3>1. DOMAIN <<rf, ex, pipe, cm>> = {1, 2, 3, 4} OBVIOUS
    <3> QED BY <3>1 DEF Uops, Issuing
  <2> QED BY <2>1 DEF IInv, PathOK, Waiting
<1> QED BY <1>1, <1>2 DEF ExecutesOnce, Current

\* The queue of loads and stores loses no slot and no order, whatever issues,
\* arrives and is flushed, and always has room for what dispatch.sv presents:
\* issue_queue_mem.sv's compression, counters and full signal.
THEOREM StaysPacked == Spec => []QueuePacked
<1>1. IInv => QueuePacked
  <2> SUFFICES ASSUME IInv PROVE QueuePacked OBVIOUS
  <2>1. is.in \in Group /\ Packed(is.in, Count(is.in)) BY DEF IInv, TypeOK, StageOK, Stage
  <2>2. Count(is.in) \in 0..DISPATCH_WIDTH BY <2>1, SomeUops
  <2>3. Uops(is.in) # {} => tail_reg + Count(is.in) <= IQ_MEM_SIZE /\ ~iq_full_reg
    BY <2>2, Sizes DEF IInv, TypeOK, StageOK
  <2> QED BY <2>3 DEF IInv, SlotsOK, QueuePacked, Count
<1> QED BY <1>1, Invariance, PTL

\* Every load and store of the path that has not completed is in one place of
\* the queue, its stage or pipe 3, so that it executes once; and none of a
\* flushed path is left.
THEOREM Once == Spec => []ExecutesOnce
BY Invariance, OnceHolds, PTL

-----------------------------------------------------------------------------
(* The order in which stores execute.                                        *)

\* The loads and stores of the path that the ROB knows complete.
Done == {u \in Current : u.id \in done}

\* A store executes after what is older and before what is younger, and what
\* is under way is not complete.
OrderOK ==
  /\ Older(Done, In(cm) \cup In(pipe) \cup In(ex) \cup In(rf) \cup Waiting)
  /\ Older(In(cm), In(pipe) \cup In(ex) \cup In(rf) \cup Waiting)
  /\ Older(In(pipe), In(ex) \cup In(rf) \cup Waiting)
  /\ Older(In(ex), In(rf) \cup Waiting)
  /\ Older(In(rf), Waiting)
  /\ \A u \in Waiting \cup Issuing : u.id \notin done
  /\ \A i \in done : i \in Int /\ i <= fresh

\* What enters the registers in such a cycle.
LEMMA CompleteIs ==
  ASSUME IInv
  PROVE  /\ \A i : i \in Complete <=> i \in done \/ (cm # NoUop /\ i = cm.id)
         /\ cm # NoUop => cm \in Current
         /\ In(rf) \cup In(ex) \cup In(pipe) \cup In(cm) = Issuing
<1>1. cm \in AnyUop BY DEF IInv, TypeOK
<1>2. cm # NoUop <=> cm.id # 0 BY <1>1, UopFacts DEF Valid
<1>3. cm # NoUop => cm \in Current BY DEF IInv, PathOK, Issuing
<1>4. In(rf) \cup In(ex) \cup In(pipe) \cup In(cm) = Issuing BY DEF In, Issuing
<1> QED BY <1>2, <1>3, <1>4 DEF Complete

\* A cycle without a flush keeps the order.
LEMMA OrderAdvance ==
  ASSUME IInv, IInv', OrderOK, NEW group, Moved(group), done' = Complete
  PROVE  OrderOK'
<1>1. /\ ex' = rf /\ pipe' = ex /\ cm' = pipe
      /\ Older(In(rf'), Waiting \ {rf'})
      /\ Waiting' = (Waiting \ {rf'}) \cup Uops(group) /\ Current' = Current \cup Uops(group)
      /\ Valid(rf') => rf' \in Uops(slots)
      /\ rf' \in AnyUop
  BY DEF Moved
<1>2. \A u \in Uops(group), v \in Current : v.id < u.id
  <2> TAKE u \in Uops(group), v \in Current
  <2>1. u \in Uop /\ fresh < u.id BY DEF Moved
  <2>2. v.id <= fresh /\ v.id \in Int BY PathFacts DEF IInv
  <2>3. u.id \in Int /\ fresh \in Nat BY <2>1, UopFacts, Sizes DEF IInv, TypeOK
  <2> QED BY <2>1, <2>2, <2>3
<1>3. \A u \in Uops(group) : u.id \notin Complete
  <2> TAKE u \in Uops(group)
  <2>1. u \in Uop /\ fresh < u.id BY DEF Moved
  <2>2. u.id \in Int /\ fresh \in Nat BY <2>1, UopFacts, Sizes DEF IInv, TypeOK
  <2>3. u.id \notin done BY <2>1, <2>2 DEF OrderOK
  <2>4. cm # NoUop => cm.id < u.id /\ cm.id \in Int BY <1>2, CompleteIs, PathFacts DEF IInv
  <2> QED BY <2>2, <2>3, <2>4, CompleteIs
<1>4. Done' = Done \cup In(cm)
  <2>1. \A u \in Current : u.id \in Complete <=> u \in Done \cup In(cm)
    BY CompleteIs, PathFacts DEF Done, In, IInv
  <2>2. In(cm) \subseteq Current BY CompleteIs DEF In
  <2> QED BY <1>1, <1>3, <2>1, <2>2 DEF Done
<1>5. /\ In(rf) \subseteq Current /\ In(ex) \subseteq Current /\ In(pipe) \subseteq Current
      /\ In(cm) \subseteq Current /\ Done \subseteq Current /\ Waiting \subseteq Current
      /\ In(rf') \subseteq Waiting
  <2>1. In(rf') \subseteq Waiting BY <1>1, UopFacts DEF In, Waiting
  <2> QED BY <2>1, CompleteIs DEF IInv, PathOK, Done
<1>6. \A S, T : S \subseteq Current /\ T \subseteq Uops(group) => Older(S, T) BY <1>2 DEF Older
<1>7. Older(Done \cup In(cm), In(pipe) \cup In(ex) \cup In(rf) \cup In(rf') \cup Waiting')
  BY <1>1, <1>2, <1>5 DEF OrderOK, Older
<1>8. Older(In(pipe), In(ex) \cup In(rf) \cup In(rf') \cup Waiting')
  BY <1>1, <1>2, <1>5 DEF OrderOK, Older
<1>9. Older(In(ex), In(rf) \cup In(rf') \cup Waiting')
  BY <1>1, <1>2, <1>5 DEF OrderOK, Older
<1>10. Older(In(rf), In(rf') \cup Waiting')
  BY <1>1, <1>2, <1>5 DEF OrderOK, Older
<1>11. Older(In(rf'), Waiting')
  BY <1>1, <1>2, <1>5 DEF Older
<1>12. \A u \in Waiting' \cup Issuing' : u.id \notin done'
  <2>1. ASSUME NEW u \in Waiting PROVE u.id \notin done'
    <3>1. u.id \notin done BY DEF OrderOK
    <3>2. cm # NoUop => u.id # cm.id BY CompleteIs DEF IInv, Apart, Issuing
    <3> QED BY <3>1, <3>2, CompleteIs
  <2>2. ASSUME NEW u \in In(rf) \cup In(ex) \cup In(pipe) PROVE u.id \notin done'
    <3>1. u \in Issuing /\ u # NoUop BY DEF Issuing, In
    <3>2. u.id \notin done BY <3>1 DEF OrderOK
    <3>3. u \in AnyUop BY DEF In, IInv, TypeOK
    <3>4. Valid(u) BY <3>1, <3>3, UopFacts
    <3>5. u.id # cm.id BY <3>4 DEF In, IInv, Apart
    <3> QED BY <3>2, <3>5, CompleteIs
  <2>3. Issuing' = In(rf') \cup In(rf) \cup In(ex) \cup In(pipe) BY <1>1 DEF Issuing, In
  <2> QED BY <1>1, <1>3, <1>5, <2>1, <2>2, <2>3
<1>13. \A i \in done' : i \in Int /\ i <= fresh'
  <2>1. fresh \in Int /\ fresh' \in Int /\ fresh <= fresh' BY Sizes DEF Moved, IInv, TypeOK
  <2>2. cm # NoUop => cm.id \in Int /\ cm.id <= fresh BY CompleteIs, PathFacts DEF IInv
  <2>3. \A i \in done' : i \in Int /\ i <= fresh BY <2>2, CompleteIs DEF OrderOK
  <2> QED BY <2>1, <2>3
<1>14. In(cm)' = In(pipe) /\ In(pipe)' = In(ex) /\ In(ex)' = In(rf) /\ In(rf)' = In(rf') BY <1>1 DEF In
<1> QED BY <1>4, <1>7, <1>8, <1>9, <1>10, <1>11, <1>12, <1>13, <1>14 DEF OrderOK, Older

\* A flush empties everything.
LEMMA OrderFlush ==
  ASSUME IInv, OrderOK, Flush
  PROVE  OrderOK' /\ Waiting' = {} /\ Issuing' = {}
<1>1. /\ is' = SkidReset(Bubble) /\ slots' = NoSlots
      /\ rf' = NoUop /\ ex' = NoUop /\ pipe' = NoUop /\ cm' = NoUop
      /\ done' = Complete /\ fresh' = fresh
  BY DEF Flush, Queue, SkidNext, Pipe3, Retire
<1>2. Waiting' = {} /\ Issuing' = {}
  <2>1. Uops(slots') = {} BY <1>1 DEF NoSlots, Uops
  <2>2. Uops(is'.in) = {} /\ Uops(is'.tmp) = {} BY <1>1, BubbleFacts DEF SkidReset
  <2> QED BY <1>1, <2>1, <2>2 DEF Waiting, Issuing, Uops
<1>3. In(rf)' = {} /\ In(ex)' = {} /\ In(pipe)' = {} /\ In(cm)' = {} BY <1>1 DEF In
<1>4. \A i \in done' : i \in Int /\ i <= fresh'
  <2>1. cm # NoUop => cm.id \in Int /\ cm.id <= fresh BY CompleteIs, PathFacts DEF IInv
  <2> QED BY <1>1, <2>1, CompleteIs DEF OrderOK
<1> QED BY <1>2, <1>3, <1>4 DEF OrderOK, Older

-----------------------------------------------------------------------------
(* Bytes: what a load gets, and what memory becomes.                         *)

Byte == Int \X Int
Entry == [id : Int, addr : Int, size : {1, 2, 4, 8}]

\* A set of numbers has a least one.
LEMMA Least ==
  ASSUME NEW T \in SUBSET Nat, T # {}
  PROVE  \E x \in T : \A y \in T : x <= y
<1>1. PICK R : R = OpToRel(<, Nat) OBVIOUS
<1>2. IsWellFoundedOn(R, Nat) BY <1>1, NatLessThanWellFounded
<1>3. PICK x \in T : \A y \in T : <<y, x>> \notin R BY <1>2, WFMin
<1>4. \A y \in T : ~(y < x) BY <1>1, <1>3 DEF OpToRel
<1> QED BY <1>3, <1>4

\* A solution of the recursion up to k.
Solution(f, k, V, x0, step) ==
  f \in [0..k -> V] /\ f[0] = x0 /\ \A i \in 1..k : f[i] = step[i][f[i - 1]]

\* A recursion over the first numbers has a solution.
LEMMA Recursion ==
  ASSUME NEW n \in Nat, NEW V, NEW x0 \in V, NEW step \in [1..n -> [V -> V]]
  PROVE  \E f : Solution(f, n, V, x0, step)
<1>0. PICK Bad : Bad = {k \in 0..n : ~\E f : Solution(f, k, V, x0, step)} OBVIOUS
<1>1. ASSUME NEW k \in Bad, \A l \in Bad : k <= l PROVE FALSE
  <2>1. k \in 0..n BY <1>0
  <2>2. CASE k = 0
    <3>1. PICK f : f = [i \in 0..0 |-> x0] OBVIOUS
    <3>2. Solution(f, 0, V, x0, step) BY <3>1 DEF Solution
    <3> QED BY <1>0, <2>2, <3>2
  <2>3. CASE k > 0
    <3>1. k - 1 \in 0..n /\ k - 1 \notin Bad BY <1>1, <2>1, <2>3
    <3>2. PICK g : Solution(g, k - 1, V, x0, step) BY <1>0, <3>1
    <3>3. PICK f : f = [i \in 0..k |-> IF i = k THEN step[k][g[k - 1]] ELSE g[i]] OBVIOUS
    <3>4. g \in [0..(k - 1) -> V] /\ k \in 1..n BY <2>1, <2>3, <3>2 DEF Solution
    <3>5. step[k] \in [V -> V] /\ g[k - 1] \in V BY <2>1, <3>4
    <3>6. step[k][g[k - 1]] \in V BY <3>5
    <3>7. f \in [0..k -> V]
      <4>1. \A i \in 0..k : i # k => i \in 0..(k - 1) BY <2>1
      <4> QED BY <3>3, <3>4, <3>6, <4>1
    <3>8. f[0] = x0 BY <2>1, <2>3, <3>2, <3>3 DEF Solution
    <3>9. ASSUME NEW i \in 1..k PROVE f[i] = step[i][f[i - 1]]
      <4>1. i - 1 \in 0..k /\ i - 1 # k BY <2>1
      <4>2. f[i - 1] = g[i - 1] BY <3>3, <4>1
      <4>3. CASE i = k BY <2>1, <3>3, <4>2, <4>3
      <4>4. CASE i # k
        <5>1. i \in 1..(k - 1) /\ i \in 0..k BY <2>1, <4>4
        <5>2. f[i] = g[i] BY <3>3, <4>4, <5>1
        <5>3. g[i] = step[i][g[i - 1]] BY <3>2, <5>1 DEF Solution
        <5> QED BY <4>2, <5>2, <5>3
      <4> QED BY <4>3, <4>4
    <3>10. Solution(f, k, V, x0, step) BY <3>7, <3>8, <3>9 DEF Solution
    <3> QED BY <3>10, <1>0
  <2> QED BY <2>1, <2>2, <2>3
<1>2. Bad = {}
  <2> SUFFICES ASSUME Bad # {} PROVE FALSE OBVIOUS
  <2>1. Bad \in SUBSET Nat BY <1>0
  <2>2. \E x \in Bad : \A y \in Bad : x <= y BY ONLY Bad # {}, <2>1, Least
  <2> QED BY ONLY <1>1, <2>2
<1> QED BY <1>0, <1>2

\* A younger store decides the bytes it covers and no others.
LEMMA NewestAdd ==
  ASSUME NEW S, NEW s, \A u \in S \cup {s} : u.id \in Int, \A u \in S : u.id < s.id, NEW b
  PROVE  NewestByte(S \cup {s}, b) =
           IF b \in Span(s.addr, s.size) THEN <<s.id, b - s.addr>> ELSE NewestByte(S, b)
<1>1. PICK over : over = {u \in S \cup {s} : b \in Span(u.addr, u.size)} OBVIOUS
<1>2. CASE b \in Span(s.addr, s.size)
  <2>1. s \in over /\ \A u \in over : u.id <= s.id BY <1>1, <1>2
  <2>2. \A v \in over : (\A u \in over : u.id <= v.id) => v = s
    <3> SUFFICES ASSUME NEW v \in over, s.id <= v.id, v # s PROVE FALSE BY <2>1
    <3>1. v.id < s.id /\ v.id \in Int /\ s.id \in Int BY <1>1
    <3> QED BY <3>1
  <2>3. Youngest(over) = s BY ONLY <2>1, <2>2 DEF Youngest
  <2>4. NewestByte(S \cup {s}, b) =
          IF over = {} THEN Zero ELSE <<Youngest(over).id, b - Youngest(over).addr>>
    BY ONLY <1>1 DEF NewestByte
  <2> QED BY ONLY <1>2, <2>1, <2>3, <2>4
<1>3. CASE b \notin Span(s.addr, s.size)
  <2>1. over = {u \in S : b \in Span(u.addr, u.size)} BY <1>1, <1>3
  <2> QED BY <1>1, <1>3, <2>1 DEF NewestByte
<1> QED BY <1>2, <1>3

\* Requests in program order, all younger than the stores of S.
Follows(reqs, n, S) ==
  /\ \A i \in 1..n : reqs[i] \in Entry
  /\ \A i, j \in 1..n : i < j => reqs[i].id < reqs[j].id
  /\ \A u \in S : u.id \in Int /\ \A i \in 1..n : u.id < reqs[i].id

\* f[k] is byte b after the first k requests are laid one over the other.
Lays(f, n, S, t, b) ==
  /\ f[0] = NewestByte(S, b)
  /\ \A i \in 1..n : f[i] = IF b \in Span(t[i].addr, t[i].size)
                          THEN <<t[i].id, b - t[i].addr>> ELSE f[i - 1]
Newest(v, n, S, t, b) == v = NewestByte(S \cup {t[i] : i \in 1..n}, b)

\* The stores t[1] to t[n], laid one over the other in program order over what
\* the older ones of S left, leave the newest byte of all of them.
LEMMA Overlay ==
  ASSUME NEW n \in Nat, NEW S, NEW t, NEW b, NEW f, Follows(t, n, S), Lays(f, n, S, t, b)
  PROVE  Newest(f[n], n, S, t, b)
<1> DEFINE Upto(k) == S \cup {t[i] : i \in 1..k}
<1>0. PICK Bad : Bad = {k \in 0..n : f[k] # NewestByte(Upto(k), b)} OBVIOUS
<1>1. /\ \A u \in S : u.id \in Int /\ \A i \in 1..n : u.id < t[i].id
      /\ \A i \in 1..n : t[i].id \in Int
      /\ \A i, j \in 1..n : i < j => t[i].id < t[j].id
  BY DEF Follows, Entry
<1>2. ASSUME NEW k \in Bad, \A l \in Bad : k <= l PROVE FALSE
  <2>1. k \in 0..n /\ f[k] # NewestByte(Upto(k), b) BY <1>0
  <2>2. CASE k = 0
    <3>1. Upto(0) = S OBVIOUS
    <3> QED BY <2>1, <2>2, <3>1 DEF Lays
  <2>3. CASE k > 0
    <3>1. k - 1 \in 0..n /\ k - 1 \notin Bad /\ k \in 1..n BY <1>2, <2>1, <2>3
    <3>2. f[k - 1] = NewestByte(Upto(k - 1), b) BY <1>0, <3>1
    <3>3. Upto(k) = Upto(k - 1) \cup {t[k]}
      <4>1. \A i : i \in 1..k <=> i \in 1..(k - 1) \/ i = k BY <3>1
      <4> QED BY <4>1
    <3>4. \A u \in Upto(k - 1) : u.id < t[k].id /\ u.id \in Int
      <4>1. \A i \in 1..(k - 1) : i \in 1..n /\ i < k BY <3>1
      <4> QED BY <1>1, <3>1, <4>1
    <3> HIDE DEF Upto
    <3>5. NewestByte(Upto(k), b) = IF b \in Span(t[k].addr, t[k].size)
                                   THEN <<t[k].id, b - t[k].addr>> ELSE NewestByte(Upto(k - 1), b)
      <4>1. PICK T, s : T = Upto(k - 1) /\ s = t[k] OBVIOUS
      <4>2. s.id \in Int BY <1>1, <3>1, <4>1
      <4> QED BY ONLY <3>3, <3>4, <4>1, <4>2, NewestAdd
    <3> QED BY <2>1, <3>1, <3>2, <3>5 DEF Lays
  <2> QED BY <2>1, <2>2, <2>3
<1>3. Bad = {}
  <2> SUFFICES ASSUME Bad # {} PROVE FALSE OBVIOUS
  <2>1. Bad \in SUBSET Nat BY <1>0
  <2>2. \E x \in Bad : \A y \in Bad : x <= y BY ONLY Bad # {}, <2>1, Least
  <2> QED BY ONLY <1>2, <2>2
<1> QED BY <1>0, <1>3 DEF Newest

\* The tests of LoadData, one for each size, find the bytes that the store and
\* the line have in common.
LEMMA CoveredIs ==
  ASSUME NEW size \in {1, 2, 4, 8}, NEW offset \in Int, NEW j \in 0..7
  PROVE  j \in Covered(size, offset) <=> j \in Span(offset, size)
<1>1. size \in 1..8 OBVIOUS
<1> QED BY <1>1 DEF Covered, Span

\* Byte j of the line at address a is byte b of memory.
LEMMA CoveredAt ==
  ASSUME NEW size \in {1, 2, 4, 8}, NEW addr \in Int, NEW a \in Int, NEW j \in 0..7,
         NEW b, b = a + j
  PROVE  j \in Covered(size, addr - a) <=> b \in Span(addr, size)
<1>1. j \in Covered(size, addr - a) <=> j \in Span(addr - a, size) BY CoveredIs
<1>2. size \in Int /\ j \in Int OBVIOUS
<1>3. j \in (addr - a)..(addr - a + size - 1) <=> b \in addr..(addr + size - 1) BY <1>2
<1> QED BY <1>1, <1>3 DEF Span

\* The bytes kept in memory are those that the stores of S left.
Holds(m, S) == m \in [ADDR -> Byte] /\ \A b \in ADDR : m[b] = NewestByte(S, b)

\* The requests of a sequence.
Held(reqs) == {reqs[i] : i \in 1..Len(reqs)}

\* Byte j of the line at address a, laid over memory, is the newest one.
LoadGets(m, S, reqs, a, j) == LoadData(m, reqs, a)[j] = NewestByte(S \cup Held(reqs), a + j)

\* A load gets the newest byte of the stores that made the memory and of those
\* that are buffered.
LEMMA LoadDataIs ==
  ASSUME NEW m, NEW S, Holds(m, S), NEW buf, Len(buf) \in Nat, Follows(buf, Len(buf), S),
         NEW a \in Int, NEW j \in 0..7, a + j \in ADDR
  PROVE  LoadGets(m, S, buf, a, j)
<1> DEFINE Line(f) ==
      [i \in 0..Len(buf) |->
         IF i = 0 THEN [l \in 0..7 |-> IF a + l \in ADDR THEN m[a + l] ELSE Zero]
         ELSE LET s == buf[i] IN
              [l \in 0..7 |-> IF l \in Covered(s.size, s.addr - a)
                              THEN <<s.id, l - (s.addr - a)>> ELSE f[i - 1][l]]]
<1>1. PICK n : n = Len(buf) OBVIOUS
<1>2. PICK V : V = [0..7 -> Byte] OBVIOUS
<1>3. PICK x0 : x0 = [l \in 0..7 |-> IF a + l \in ADDR THEN m[a + l] ELSE Zero] OBVIOUS
<1>4. x0 \in V
  <2>1. Zero \in Byte BY DEF Zero, Byte
  <2>2. \A l \in 0..7 : (IF a + l \in ADDR THEN m[a + l] ELSE Zero) \in Byte BY <2>1 DEF Holds
  <2> QED BY <1>2, <1>3, <2>2
<1>5. PICK step : step = [i \in 1..n |-> [v \in V |-> [l \in 0..7 |->
        IF l \in Covered(buf[i].size, buf[i].addr - a)
        THEN <<buf[i].id, l - (buf[i].addr - a)>> ELSE v[l]]]]
  OBVIOUS
<1>6. step \in [1..n -> [V -> V]]
  <2>1. ASSUME NEW i \in 1..n, NEW v \in V, NEW l \in 0..7
        PROVE  (IF l \in Covered(buf[i].size, buf[i].addr - a)
                THEN <<buf[i].id, l - (buf[i].addr - a)>> ELSE v[l]) \in Byte
    <3>1. buf[i].id \in Int /\ buf[i].addr \in Int BY <1>1 DEF Follows, Entry
    <3>2. <<buf[i].id, l - (buf[i].addr - a)>> \in Byte
      <4>1. PICK x, y : x = buf[i].id /\ y = l - (buf[i].addr - a) OBVIOUS
      <4>2. x \in Int /\ y \in Int BY <3>1, <4>1
      <4> QED BY ONLY <4>1, <4>2 DEF Byte
    <3>3. v[l] \in Byte BY <1>2
    <3> QED BY <3>2, <3>3
  <2>2. \A i \in 1..n : \A v \in V : step[i][v] = [l \in 0..7 |->
          IF l \in Covered(buf[i].size, buf[i].addr - a)
          THEN <<buf[i].id, l - (buf[i].addr - a)>> ELSE v[l]]
    BY <1>5
  <2>3. ASSUME NEW i \in 1..n, NEW v \in V PROVE step[i][v] \in V
    <3>1. PICK w : w = [l \in 0..7 |->
            IF l \in Covered(buf[i].size, buf[i].addr - a)
            THEN <<buf[i].id, l - (buf[i].addr - a)>> ELSE v[l]]
      OBVIOUS
    <3>2. \A l \in 0..7 : w[l] \in Byte BY <2>1, <3>1
    <3>3. w = [l \in 0..7 |-> w[l]] BY <3>1
    <3>4. w \in V BY <1>2, <3>2, <3>3
    <3> QED BY <2>2, <3>1, <3>4
  <2>4. \A i \in 1..n : step[i] = [v \in V |-> step[i][v]] BY <1>5
  <2>5. \A i \in 1..n : step[i] \in [V -> V] BY <2>3, <2>4
  <2> QED BY <1>5, <2>5
<1>7. PICK g : Solution(g, n, V, x0, step) BY <1>1, <1>4, <1>6, Recursion
<1>8. g = Line(g)
  <2>1. g \in [0..n -> V] /\ g[0] = x0 /\ \A i \in 1..n : g[i] = step[i][g[i - 1]] BY <1>7 DEF Solution
  <2>2. ASSUME NEW i \in 0..n PROVE g[i] = Line(g)[i]
    <3>1. CASE i = 0 BY <1>1, <1>3, <2>1, <3>1
    <3>2. CASE i # 0
      <4>1. i \in 1..n /\ i - 1 \in 0..n BY <1>1, <3>2
      <4>2. g[i - 1] \in V BY <2>1, <4>1
      <4> QED BY <1>1, <1>5, <2>1, <3>2, <4>1, <4>2
    <3> QED BY <3>1, <3>2
  <2> QED BY <1>1, <2>1, <2>2
<1>9. PICK line : line = CHOOSE f : f = Line(f) OBVIOUS
<1>10. line = Line(line) BY <1>8, <1>9
<1>11. LoadData(m, buf, a) = line[n] BY <1>1, <1>9 DEF LoadData
<1>12. PICK f : f = [i \in 0..n |-> line[i][j]] OBVIOUS
<1>0. PICK b : b = a + j /\ b \in Int OBVIOUS
<1>13. f[0] = NewestByte(S, b)
  <2>1. line[0] = [l \in 0..7 |-> IF a + l \in ADDR THEN m[a + l] ELSE Zero] BY <1>1, <1>10
  <2>2. line[0][j] = m[b] BY <1>0, <2>1
  <2>3. f[0] = line[0][j] BY <1>1, <1>12
  <2> QED BY <1>0, <2>2, <2>3 DEF Holds
<1>14. ASSUME NEW i \in 1..n
       PROVE  f[i] = IF b \in Span(buf[i].addr, buf[i].size)
                     THEN <<buf[i].id, b - buf[i].addr>> ELSE f[i - 1]
  <2>1. buf[i].addr \in Int /\ buf[i].size \in {1, 2, 4, 8} BY <1>1 DEF Follows, Entry
  <2>2. line[i][j] = IF j \in Covered(buf[i].size, buf[i].addr - a)
                     THEN <<buf[i].id, j - (buf[i].addr - a)>> ELSE line[i - 1][j]
    <3>1. i \in 0..n /\ i # 0 BY <1>1
    <3>2. line[i] = Line(line)[i] BY <1>10
    <3> QED BY <1>1, <3>1, <3>2
  <2>3. f[i] = line[i][j] /\ f[i - 1] = line[i - 1][j]
    <3>1. i \in 0..n /\ i - 1 \in 0..n BY <1>1
    <3> QED BY <1>12, <3>1
  <2>4. j \in Covered(buf[i].size, buf[i].addr - a) <=> b \in Span(buf[i].addr, buf[i].size)
    BY ONLY <1>0, <2>1, CoveredAt, a \in Int, j \in 0..7
  <2>5. j - (buf[i].addr - a) = b - buf[i].addr BY <1>0, <2>1
  <2> QED BY ONLY <2>2, <2>3, <2>4, <2>5
<1>15. Lays(f, n, S, buf, b) BY <1>13, <1>14 DEF Lays
<1>16. Follows(buf, n, S) /\ n \in Nat BY <1>1
<1>17. Newest(f[n], n, S, buf, b) BY ONLY <1>15, <1>16, Overlay
<1>18. f[n] = line[n][j] BY <1>1, <1>12
<1>19. Held(buf) = {buf[i] : i \in 1..n} BY <1>1 DEF Held
<1> QED BY ONLY <1>0, <1>11, <1>17, <1>18, <1>19 DEF LoadGets, Newest

\* Stores committed one after the other leave the newest byte of all.
LEMMA WrittenIs ==
  ASSUME NEW m, NEW S, Holds(m, S), NEW reqs, Len(reqs) \in Nat, Follows(reqs, Len(reqs), S)
  PROVE  Holds(Written(m, reqs), S \cup Held(reqs))
<1> DEFINE After(f) ==
      [i \in 0..Len(reqs) |-> IF i = 0 THEN m ELSE write_transaction(f[i - 1], reqs[i])]
<1>1. PICK n : n = Len(reqs) OBVIOUS
<1>2. PICK V : V = [ADDR -> Byte] OBVIOUS
<1>3. m \in V BY <1>2 DEF Holds
<1>4. PICK step : step = [i \in 1..n |-> [v \in V |-> write_transaction(v, reqs[i])]] OBVIOUS
<1>5. ASSUME NEW i \in 1..n, NEW v \in V
      PROVE  /\ write_transaction(v, reqs[i]) \in V
             /\ \A b \in ADDR : write_transaction(v, reqs[i])[b] =
                  IF b \in Span(reqs[i].addr, reqs[i].size)
                  THEN <<reqs[i].id, b - reqs[i].addr>> ELSE v[b]
  <2>1. reqs[i].id \in Int /\ reqs[i].addr \in Int /\ reqs[i].size \in {1, 2, 4, 8}
    BY <1>1 DEF Follows, Entry
  <2>2. \A b \in ADDR : b \in Int BY StoreBufferAssumption
  <2>3. CASE reqs[i].addr = CONSOLE_ADDR
    <3>1. \A b \in ADDR : b \notin Span(reqs[i].addr, reqs[i].size)
      BY <2>1, <2>2, <2>3, StoreBufferAssumption DEF Span
    <3> QED BY <2>3, <3>1 DEF write_transaction
  <2>4. CASE reqs[i].addr # CONSOLE_ADDR
    <3>1. write_transaction(v, reqs[i]) =
            [b \in ADDR |-> IF b \in Span(reqs[i].addr, reqs[i].size)
                            THEN <<reqs[i].id, b - reqs[i].addr>> ELSE v[b]]
      BY <2>4 DEF write_transaction
    <3>2. \A b \in ADDR : (IF b \in Span(reqs[i].addr, reqs[i].size)
                           THEN <<reqs[i].id, b - reqs[i].addr>> ELSE v[b]) \in Byte
      BY <1>2, <2>1, <2>2 DEF Byte
    <3> QED BY <1>2, <3>1, <3>2
  <2> QED BY <2>3, <2>4
<1>6. step \in [1..n -> [V -> V]]
  <2>1. \A i \in 1..n : step[i] = [v \in V |-> write_transaction(v, reqs[i])] BY <1>4
  <2>2. ASSUME NEW i \in 1..n PROVE step[i] \in [V -> V]
    <3>1. \A v \in V : write_transaction(v, reqs[i]) \in V BY <1>5
    <3>2. PICK h : h = [v \in V |-> write_transaction(v, reqs[i])] OBVIOUS
    <3>3. h \in [V -> V] BY ONLY <3>1, <3>2
    <3> QED BY <2>1, <3>2, <3>3
  <2> QED BY <1>4, <2>2
<1>7. PICK g : Solution(g, n, V, m, step) BY <1>1, <1>3, <1>6, Recursion
<1>8. /\ g \in [0..n -> V] /\ g[0] = m
      /\ \A i \in 1..n : g[i] = write_transaction(g[i - 1], reqs[i])
  <2>1. g \in [0..n -> V] /\ g[0] = m /\ \A i \in 1..n : g[i] = step[i][g[i - 1]] BY <1>7 DEF Solution
  <2>2. \A i \in 1..n : g[i - 1] \in V
    <3>1. \A i \in 1..n : i - 1 \in 0..n BY <1>1
    <3> QED BY <2>1, <3>1
  <2> QED BY <1>4, <2>1, <2>2
<1>9. g = After(g)
  <2>1. ASSUME NEW i \in 0..n PROVE g[i] = After(g)[i]
    <3>1. i = 0 \/ i \in 1..n BY <1>1
    <3> QED BY <1>1, <1>8, <3>1
  <2> QED BY <1>1, <1>8, <2>1
<1>10. PICK after : after = CHOOSE f : f = After(f) OBVIOUS
<1>11. after = After(after) BY <1>9, <1>10
<1>12. Written(m, reqs) = after[n] BY <1>1, <1>10 DEF Written
<1>13. /\ after[0] = m /\ \A i \in 1..n : after[i] = write_transaction(after[i - 1], reqs[i])
  <2>1. after[0] = m BY <1>1, <1>11
  <2>2. ASSUME NEW i \in 1..n PROVE after[i] = write_transaction(after[i - 1], reqs[i])
    <3>1. i \in 0..Len(reqs) /\ i # 0 BY <1>1
    <3>2. after[i] = After(after)[i] BY <1>11
    <3> QED BY <3>1, <3>2
  <2> QED BY <2>1, <2>2
<1>14. \A k \in 0..n : after[k] \in V
  <2>1. PICK Bad : Bad = {k \in 0..n : after[k] \notin V} OBVIOUS
  <2>2. ASSUME NEW k \in Bad, \A l \in Bad : k <= l PROVE FALSE
    <3>1. k \in 0..n /\ after[k] \notin V BY <2>1
    <3>2. k # 0 BY <1>3, <1>13, <3>1
    <3>3. k \in 1..n /\ k - 1 \in 0..n BY <1>1, <3>1, <3>2
    <3>4. k - 1 \notin Bad BY <1>1, <2>2, <3>1
    <3>5. after[k - 1] \in V BY <2>1, <3>3, <3>4
    <3> QED BY <1>5, <1>13, <3>1, <3>3, <3>5
  <2>3. Bad = {}
    <3> SUFFICES ASSUME Bad # {} PROVE FALSE OBVIOUS
    <3>1. Bad \in SUBSET Nat BY <2>1
    <3>2. \E x \in Bad : \A y \in Bad : x <= y BY ONLY Bad # {}, <3>1, Least
    <3> QED BY ONLY <2>2, <3>2
  <2> QED BY <2>1, <2>3
<1>15. ASSUME NEW b \in ADDR PROVE after[n][b] = NewestByte(S \cup {reqs[i] : i \in 1..n}, b)
  <2>1. PICK f : f = [i \in 0..n |-> after[i][b]] OBVIOUS
  <2>2. f[0] = NewestByte(S, b) BY <1>1, <1>13, <2>1 DEF Holds
  <2>3. ASSUME NEW i \in 1..n
        PROVE  f[i] = IF b \in Span(reqs[i].addr, reqs[i].size)
                      THEN <<reqs[i].id, b - reqs[i].addr>> ELSE f[i - 1]
    <3>1. i \in 0..n /\ i - 1 \in 0..n BY <1>1
    <3>2. after[i - 1] \in V BY <1>14, <3>1
    <3>3. f[i] = after[i][b] /\ f[i - 1] = after[i - 1][b] BY <2>1, <3>1
    <3>4. PICK v \in V : v = after[i - 1] BY <3>2
    <3>5. write_transaction(v, reqs[i])[b] = IF b \in Span(reqs[i].addr, reqs[i].size)
                                             THEN <<reqs[i].id, b - reqs[i].addr>> ELSE v[b]
      BY <1>5
    <3>6. after[i] = write_transaction(v, reqs[i]) BY <1>13, <3>4
    <3> QED BY ONLY <3>3, <3>4, <3>5, <3>6
  <2>4. Lays(f, n, S, reqs, b) BY <2>2, <2>3 DEF Lays
  <2>5. Follows(reqs, n, S) /\ n \in Nat BY <1>1
  <2>6. Newest(f[n], n, S, reqs, b) BY ONLY <2>4, <2>5, Overlay
  <2>7. f[n] = after[n][b] BY <1>1, <2>1
  <2> QED BY ONLY <2>6, <2>7 DEF Newest
<1>16. after[n] \in V BY <1>1, <1>14
<1>17. Held(reqs) = {reqs[i] : i \in 1..n} BY <1>1 DEF Held
<1> QED BY ONLY <1>2, <1>12, <1>15, <1>16, <1>17 DEF Holds

-----------------------------------------------------------------------------
(* The buffer and the path.                                                  *)

\* The places on the path of the executed stores that are not in memory.
Pending == {k \in (told + 1)..Len(path) : path[k].st /\ path[k].id \in Complete}

\* Sequences of requests in program order.
Ordered(reqs) ==
  /\ reqs \in Seq(Entry)
  /\ \A i, j \in 1..Len(reqs) : i < j => reqs[i].id < reqs[j].id

\* The buffer holds every pending store, and behind these, in the cycle after a
\* flush, some that are no longer on the path.
BufferOK ==
  /\ told \in 0..retired /\ (recover => retired = Len(path))
  /\ store_retire = Cardinality({k \in (told + 1)..retired : path[k].st})
  /\ Holds(mem, StoresAt(1..told)) /\ Ordered(buffer)
  /\ \A k \in Pending : \E i \in 1..Len(buffer) : buffer[i] = Request(path[k])
  /\ \A i \in 1..Len(buffer) :
       \/ \E k \in Pending : buffer[i] = Request(path[k])
       \/ recover /\ \A u \in Current : u.id < buffer[i].id

\* A request is a store without the rest of its micro-op.
LEMMA RequestFacts == \A u \in Uop : Request(u) \in Entry /\ Request(u).id = u.id /\ Request(u).addr = u.addr
<1> TAKE u \in Uop
<1>1. PICK i \in 1..MAX_UOP, a \in ACCESSES : u = [id |-> i, st |-> a.st, addr |-> a.addr, size |-> a.size]
  BY DEF Uop
<1>2. a \in [st : BOOLEAN, addr : Int, size : {1, 2, 4, 8}] BY LoadStoreAssumption
<1>3. a.addr \in Int /\ a.size \in {1, 2, 4, 8} BY <1>2
<1>4. i \in Int BY Sizes
<1> QED BY <1>1, <1>3, <1>4 DEF Request, Entry

\* The stores of the path by place.
LEMMA PathPlaces ==
  ASSUME IInv
  PROVE  /\ Len(path) \in Nat /\ retired \in 0..Len(path) /\ retired \in Nat
         /\ \A k \in 1..Len(path) : /\ path[k] \in Current /\ path[k].id \in Int
                                    /\ Request(path[k]) \in Entry /\ Request(path[k]).id = path[k].id
                                    /\ Request(path[k]).addr = path[k].addr
         /\ \A j, k \in 1..Len(path) : path[j].id < path[k].id => j < k
         /\ \A j, k \in 1..Len(path) : path[j].id = path[k].id => j = k
         /\ \A k \in 1..retired : k \in 1..Len(path) /\ path[k].id \in done /\ path[k].id \in Complete
         /\ \A u \in Current : \E k \in 1..Len(path) : u = path[k]
<1>1. /\ Len(path) \in Nat /\ DOMAIN path = 1..Len(path)
      /\ \A k \in 1..Len(path) : path[k] \in Uop /\ path[k].id \in Int
  BY PathFacts DEF IInv
<1>2. retired \in 0..Len(path) /\ retired \in Nat BY <1>1 DEF IInv, TypeOK
<1>3. \A k \in 1..Len(path) : path[k] \in Current BY <1>1 DEF Current
<1>4. ASSUME NEW j \in 1..Len(path), NEW k \in 1..Len(path)
      PROVE  (path[j].id < path[k].id => j < k) /\ (path[j].id = path[k].id => j = k)
  <2>1. path[j].id \in Int /\ path[k].id \in Int BY <1>1
  <2>2. j < k => path[j].id < path[k].id BY DEF IInv, PathOK
  <2>3. k < j => path[k].id < path[j].id BY DEF IInv, PathOK
  <2> QED BY <1>1, <2>1, <2>2, <2>3
<1>5. \A k \in 1..retired : k \in 1..Len(path) /\ path[k].id \in done /\ path[k].id \in Complete
  BY <1>1, <1>2 DEF IInv, PathOK, Complete
<1>6. \A u \in Current : \E k \in 1..Len(path) : u = path[k] BY <1>1 DEF Current
<1> QED BY <1>1, <1>2, <1>3, <1>4, <1>5, <1>6, RequestFacts

\* A set of numbers that holds all below each of its own is an interval.
LEMMA Prefix ==
  ASSUME NEW n \in Nat, NEW I \in SUBSET (1..n), \A i \in I, j \in 1..n : j < i => j \in I
  PROVE  Cardinality(I) \in 0..n /\ I = 1..Cardinality(I)
<1>1. PICK T : T = {i \in 1..(n + 1) : i \notin I} OBVIOUS
<1>2. n + 1 \in T BY <1>1
<1>3. PICK x \in 1..(n + 1) : x \notin I /\ \A y \in T : x <= y
  <2>1. T \in SUBSET Nat BY <1>1
  <2>2. \E z \in T : \A y \in T : z <= y BY ONLY <1>2, <2>1, Least
  <2> QED BY <1>1, <2>2
<1>4. x \in Int /\ 1 <= x /\ x <= n + 1 /\ x \notin I BY <1>3
<1>5. \A i \in 1..n : i \in I <=> i < x
  <2> TAKE i \in 1..n
  <2>1. i < x => i \in I BY <1>1, <1>3, <1>4
  <2>2. i \in I => i < x
    <3> SUFFICES ASSUME i \in I, ~(i < x) PROVE FALSE OBVIOUS
    <3>1. i # x /\ x \in Int BY <1>4
    <3>2. x < i /\ x \in 1..n BY <1>4, <3>1
    <3> QED BY <1>4, <3>2
  <2> QED BY <1>4, <2>1, <2>2
<1>6. I = 1..(x - 1)
  <2>1. \A i : i \in 1..(x - 1) <=> i \in 1..n /\ i < x BY <1>4
  <2>2. \A i : i \in I => i \in 1..n OBVIOUS
  <2> QED BY <1>5, <2>1, <2>2
<1>7. Cardinality(1..(x - 1)) = x - 1
  <2>1. Cardinality(1..(x - 1)) = IF 1 > x - 1 THEN 0 ELSE x - 1 - 1 + 1 BY <1>4, FS_Interval
  <2> QED BY <1>4, <2>1
<1> QED BY <1>4, <1>6, <1>7

\* The first entries of the buffer are the stores that retired and that memory
\* does not have yet, and store_retire says how many these are.
RetiredFirst(n) ==
  /\ n \in 0..Len(buffer) /\ n \in Nat
  /\ \A i \in 1..n : \E k \in (told + 1)..retired : path[k].st /\ buffer[i] = Request(path[k])
  /\ \A k \in (told + 1)..retired : path[k].st => \E i \in 1..n : buffer[i] = Request(path[k])
  /\ \A i \in (n + 1)..Len(buffer), k \in 1..retired : ~(path[k].st /\ buffer[i] = Request(path[k]))

\* The buffer starts with them.
LEMMA RetiredAreFirst ==
  ASSUME IInv, BufferOK
  PROVE  RetiredFirst(store_retire)
<1>1. PICK R : R = {k \in (told + 1)..retired : path[k].st} OBVIOUS
<1>2. PICK I : I = {i \in 1..Len(buffer) : \E k \in R : buffer[i] = Request(path[k])} OBVIOUS
<1>3. /\ told \in 0..retired /\ told \in Nat /\ retired \in Nat /\ Len(path) \in Nat /\ retired <= Len(path)
      /\ Len(buffer) \in Nat
      /\ \A i \in 1..Len(buffer) : buffer[i] \in Entry /\ buffer[i].id \in Int
      /\ \A i, j \in 1..Len(buffer) : i < j => buffer[i].id < buffer[j].id
  <2>1. \A i \in 1..Len(buffer) : buffer[i] \in Entry BY DEF BufferOK, Ordered
  <2>2. \A i \in 1..Len(buffer) : buffer[i].id \in Int BY <2>1 DEF Entry
  <2>3. told \in 0..retired BY DEF BufferOK
  <2>4. retired \in Nat /\ Len(path) \in Nat /\ retired <= Len(path) BY PathPlaces
  <2>5. Len(buffer) \in Nat BY DEF BufferOK, Ordered
  <2> QED BY <2>1, <2>2, <2>3, <2>4, <2>5 DEF BufferOK, Ordered
<1>4. \A k \in R : k \in Pending /\ k \in 1..Len(path) /\ k \in 1..retired
  <2> TAKE k \in R
  <2>1. k \in (told + 1)..retired /\ path[k].st BY <1>1
  <2>2. k \in 1..retired /\ k \in (told + 1)..Len(path) BY <1>3, <2>1
  <2> QED BY <2>1, <2>2, PathPlaces DEF Pending
<1>5. \A k \in Pending : k \in 1..Len(path) /\ path[k].st /\ (k <= retired => k \in R)
  <2> TAKE k \in Pending
  <2>1. k \in (told + 1)..Len(path) /\ path[k].st BY DEF Pending
  <2> QED BY <1>1, <1>3, <2>1
<1>6. \A i \in I, j \in 1..Len(buffer) : j < i => j \in I
  <2> SUFFICES ASSUME NEW i \in I, NEW j \in 1..Len(buffer), j < i PROVE j \in I OBVIOUS
  <2>1. PICK k \in R : buffer[i] = Request(path[k]) /\ i \in 1..Len(buffer) BY <1>2
  <2>2. buffer[j].id < path[k].id BY <1>3, <1>4, <2>1, PathPlaces
  <2>3. path[k] \in Current /\ path[k].id \in Int /\ buffer[j].id \in Int BY <1>3, <1>4, PathPlaces
  <2>4. PICK l \in Pending : buffer[j] = Request(path[l])
    <3>1. ~(path[k].id < buffer[j].id) BY <2>2, <2>3
    <3> QED BY <2>3, <3>1 DEF BufferOK
  <2>5. l < k BY <1>4, <1>5, <2>2, <2>4, PathPlaces
  <2>6. l <= retired BY <1>3, <1>4, <1>5, <2>5
  <2> QED BY <1>2, <1>5, <2>4, <2>6
<1>7. Cardinality(I) \in 0..Len(buffer) /\ I = 1..Cardinality(I)
  <2>1. I \in SUBSET (1..Len(buffer)) BY <1>2
  <2> QED BY ONLY <1>3, <1>6, <2>1, Prefix
<1>8. Cardinality(R) = Cardinality(I)
  <2>1. \A k \in R : \E i \in I : buffer[i] = Request(path[k]) BY <1>2, <1>4 DEF BufferOK
  <2>2. PICK f : f = [k \in R |-> CHOOSE i \in I : buffer[i] = Request(path[k])] OBVIOUS
  <2>3. \A k \in R : f[k] \in I /\ buffer[f[k]] = Request(path[k]) BY <2>1, <2>2
  <2>4. f \in [R -> I] BY <2>2, <2>3
  <2>5. \A j, k \in R : f[j] = f[k] => j = k BY <1>4, <2>3, PathPlaces
  <2>6. \A i \in I : \E k \in R : f[k] = i
    <3> TAKE i \in I
    <3>1. PICK k \in R : buffer[i] = Request(path[k]) BY <1>2
    <3>2. buffer[f[k]].id = buffer[i].id /\ f[k] \in 1..Len(buffer) /\ i \in 1..Len(buffer)
      BY <1>2, <2>3, <3>1
    <3>3. f[k] = i
      <4>1. f[k] < i \/ i < f[k] \/ f[k] = i BY <3>2
      <4> QED BY <1>3, <3>2, <4>1
    <3> QED BY <3>3
  <2>7. f \in Bijection(R, I) BY <2>4, <2>5, <2>6 DEF Bijection, Injection, Surjection, IsInjective
  <2>8. ExistsBijection(R, I) BY <2>7 DEF ExistsBijection
  <2>9. IsFiniteSet(R)
    <3>1. IsFiniteSet(1..retired) BY <1>3, FS_Interval
    <3>2. R \subseteq 1..retired BY <1>4
    <3> QED BY <3>1, <3>2, FS_Subset
  <2> QED BY <2>8, <2>9, FS_Bijection
<1>9. store_retire = Cardinality(I) BY <1>1, <1>8 DEF BufferOK
<1>10. \A i \in 1..store_retire : \E k \in (told + 1)..retired : path[k].st /\ buffer[i] = Request(path[k])
  BY <1>1, <1>2, <1>7, <1>9
<1>11. \A k \in (told + 1)..retired : path[k].st => \E i \in 1..store_retire : buffer[i] = Request(path[k])
  <2> SUFFICES ASSUME NEW k \in (told + 1)..retired, path[k].st
               PROVE  \E i \in 1..store_retire : buffer[i] = Request(path[k])
    OBVIOUS
  <2>1. k \in R BY <1>1
  <2>2. PICK i \in 1..Len(buffer) : buffer[i] = Request(path[k]) BY <1>4, <2>1 DEF BufferOK
  <2> QED BY <1>2, <1>7, <1>9, <2>1, <2>2
<1>12. ASSUME NEW i \in (store_retire + 1)..Len(buffer), NEW k \in 1..retired,
              path[k].st, buffer[i] = Request(path[k])
       PROVE  FALSE
  <2>0. i \in 1..Len(buffer) /\ i \notin I BY <1>3, <1>7, <1>9
  <2>1. k \in 1..Len(path) /\ path[k] \in Current /\ buffer[i].id = path[k].id /\ path[k].id \in Int
    BY <1>12, PathPlaces
  <2>2. ~(path[k].id < buffer[i].id) BY <2>1
  <2>3. PICK l \in Pending : buffer[i] = Request(path[l]) BY <2>0, <2>1, <2>2 DEF BufferOK
  <2>4. l = k
    <3>1. l \in 1..Len(path) /\ buffer[i].id = path[l].id BY <1>5, <2>3, PathPlaces
    <3>2. path[l].id = path[k].id BY ONLY <2>1, <3>1
    <3> QED BY <2>1, <3>1, <3>2, PathPlaces
  <2>5. l \in R BY <1>3, <1>5, <2>4
  <2> QED BY <1>2, <2>0, <2>3, <2>5
<1> QED BY <1>3, <1>7, <1>9, <1>10, <1>11, <1>12 DEF RetiredFirst

\* The outcome c of committing n stores: the harness goes on, or one of them
\* asks it to stop.
CommitsTo(c, m, buf, n) ==
  /\ c.stop => \E k \in 1..n : buf[k].addr = HALT_ADDR
  /\ ~c.stop => c.mem = Written(m, SubSeq(buf, 1, n)) /\ c.buffer = SubSeq(buf, n + 1, Len(buf))

\* Committing no more than the buffer holds has such an outcome.
LEMMA CommitIs ==
  ASSUME NEW m, NEW buf, Len(buf) \in Nat, NEW n \in Nat, n <= Len(buf),
         NEW c, c = CommitStoreRequest(m, buf, n)
  PROVE  CommitsTo(c, m, buf, n)
<1>1. ~(n > Len(buf)) OBVIOUS
<1>2. PICK halts : halts = {k \in 1..n : buf[k].addr = HALT_ADDR} OBVIOUS
<1>3. {k \in 1..n : ~(n > Len(buf)) /\ buf[k].addr = HALT_ADDR} = halts BY <1>1, <1>2
<1>4. c.stop <=> halts # {} BY <1>1, <1>3 DEF CommitStoreRequest
<1>5. CASE halts = {}
  <2>1. c.mem = Written(m, SubSeq(buf, 1, n)) /\ c.buffer = SubSeq(buf, n + 1, Len(buf))
    BY <1>1, <1>3, <1>5 DEF CommitStoreRequest
  <2> QED BY <1>4, <1>5, <2>1 DEF CommitsTo
<1>6. CASE halts # {} BY <1>2, <1>4, <1>6 DEF CommitsTo
<1> QED BY <1>5, <1>6

\* The part of a sequence from place n + 1 on.
LEMMA RestOf ==
  ASSUME NEW S, NEW s \in Seq(S), NEW n \in 0..Len(s)
  PROVE  /\ SubSeq(s, n + 1, Len(s)) \in Seq(S) /\ Len(SubSeq(s, n + 1, Len(s))) = Len(s) - n
         /\ \A i \in 1..(Len(s) - n) : SubSeq(s, n + 1, Len(s))[i] = s[n + i]
<1>0. Len(s) \in Nat /\ n \in Nat /\ n <= Len(s) OBVIOUS
<1>1. \A i \in (n + 1)..Len(s) : s[i] \in S BY <1>0
<1>2. PICK a, b : a = n + 1 /\ b = Len(s) OBVIOUS
<1>3. a \in 1..(Len(s) + 1) /\ b \in Nat /\ a <= b + 1 BY <1>0, <1>2
<1>4. /\ SubSeq(s, a, b) \in Seq(S) /\ Len(SubSeq(s, a, b)) = IF a <= b THEN b - a + 1 ELSE 0
      /\ \A i \in 1..(b - a + 1) : SubSeq(s, a, b)[i] = s[a + i - 1]
  BY <1>1, <1>2, <1>3, SubSeqProperties
<1>5. b - a + 1 = Len(s) - n /\ (IF a <= b THEN b - a + 1 ELSE 0) = Len(s) - n
      /\ \A i \in 1..(Len(s) - n) : a + i - 1 = n + i
  BY <1>0, <1>2
<1>6. PICK r : r = SubSeq(s, a, b) OBVIOUS
<1>7. r \in Seq(S) /\ Len(r) = Len(s) - n /\ \A i \in 1..(Len(s) - n) : r[i] = s[n + i]
  BY ONLY <1>4, <1>5, <1>6
<1> QED BY ONLY <1>2, <1>6, <1>7

\* The stores at some places, by place.
LEMMA StoresAtIs ==
  ASSUME NEW K
  PROVE  \A r : r \in StoresAt(K) <=> \E k \in K : path[k].st /\ r = Request(path[k])
BY DEF StoresAt

\* Memory after the stores of this cycle are committed, if the harness goes on.
LEMMA CommittedIs ==
  ASSUME IInv, BufferOK
  PROVE  /\ Committed.stop => \E k \in 1..retired : path[k].st /\ path[k].addr = HALT_ADDR
         /\ ~Committed.stop => /\ Holds(Committed.mem, StoresAt(1..retired))
                               /\ Committed.buffer = SubSeq(buffer, store_retire + 1, Len(buffer))
<1>1. PICK n : n = store_retire OBVIOUS
<1>2. RetiredFirst(n) BY <1>1, RetiredAreFirst
<1>3. n \in 0..Len(buffer) /\ n \in Nat /\ n <= Len(buffer) /\ Len(buffer) \in Nat
      /\ told \in 0..retired /\ told \in Nat /\ retired \in Nat
  <2>1. Len(buffer) \in Nat BY DEF BufferOK, Ordered
  <2>2. retired \in Nat /\ told \in 0..retired BY PathPlaces DEF BufferOK
  <2> QED BY <1>2, <2>1, <2>2 DEF RetiredFirst
<1>4. /\ Committed.stop => \E k \in 1..n : buffer[k].addr = HALT_ADDR
      /\ ~Committed.stop => /\ Committed.mem = Written(mem, SubSeq(buffer, 1, n))
                            /\ Committed.buffer = SubSeq(buffer, n + 1, Len(buffer))
  <2>1. PICK c, m, b : c = Committed /\ m = mem /\ b = buffer OBVIOUS
  <2>2. c = CommitStoreRequest(m, b, n) BY <1>1, <2>1 DEF Committed
  <2>3. Len(b) \in Nat /\ n <= Len(b) /\ n \in Nat BY <1>3, <2>1
  <2>4. CommitsTo(c, m, b, n) BY ONLY <2>2, <2>3, CommitIs
  <2> QED BY ONLY <2>1, <2>4 DEF CommitsTo
<1>5. \A k \in (told + 1)..retired : k \in 1..retired BY <1>3
<1>6. Committed.stop => \E k \in 1..retired : path[k].st /\ path[k].addr = HALT_ADDR
  <2> SUFFICES ASSUME NEW i \in 1..n, buffer[i].addr = HALT_ADDR
               PROVE  \E k \in 1..retired : path[k].st /\ path[k].addr = HALT_ADDR
    BY <1>4
  <2>1. PICK k \in (told + 1)..retired : path[k].st /\ buffer[i] = Request(path[k]) BY <1>2 DEF RetiredFirst
  <2> QED BY <1>5, <2>1, PathPlaces
<1>7. PICK reqs : reqs = SubSeq(buffer, 1, n) OBVIOUS
<1>8. Len(reqs) = n /\ \A i \in 1..n : reqs[i] = buffer[i] /\ i \in 1..Len(buffer)
  <2>1. \A i \in 1..n : buffer[i] \in Entry /\ i \in 1..Len(buffer) BY <1>3 DEF BufferOK, Ordered
  <2> QED BY ONLY <1>3, <1>7, <2>1, FirstOf
<1>9. Follows(reqs, n, StoresAt(1..told))
  <2>1. \A i \in 1..n : reqs[i] \in Entry BY <1>8 DEF BufferOK, Ordered
  <2>2. \A i, j \in 1..n : i < j => reqs[i].id < reqs[j].id BY <1>8 DEF BufferOK, Ordered
  <2>3. ASSUME NEW u \in StoresAt(1..told) PROVE u.id \in Int /\ \A i \in 1..n : u.id < reqs[i].id
    <3>1. PICK k \in 1..told : u = Request(path[k]) BY StoresAtIs
    <3>2. k \in 1..Len(path) /\ u.id = path[k].id /\ u.id \in Int
      <4>1. k \in 1..retired BY <1>3
      <4> QED BY <3>1, <4>1, PathPlaces
    <3>3. ASSUME NEW i \in 1..n PROVE u.id < reqs[i].id
      <4>1. PICK l \in (told + 1)..retired : buffer[i] = Request(path[l]) BY <1>2 DEF RetiredFirst
      <4>2. l \in 1..Len(path) /\ reqs[i].id = path[l].id /\ k < l BY <1>3, <1>5, <1>8, <4>1, PathPlaces
      <4> QED BY <3>2, <4>2 DEF IInv, PathOK
    <3> QED BY <3>2, <3>3
  <2> QED BY <2>1, <2>2, <2>3 DEF Follows
<1>10. StoresAt(1..told) \cup {reqs[i] : i \in 1..n} = StoresAt(1..retired)
  <2>1. ASSUME NEW r \in StoresAt(1..told) PROVE r \in StoresAt(1..retired)
    <3>1. PICK k \in 1..told : path[k].st /\ r = Request(path[k]) BY StoresAtIs
    <3>2. k \in 1..retired BY <1>3
    <3> QED BY <3>1, <3>2, StoresAtIs
  <2>2. ASSUME NEW i \in 1..n PROVE reqs[i] \in StoresAt(1..retired)
    <3>1. PICK k \in (told + 1)..retired : path[k].st /\ buffer[i] = Request(path[k])
      BY <1>2 DEF RetiredFirst
    <3> QED BY <1>5, <1>8, <3>1, StoresAtIs
  <2>3. ASSUME NEW r \in StoresAt(1..retired), r \notin StoresAt(1..told) PROVE \E i \in 1..n : r = reqs[i]
    <3>1. PICK k \in 1..retired : path[k].st /\ r = Request(path[k]) BY <2>3, StoresAtIs
    <3>2. k \notin 1..told BY <2>3, <3>1, StoresAtIs
    <3>3. k \in (told + 1)..retired BY <1>3, <3>2
    <3>4. PICK i \in 1..n : buffer[i] = Request(path[k]) BY <1>2, <3>1, <3>3 DEF RetiredFirst
    <3> QED BY <1>8, <3>1, <3>4
  <2> QED BY <2>1, <2>2, <2>3
<1>11. Holds(Written(mem, reqs), StoresAt(1..retired))
  <2>1. Holds(mem, StoresAt(1..told)) BY DEF BufferOK
  <2>2. Holds(Written(mem, reqs), StoresAt(1..told) \cup Held(reqs))
    BY <1>3, <1>8, <1>9, <2>1, WrittenIs
  <2>3. Held(reqs) = {reqs[i] : i \in 1..n} BY <1>8 DEF Held
  <2> QED BY <1>10, <2>2, <2>3
<1> QED BY <1>1, <1>4, <1>6, <1>7, <1>11

\* What the buffer holds besides, without what a flush throws away: the pending
\* stores that have not retired.
Remaining(reqs) ==
  /\ Ordered(reqs)
  /\ \A k \in Pending : k > retired => \E i \in 1..Len(reqs) : reqs[i] = Request(path[k])
  /\ \A i \in 1..Len(reqs) : \E k \in Pending : k > retired /\ reqs[i] = Request(path[k])

\* This is what is left when the harness has committed and flushed.
LEMMA UnflushedIs ==
  ASSUME IInv, BufferOK, ~Committed.stop
  PROVE  Remaining(Unflushed)
<1>1. PICK n : n = store_retire OBVIOUS
<1>2. RetiredFirst(n) BY <1>1, RetiredAreFirst
<1>3. Len(buffer) \in Nat /\ n \in 0..Len(buffer) /\ buffer \in Seq(Entry)
      /\ Len(path) \in Nat /\ retired \in Nat /\ told \in 0..retired
  BY <1>2, PathPlaces DEF BufferOK, Ordered, RetiredFirst
<1>4. \A k \in Pending : k \in (told + 1)..Len(path) /\ k \in 1..Len(path) /\ path[k].st
  BY <1>3 DEF Pending
<1>5. CASE recover
  <2>1. Unflushed = <<>> BY <1>5 DEF Unflushed
  <2>2. \A k \in Pending : ~(k > retired) BY <1>3, <1>4, <1>5 DEF BufferOK
  <2>3. Ordered(Unflushed) BY <2>1 DEF Ordered
  <2> QED BY <2>1, <2>2, <2>3 DEF Remaining
<1>6. CASE ~recover
  <2>1. PICK rest : rest = Unflushed OBVIOUS
  <2>2. rest = SubSeq(buffer, n + 1, Len(buffer)) BY <1>1, <1>6, <2>1, CommittedIs DEF Unflushed
  <2>3. /\ rest \in Seq(Entry) /\ Len(rest) = Len(buffer) - n
        /\ \A i \in 1..(Len(buffer) - n) : rest[i] = buffer[n + i]
    BY <1>3, <2>2, RestOf
  <2>4. \A i \in 1..Len(rest) : rest[i] = buffer[n + i] /\ n + i \in (n + 1)..Len(buffer) /\ n + i \in 1..Len(buffer)
    BY <1>3, <2>3
  <2>5. Ordered(rest)
    <3>1. \A i, j \in 1..Len(rest) : i < j => rest[i].id < rest[j].id
      <4> SUFFICES ASSUME NEW i \in 1..Len(rest), NEW j \in 1..Len(rest), i < j PROVE rest[i].id < rest[j].id
        OBVIOUS
      <4>1. n + i < n + j BY <1>3, <2>3
      <4> QED BY <2>4, <4>1 DEF BufferOK, Ordered
    <3> QED BY <2>3, <3>1 DEF Ordered
  <2>6. ASSUME NEW k \in Pending, k > retired PROVE \E i \in 1..Len(rest) : rest[i] = Request(path[k])
    <3>1. PICK j \in 1..Len(buffer) : buffer[j] = Request(path[k]) BY DEF BufferOK
    <3>2. j \notin 1..n
      <4> SUFFICES ASSUME j \in 1..n PROVE FALSE OBVIOUS
      <4>1. PICK l \in (told + 1)..retired : buffer[j] = Request(path[l]) BY <1>2 DEF RetiredFirst
      <4>2. l \in 1..retired /\ l \in 1..Len(path) BY <1>3, PathPlaces
      <4>3. k \in 1..Len(path) /\ path[l].id = path[k].id
        <5>1. k \in 1..Len(path) BY <1>4
        <5>2. Request(path[k]).id = path[k].id /\ Request(path[l]).id = path[l].id BY <4>2, <5>1, PathPlaces
        <5> QED BY ONLY <3>1, <4>1, <5>1, <5>2
      <4>4. l = k BY <4>2, <4>3, PathPlaces
      <4> QED BY <1>3, <2>6, <4>2, <4>4
    <3>3. j - n \in 1..Len(rest) /\ n + (j - n) = j BY <1>3, <2>3, <3>2
    <3>4. rest[j - n] = buffer[n + (j - n)] BY <2>4, <3>3
    <3> QED BY <3>1, <3>3, <3>4
  <2>7. ASSUME NEW i \in 1..Len(rest) PROVE \E k \in Pending : k > retired /\ rest[i] = Request(path[k])
    <3>1. PICK k \in Pending : buffer[n + i] = Request(path[k]) BY <1>6, <2>4 DEF BufferOK
    <3>2. ~(k \in 1..retired) BY <1>2, <1>4, <2>4, <3>1 DEF RetiredFirst
    <3>3. k > retired BY <1>3, <1>4, <3>2
    <3> QED BY <2>4, <3>1, <3>3
  <2>8. Remaining(rest) BY <2>5, <2>6, <2>7 DEF Remaining
  <2> QED BY <2>1, <2>8
<1> QED BY <1>5, <1>6

\* A store that has executed is older than the micro-op in pipe 3.
LEMMA CompleteOlder ==
  ASSUME IInv, OrderOK, pipe # NoUop, NEW k \in 1..Len(path), path[k].st, path[k].id \in Complete
  PROVE  path[k].id < pipe.id
<1>1. path[k] \in Current BY PathPlaces
<1>2. pipe \in In(pipe) BY DEF In
<1>3. path[k] \in Done \/ path[k] \in In(cm)
  <2>1. CASE path[k].id \in done BY <1>1, <2>1 DEF Done
  <2>2. CASE path[k].id \notin done
    <3>1. cm # NoUop /\ path[k].id = cm.id /\ cm \in Current BY <2>2, CompleteIs
    <3>2. path[k] = cm BY <1>1, <3>1, PathFacts DEF IInv
    <3> QED BY <3>1, <3>2 DEF In
  <2> QED BY <2>1, <2>2
<1> QED BY <1>2, <1>3 DEF OrderOK, Older

\* A load gets the newest byte of all older stores, executed or not.
LEMMA LoadsHold ==
  ASSUME IInv, OrderOK, BufferOK
  PROVE  LoadsInProgramOrder
<1> SUFFICES ASSUME Valid(pipe), ~pipe.st, ~halted, ~Committed.stop,
                    NEW j \in 0..(pipe.size - 1), pipe.addr + j \in ADDR
             PROVE  dcache2core_data[j] =
                      NewestByte({s \in StoresAt(DOMAIN path) : s.id < pipe.id}, pipe.addr + j)
  BY DEF LoadsInProgramOrder
<1>1. pipe \in Uop /\ pipe.id \in Int /\ pipe # NoUop /\ pipe \in In(pipe) /\ pipe \in Current
  <2>1. pipe \in Uop /\ pipe.id \in Int /\ pipe # NoUop BY UopFacts DEF IInv, TypeOK
  <2> QED BY <2>1, CompleteIs DEF In, IInv, PathOK
<1>2. pipe.addr \in Int /\ j \in 0..7
  <2>1. Request(pipe) \in Entry BY <1>1, RequestFacts
  <2>2. pipe.addr \in Int /\ pipe.size \in {1, 2, 4, 8} BY <2>1 DEF Request, Entry
  <2> QED BY <2>2
<1>3. PICK rest : rest = Unflushed OBVIOUS
<1>4. Remaining(rest) /\ Holds(Committed.mem, StoresAt(1..retired)) BY <1>3, UnflushedIs, CommittedIs
<1>5. Len(path) \in Nat /\ retired \in 0..Len(path) /\ DOMAIN path = 1..Len(path) /\ Len(rest) \in Nat
      /\ told \in 0..retired /\ told \in Nat
  BY <1>4, PathPlaces, PathFacts DEF Remaining, Ordered, IInv, BufferOK
<1>6. \A k \in Pending : k \in 1..Len(path) /\ path[k].st /\ path[k].id \in Complete
  BY <1>5 DEF Pending
<1>7. \A k \in 1..Len(path) : path[k].st /\ path[k].id \in Complete => path[k].id < pipe.id
  BY <1>1, CompleteOlder
<1>8. ASSUME NEW k \in 1..Len(path), path[k].st, path[k].id < pipe.id PROVE path[k].id \in Complete
  <2> SUFFICES ASSUME path[k].id \notin Complete PROVE FALSE OBVIOUS
  <2>1. path[k] \in Current /\ path[k].id \in Int BY PathPlaces
  <2>2. path[k].id \notin done /\ path[k] \notin In(cm) BY CompleteIs DEF In
  <2>3. path[k] \in Waiting \cup In(rf) \cup In(ex) \cup In(pipe) \cup In(cm)
    BY <2>1, <2>2, CompleteIs DEF IInv, PathOK
  <2>4. path[k] \notin In(pipe) BY <1>1, <1>8 DEF In
  <2>5. path[k] \in In(ex) \cup In(rf) \cup Waiting BY <2>2, <2>3, <2>4
  <2>6. pipe.id < path[k].id BY <1>1, <1>8, <2>5 DEF OrderOK, Older
  <2> QED BY <1>1, <1>8, <2>1, <2>6
<1>9. Follows(rest, Len(rest), StoresAt(1..retired))
  <2>1. \A i \in 1..Len(rest) : rest[i] \in Entry BY <1>4 DEF Remaining, Ordered
  <2>2. \A i, l \in 1..Len(rest) : i < l => rest[i].id < rest[l].id BY <1>4 DEF Remaining, Ordered
  <2>3. ASSUME NEW u \in StoresAt(1..retired) PROVE u.id \in Int /\ \A i \in 1..Len(rest) : u.id < rest[i].id
    <3>1. PICK k \in 1..retired : u = Request(path[k]) BY StoresAtIs
    <3>2. k \in 1..Len(path) /\ u.id = path[k].id /\ u.id \in Int BY <3>1, PathPlaces
    <3>3. ASSUME NEW i \in 1..Len(rest) PROVE u.id < rest[i].id
      <4>1. PICK l \in Pending : l > retired /\ rest[i] = Request(path[l]) BY <1>4 DEF Remaining
      <4>2. l \in 1..Len(path) /\ rest[i].id = path[l].id /\ k < l BY <1>5, <1>6, <4>1, PathPlaces
      <4> QED BY <3>2, <4>2 DEF IInv, PathOK
    <3> QED BY <3>2, <3>3
  <2> QED BY <2>1, <2>2, <2>3 DEF Follows
<1>10. StoresAt(1..retired) \cup {rest[i] : i \in 1..Len(rest)}
         = {s \in StoresAt(DOMAIN path) : s.id < pipe.id}
  <2>1. ASSUME NEW r \in StoresAt(1..retired)
        PROVE  r \in {s \in StoresAt(DOMAIN path) : s.id < pipe.id}
    <3>1. PICK k \in 1..retired : path[k].st /\ r = Request(path[k]) BY StoresAtIs
    <3>2. k \in 1..Len(path) /\ path[k].id \in Complete /\ r.id = path[k].id BY <3>1, PathPlaces
    <3> QED BY <1>5, <1>7, <3>1, <3>2, StoresAtIs
  <2>2. ASSUME NEW i \in 1..Len(rest)
        PROVE  rest[i] \in {s \in StoresAt(DOMAIN path) : s.id < pipe.id}
    <3>1. PICK k \in Pending : rest[i] = Request(path[k]) BY <1>4 DEF Remaining
    <3>2. k \in 1..Len(path) /\ path[k].st /\ path[k].id \in Complete /\ rest[i].id = path[k].id
      BY <1>6, <3>1, PathPlaces
    <3> QED BY <1>5, <1>7, <3>1, <3>2, StoresAtIs
  <2>3. ASSUME NEW r \in StoresAt(DOMAIN path), r.id < pipe.id
        PROVE  r \in StoresAt(1..retired) \/ \E i \in 1..Len(rest) : r = rest[i]
    <3>1. PICK k \in 1..Len(path) : path[k].st /\ r = Request(path[k]) BY <1>5, StoresAtIs
    <3>2. path[k].id \in Complete BY <1>8, <2>3, <3>1, PathPlaces
    <3>3. CASE k \in 1..retired BY <3>1, <3>3, StoresAtIs
    <3>4. CASE k \notin 1..retired
      <4>1. k > retired /\ k \in (told + 1)..Len(path) BY <1>5, <3>4
      <4>2. k \in Pending BY <3>1, <3>2, <4>1 DEF Pending
      <4> QED BY <1>4, <3>1, <4>1, <4>2 DEF Remaining
    <3> QED BY <3>3, <3>4
  <2> QED BY <2>1, <2>2, <2>3
<1>11. LoadData(Committed.mem, rest, pipe.addr)[j] =
         NewestByte(StoresAt(1..retired) \cup Held(rest), pipe.addr + j)
  <2>1. PICK m, S : m = Committed.mem /\ S = StoresAt(1..retired) OBVIOUS
  <2>2. PICK a \in Int, l \in 0..7 : a = pipe.addr /\ l = j BY <1>2
  <2>3. a + l \in ADDR BY <2>2
  <2>4. Holds(m, S) /\ Follows(rest, Len(rest), S) BY <1>4, <1>9, <2>1
  <2>5. LoadGets(m, S, rest, a, l)
    BY ONLY <1>5, <2>3, <2>4, a \in Int, l \in 0..7, LoadDataIs
  <2> QED BY ONLY <2>1, <2>2, <2>5 DEF LoadGets
<1>12. Held(rest) = {rest[i] : i \in 1..Len(rest)} BY DEF Held
<1> QED BY <1>3, <1>10, <1>11, <1>12 DEF dcache2core_data

-----------------------------------------------------------------------------
(* The buffer after a cycle.                                                 *)

\* The places of the stores that have executed after this cycle and that memory
\* does not have after it.
Executed == {k \in (retired + 1)..Len(path) : path[k].st /\ (path[k].id \in Complete \/ path[k] = pipe)}

\* A buffer of these.
Kept(reqs) ==
  /\ Ordered(reqs)
  /\ \A k \in Executed : \E i \in 1..Len(reqs) : reqs[i] = Request(path[k])
  /\ \A i \in 1..Len(reqs) : \E k \in Executed : reqs[i] = Request(path[k])

\* A sequence with one more element.
LEMMA AppendIs ==
  ASSUME NEW S, NEW s \in Seq(S), NEW e \in S
  PROVE  /\ Append(s, e) \in Seq(S) /\ Len(Append(s, e)) = Len(s) + 1
         /\ \A i \in 1..Len(s) : Append(s, e)[i] = s[i]
         /\ Append(s, e)[Len(s) + 1] = e
OBVIOUS

\* The harness puts a store that executes behind the older ones.
LEMMA KeptIs ==
  ASSUME IInv, OrderOK, BufferOK, HarnessCycle
  PROVE  Kept(buffer') /\ Holds(mem', StoresAt(1..retired))
<1>1. PICK rest : rest = Unflushed OBVIOUS
<1>2. Remaining(rest) /\ Holds(Committed.mem, StoresAt(1..retired))
  BY <1>1, UnflushedIs, CommittedIs DEF HarnessCycle
<1>3. Holds(mem', StoresAt(1..retired)) BY <1>2 DEF HarnessCycle
<1>4. /\ Len(path) \in Nat /\ retired \in 0..Len(path) /\ told \in 0..retired
      /\ rest \in Seq(Entry) /\ Len(rest) \in Nat
  BY <1>2, PathPlaces DEF Remaining, Ordered, BufferOK
<1>5. \A k \in Executed : k \in 1..Len(path) /\ k > retired /\ path[k].st
                          /\ (path[k].id \in Complete \/ path[k] = pipe)
  BY <1>4 DEF Executed
<1>6. \A k \in Pending : k > retired =>
        k \in Executed /\ k \in 1..Len(path) /\ path[k].st /\ path[k].id \in Complete
  BY <1>4 DEF Pending, Executed
<1>7. \A k \in Executed : path[k].id \in Complete => k \in Pending /\ k > retired
  <2> SUFFICES ASSUME NEW k \in Executed, path[k].id \in Complete PROVE k \in Pending /\ k > retired OBVIOUS
  <2>1. k \in (told + 1)..Len(path) /\ k > retired BY <1>4, <1>5
  <2> QED BY <1>5, <2>1 DEF Pending
<1>8. \A i \in 1..Len(rest) : \E k \in Executed : rest[i] = Request(path[k]) /\ path[k].id \in Complete
  BY <1>2, <1>6 DEF Remaining
<1>9. \A k \in Executed : path[k].id \in Complete => \E i \in 1..Len(rest) : rest[i] = Request(path[k])
  BY <1>2, <1>7 DEF Remaining
<1>10. CASE ~pipe.st
  <2>1. buffer' = rest BY <1>1, <1>10 DEF HarnessCycle
  <2>2. \A k \in Executed : path[k].id \in Complete BY <1>5, <1>10
  <2> QED BY <1>2, <1>3, <1>8, <1>9, <2>1, <2>2 DEF Kept, Remaining
<1>11. CASE pipe.st
  <2>1. pipe # NoUop /\ pipe \in Current
    <3>1. pipe # NoUop BY <1>11 DEF NoUop
    <3> QED BY <3>1, CompleteIs DEF In, IInv, PathOK
  <2>2. PICK p \in 1..Len(path) : path[p] = pipe BY <2>1, PathPlaces
  <2>3. p \in Executed
    <3>1. pipe.id \notin done BY <2>1 DEF OrderOK, Issuing
    <3>2. ~(p \in 1..retired) BY <2>2, <3>1, PathPlaces
    <3>3. p \in (retired + 1)..Len(path) BY <1>4, <3>2
    <3> QED BY <1>11, <2>2, <3>3 DEF Executed
  <2>4. PICK e : e = Request(pipe) OBVIOUS
  <2>5. e \in Entry /\ e.id = pipe.id /\ e = Request(path[p]) BY <2>2, <2>4, PathPlaces
  <2>6. buffer' = Append(rest, e) BY <1>1, <1>11, <2>4 DEF HarnessCycle
  <2>7. /\ buffer' \in Seq(Entry) /\ Len(buffer') = Len(rest) + 1
        /\ \A i \in 1..Len(rest) : buffer'[i] = rest[i]
        /\ buffer'[Len(rest) + 1] = e
    BY ONLY <1>4, <2>5, <2>6, AppendIs
  <2>8. \A i \in 1..(Len(rest) + 1) : i \in 1..Len(rest) \/ i = Len(rest) + 1 BY <1>4
  <2>9. \A i \in 1..Len(rest) : i \in 1..(Len(rest) + 1) BY <1>4
  <2>10. \A i \in 1..Len(rest) : rest[i].id < e.id
    <3> TAKE i \in 1..Len(rest)
    <3>1. PICK k \in Executed : rest[i] = Request(path[k]) /\ path[k].id \in Complete BY <1>8
    <3>2. k \in 1..Len(path) /\ path[k].st /\ rest[i].id = path[k].id BY <1>5, <3>1, PathPlaces
    <3> QED BY <2>1, <2>5, <3>1, <3>2, CompleteOlder
  <2>11. Ordered(buffer')
    <3>1. ASSUME NEW i \in 1..Len(buffer'), NEW j \in 1..Len(buffer'), i < j
          PROVE  buffer'[i].id < buffer'[j].id
      <4>1. i \in 1..Len(rest) BY <1>4, <2>7, <3>1
      <4>2. CASE j \in 1..Len(rest) BY <1>2, <2>7, <3>1, <4>1, <4>2 DEF Remaining, Ordered
      <4>3. CASE j = Len(rest) + 1 BY <2>7, <2>10, <4>1, <4>3
      <4> QED BY <2>7, <2>8, <4>2, <4>3
    <3> QED BY <2>7, <3>1 DEF Ordered
  <2>12. ASSUME NEW k \in Executed PROVE \E i \in 1..Len(buffer') : buffer'[i] = Request(path[k])
    <3>1. CASE path[k].id \in Complete
      <4>1. PICK i \in 1..Len(rest) : rest[i] = Request(path[k]) BY <1>9, <3>1
      <4> QED BY <2>7, <2>9, <4>1
    <3>2. CASE path[k] = pipe
      <4>1. Len(rest) + 1 \in 1..Len(buffer') BY <1>4, <2>7
      <4> QED BY <2>4, <2>7, <3>2, <4>1
    <3> QED BY <1>5, <3>1, <3>2
  <2>13. ASSUME NEW i \in 1..Len(buffer') PROVE \E k \in Executed : buffer'[i] = Request(path[k])
    <3>1. CASE i \in 1..Len(rest) BY <1>8, <2>7, <3>1
    <3>2. CASE i = Len(rest) + 1 BY <2>3, <2>5, <2>7, <3>2
    <3> QED BY <2>7, <2>8, <3>1, <3>2
  <2> QED BY <1>3, <2>11, <2>12, <2>13 DEF Kept
<1> QED BY <1>10, <1>11

\* The places that keep their micro-ops from one cycle to the next.
Keeps(n) == /\ Len(path') \in Nat /\ retired + n <= Len(path')
            /\ \A k \in 1..(retired + n) : path'[k] = path[k]

\* The part of the invariant that an advance and a flush keep alike.
Recorded ==
  /\ told \in 0..retired /\ (recover => retired = Len(path))
  /\ store_retire = Cardinality({k \in (told + 1)..retired : path[k].st})
  /\ Holds(mem, StoresAt(1..told)) /\ Ordered(buffer)

\* A cycle in which n retire keeps it.
LEMMA RecordedNext ==
  ASSUME IInv, OrderOK, BufferOK, HarnessCycle, NEW n \in 0..COMMIT_WIDTH, NEW clear \in BOOLEAN,
         Retire(n, clear), Keeps(n), clear => retired + n = Len(path')
  PROVE  Recorded'
<1>1. /\ retired' = retired + n /\ told' = retired /\ recover' = clear
      /\ store_retire' = Cardinality({k \in (retired + 1)..(retired + n) : path[k].st})
  BY DEF Retire
<1>2. retired \in Nat /\ n \in Nat BY PathPlaces, Sizes
<1>3. told' \in 0..retired' /\ (recover' => retired' = Len(path')) BY <1>1, <1>2
<1>4. {k \in (told' + 1)..retired' : path'[k].st} = {k \in (retired + 1)..(retired + n) : path[k].st}
  <2>1. \A k \in (retired + 1)..(retired + n) : path'[k] = path[k] BY <1>2 DEF Keeps
  <2> QED BY <1>1, <2>1
<1>5. StoresAt(1..told)' = StoresAt(1..retired)
  <2>1. \A k \in 1..retired : path'[k] = path[k] BY <1>2 DEF Keeps
  <2> QED BY <1>1, <2>1 DEF StoresAt, Request
<1>6. Holds(mem, StoresAt(1..told))'
  <2>1. Holds(mem', StoresAt(1..retired)) BY KeptIs
  <2> QED BY <1>5, <2>1 DEF Holds
<1>7. Ordered(buffer)' BY KeptIs DEF Kept, Ordered
<1> QED BY <1>1, <1>3, <1>4, <1>6, <1>7 DEF Recorded

\* Without a flush the buffer holds the executed stores of the path and no others.
LEMMA BufferAdvance ==
  ASSUME IInv, OrderOK, BufferOK, NEW group \in Groups, NEW operands \in SUBSET Slot,
         NEW int_full \in BOOLEAN, Advance(group, operands, int_full)
  PROVE  BufferOK'
<1>1. PICK n \in 0..COMMIT_WIDTH : HarnessCycle /\ Pipe3(FALSE) /\ Retire(n, FALSE) BY DEF Advance
<1>2. Moved(group) /\ Grown(group) BY AdvanceMoves
<1>3. /\ MayRetire(n) /\ retired' = retired + n /\ told' = retired /\ done' = Complete
      /\ cm' = pipe
  BY <1>1 DEF Retire, Pipe3
<1>4. /\ Len(path) \in Nat /\ Len(path') \in Nat /\ Len(path) <= Len(path')
      /\ retired \in Nat /\ retired + n \in 0..Len(path) /\ n \in Nat
      /\ \A k \in 1..Len(path) : path'[k] = path[k] /\ k \in 1..Len(path')
  BY <1>2, <1>3, PathPlaces, Retirement, Sizes DEF Grown
<1>5. Keeps(n)
  <2>1. \A k \in 1..(retired + n) : k \in 1..Len(path) BY <1>4
  <2> QED BY <1>4, <2>1 DEF Keeps
<1>6. Recorded' BY <1>1, <1>5, RecordedNext
<1>7. Kept(buffer') BY <1>1, KeptIs
<1>8. \A i : i \in Complete' <=> i \in Complete \/ (pipe # NoUop /\ i = pipe.id)
  <2>1. pipe.id = 0 <=> pipe = NoUop BY UopFacts DEF IInv, TypeOK, Valid
  <2> QED BY <1>3, <2>1 DEF Complete
<1>9. pipe # NoUop => pipe \in Current BY CompleteIs DEF In, IInv, PathOK
<1>10. \A i \in Complete' : i \in Int /\ i <= fresh
  <2>1. \A u \in Current : u.id \in Int /\ u.id <= fresh BY PathFacts DEF IInv
  <2> QED BY <1>8, <1>9, <2>1, CompleteIs DEF OrderOK
<1>11. ASSUME NEW k \in Pending' PROVE k \in Executed /\ path'[k] = path[k]
  <2>1. k \in (retired + 1)..Len(path') /\ path'[k].st /\ path'[k].id \in Complete' BY <1>3 DEF Pending
  <2>2. k \in 1..Len(path')  BY <1>4, <2>1
  <2>3. ~(k > Len(path))
    <3> SUFFICES ASSUME k > Len(path) PROVE FALSE OBVIOUS
    <3>1. path'[k] \in Uops(group) BY <1>2, <2>2 DEF Grown
    <3>2. path'[k] \in Uop /\ fresh < path'[k].id BY <1>2, <3>1 DEF Moved
    <3>3. path'[k].id \in Int /\ fresh \in Nat BY <3>2, UopFacts, Sizes DEF IInv, TypeOK
    <3> QED BY <1>10, <2>1, <3>2, <3>3
  <2>4. k \in 1..Len(path) /\ k \in (retired + 1)..Len(path) BY <1>4, <2>1, <2>3
  <2>5. path'[k] = path[k] /\ path[k] \in Current BY <1>4, <2>4, PathPlaces
  <2>6. path[k].id \in Complete \/ path[k] = pipe BY <1>8, <1>9, <2>1, <2>5, PathFacts DEF IInv
  <2> QED BY <2>1, <2>4, <2>5, <2>6 DEF Executed
<1>12. ASSUME NEW k \in Executed PROVE k \in Pending' /\ path'[k] = path[k]
  <2>1. k \in (retired + 1)..Len(path) /\ path[k].st /\ (path[k].id \in Complete \/ path[k] = pipe)
    BY DEF Executed
  <2>2. k \in (retired + 1)..Len(path') /\ k \in 1..Len(path) BY <1>4, <2>1
  <2>3. path'[k] = path[k] BY <1>4, <2>2
  <2>4. path[k].id \in Complete'
    <3>1. path[k] # NoUop BY <2>1 DEF NoUop
    <3> QED BY <1>8, <2>1, <3>1
  <2> QED BY <1>3, <2>1, <2>2, <2>3, <2>4 DEF Pending
<1>13. \A k \in Pending' : \E i \in 1..Len(buffer') : buffer'[i] = Request(path'[k])
  BY <1>7, <1>11 DEF Kept
<1>14. \A i \in 1..Len(buffer') : \E k \in Pending' : buffer'[i] = Request(path'[k])
  BY <1>7, <1>12 DEF Kept
<1> QED BY <1>6, <1>13, <1>14 DEF BufferOK, Recorded, Request

\* A flush leaves behind these the executed stores that it takes off the path.
LEMMA BufferFlush ==
  ASSUME IInv, OrderOK, BufferOK, Flush
  PROVE  BufferOK'
<1>1. PICK n \in 0..COMMIT_WIDTH :
        HarnessCycle /\ Pipe3(TRUE) /\ Retire(n, TRUE) /\ path' = SubSeq(path, 1, retired + n)
  BY DEF Flush
<1>2. /\ MayRetire(n) /\ retired' = retired + n /\ told' = retired /\ done' = Complete
      /\ cm' = NoUop /\ recover'
  BY <1>1 DEF Retire, Pipe3
<1>3. /\ Len(path) \in Nat /\ retired \in Nat /\ n \in Nat /\ retired + n \in 0..Len(path)
      /\ \A k \in 1..(retired + n) : path[k].id \in Complete
  BY <1>2, PathPlaces, Retirement, Sizes
<1>4. \A k \in 1..(retired + n) : k \in 1..Len(path) /\ path[k] \in Uop BY <1>3, PathFacts DEF IInv
<1>5. /\ path' \in Seq(Uop) /\ Len(path') = retired + n
      /\ \A k \in 1..(retired + n) : path'[k] = path[k]
  <2>1. PICK s, r : s = path /\ r = retired + n OBVIOUS
  <2>2. r \in Nat /\ \A k \in 1..r : s[k] \in Uop BY ONLY <1>3, <1>4, <2>1
  <2>3. /\ SubSeq(s, 1, r) \in Seq(Uop) /\ Len(SubSeq(s, 1, r)) = r
        /\ \A i \in 1..r : SubSeq(s, 1, r)[i] = s[i]
    BY ONLY <2>2, FirstOf
  <2> QED BY ONLY <1>1, <2>1, <2>3
<1>6. Keeps(n) BY <1>3, <1>5 DEF Keeps
<1>7. Recorded' BY <1>1, <1>5, <1>6, RecordedNext
<1>8. Kept(buffer') BY <1>1, KeptIs
<1>9. Complete' = Complete BY <1>2, UopFacts DEF Complete
<1>10. \A k : k \in Pending' <=> k \in (retired + 1)..(retired + n) /\ path[k].st /\ path[k].id \in Complete
  <2>1. \A k \in (retired + 1)..(retired + n) : path'[k] = path[k] BY <1>3, <1>5
  <2> QED BY <1>2, <1>5, <1>9, <2>1 DEF Pending
<1>11. ASSUME NEW k \in Pending' PROVE k \in Executed /\ path'[k] = path[k]
  <2>1. k \in (retired + 1)..Len(path) /\ path'[k] = path[k] BY <1>3, <1>5, <1>10
  <2> QED BY <1>10, <2>1 DEF Executed
<1>12. ASSUME NEW i \in 1..Len(buffer')
       PROVE  \/ \E k \in Pending' : buffer'[i] = Request(path'[k])
              \/ \A u \in Current' : u.id < buffer'[i].id
  <2>1. PICK k \in Executed : buffer'[i] = Request(path[k]) BY <1>8 DEF Kept
  <2>2. k \in (retired + 1)..Len(path) /\ k \in 1..Len(path) /\ path[k].st BY <1>3 DEF Executed
  <2>3. CASE k <= retired + n
    <3>1. k \in (retired + 1)..(retired + n) /\ k \in 1..(retired + n) BY <1>3, <2>2, <2>3
    <3>2. k \in Pending' /\ path'[k] = path[k] BY <1>3, <1>5, <1>10, <2>2, <3>1
    <3> QED BY <2>1, <3>2
  <2>4. CASE k > retired + n
    <3>1. ASSUME NEW u \in Current' PROVE u.id < buffer'[i].id
      <4>1. PICK l \in 1..(retired + n) : u = path[l]
        <5>1. DOMAIN path' = 1..(retired + n) BY <1>5
        <5> QED BY <1>5, <5>1 DEF Current
      <4>2. l \in 1..Len(path) /\ l < k
        <5>1. l \in Int /\ k \in Int /\ l <= retired + n BY <1>3, <2>2, <4>1
        <5> QED BY <1>3, <1>4, <2>4, <5>1
      <4>3. path[l].id < path[k].id BY <2>2, <4>2 DEF IInv, PathOK
      <4> QED BY <2>1, <2>2, <4>1, <4>3, PathPlaces
    <3> QED BY <3>1
  <2> QED BY <1>3, <2>2, <2>3, <2>4
<1>13. \A k \in Pending' : \E i \in 1..Len(buffer') : buffer'[i] = Request(path'[k])
  BY <1>8, <1>11 DEF Kept
<1> QED BY <1>2, <1>7, <1>12, <1>13 DEF BufferOK, Recorded, Request

-----------------------------------------------------------------------------
(* The second invariant.                                                     *)

\* The second invariant: of the order in which stores execute, of the buffer
\* and memory while the harness goes on, and of why it stops.
BInv == OrderOK /\ (halted \/ BufferOK) /\ StopsOnRequest

\* It holds at reset.
LEMMA InitBInv == Init => BInv
<1> SUFFICES ASSUME Init PROVE BInv OBVIOUS
<1>1. Waiting = {} /\ Issuing = {} /\ Current = {}
  <2>1. Uops(slots) = {} BY DEF Init, NoSlots, Uops
  <2>2. Uops(is.in) = {} /\ Uops(is.tmp) = {} BY BubbleFacts DEF Init, SkidReset
  <2>3. DOMAIN path = {} BY DEF Init
  <2> QED BY <2>1, <2>2, <2>3 DEF Init, Waiting, Issuing, Current, Uops
<1>2. OrderOK
  <2>1. In(rf) = {} /\ In(ex) = {} /\ In(pipe) = {} /\ In(cm) = {} BY DEF Init, In
  <2> QED BY <1>1, <2>1 DEF Init, OrderOK, Older, Done
<1>3. path = <<>> /\ Len(path) = 0 /\ buffer = <<>> /\ Len(buffer) = 0 /\ retired = 0 /\ told = 0
  BY DEF Init, BufferInit
<1>4. StoresAt(1..told) = {}
  <2>1. 1..told = {} BY <1>3
  <2> QED BY <2>1 DEF StoresAt
<1>5. Holds(mem, StoresAt(1..told))
  <2>1. mem = [b \in ADDR |-> Zero] BY DEF Init, BufferInit
  <2>2. Zero \in Byte BY DEF Zero, Byte
  <2>3. \A b \in ADDR : NewestByte({}, b) = Zero BY DEF NewestByte
  <2> QED BY <1>4, <2>1, <2>2, <2>3 DEF Holds
<1>6. store_retire = Cardinality({k \in (told + 1)..retired : path[k].st})
  <2>1. {k \in (told + 1)..retired : path[k].st} = {} BY <1>3
  <2> QED BY <2>1, FS_EmptySet DEF Init
<1>7. Ordered(buffer)
  <2>1. buffer \in Seq(Entry) /\ 1..Len(buffer) = {} BY <1>3
  <2> QED BY <2>1 DEF Ordered
<1>8. BufferOK
  <2>1. Pending = {} BY <1>3 DEF Pending
  <2>2. 1..Len(buffer) = {} BY <1>3
  <2>3. told \in 0..retired /\ ~recover BY <1>3 DEF Init
  <2> QED BY <1>5, <1>6, <1>7, <2>1, <2>2, <2>3 DEF BufferOK
<1>9. StopsOnRequest BY DEF Init, StopsOnRequest
<1> QED BY <1>2, <1>8, <1>9 DEF BInv

\* What changes only memory, the buffer and the harness keeps the order.
LEMMA OrderStutter ==
  ASSUME OrderOK, UNCHANGED <<iqVars, exVars, pathVars>>
  PROVE  OrderOK' /\ (BufferOK /\ UNCHANGED bufferVars => BufferOK')
         /\ (StopsOnRequest /\ UNCHANGED halted => StopsOnRequest')
<1>1. /\ is' = is /\ slots' = slots /\ rf' = rf /\ ex' = ex /\ pipe' = pipe /\ cm' = cm
      /\ fresh' = fresh /\ path' = path /\ retired' = retired /\ told' = told /\ done' = done
      /\ store_retire' = store_retire /\ recover' = recover
  BY DEF iqVars, exVars, pathVars
<1>2. /\ Waiting' = Waiting /\ Issuing' = Issuing /\ Current' = Current /\ Done' = Done
      /\ Pending' = Pending /\ StoresAt(1..told)' = StoresAt(1..told)
      /\ In(rf)' = In(rf) /\ In(ex)' = In(ex) /\ In(pipe)' = In(pipe) /\ In(cm)' = In(cm)
  BY <1>1 DEF Waiting, Issuing, Current, Done, Pending, Complete, StoresAt, Request, Uops, In
<1>3. OrderOK' BY <1>1, <1>2 DEF OrderOK, Older
<1>4. ASSUME BufferOK, UNCHANGED bufferVars PROVE BufferOK'
  <2>1. mem' = mem /\ buffer' = buffer BY <1>4 DEF bufferVars
  <2>2. Holds(mem, StoresAt(1..told))' BY <1>2, <1>4, <2>1 DEF BufferOK, Holds
  <2>3. Ordered(buffer)' BY <1>4, <2>1 DEF BufferOK, Ordered
  <2> QED BY <1>1, <1>2, <1>4, <2>1, <2>2, <2>3 DEF BufferOK, Request
<1>5. ASSUME StopsOnRequest, UNCHANGED halted PROVE StopsOnRequest'
  BY <1>1, <1>5 DEF StopsOnRequest
<1> QED BY <1>3, <1>4, <1>5

\* Every cycle keeps it.
LEMMA NextBInv == IInv /\ BInv /\ [Next]_vars => BInv'
<1> SUFFICES ASSUME IInv, BInv, [Next]_vars PROVE BInv' OBVIOUS
<1>0. IInv' BY NextIInv
<1>1. HarnessCycle => ~halted /\ ~halted' BY DEF HarnessCycle
<1>2. ASSUME NEW group \in Groups, NEW operands \in Operands, NEW int_full \in BOOLEAN,
             Advance(group, operands, int_full)
      PROVE  BInv'
  <2>1. ~halted /\ ~halted' BY <1>1, <1>2 DEF Advance
  <2>2. operands \in SUBSET Slot BY OperandsAre
  <2>3. BufferOK' BY <1>2, <2>1, <2>2, BufferAdvance DEF BInv
  <2>4. OrderOK'
    <3>1. Moved(group) BY <1>2, <2>2, AdvanceMoves
    <3>2. done' = Complete BY <1>2 DEF Advance, Retire
    <3> QED BY <1>0, <3>1, <3>2, OrderAdvance DEF BInv
  <2> QED BY <2>1, <2>3, <2>4 DEF BInv, StopsOnRequest
<1>3. CASE Flush
  <2>1. ~halted /\ ~halted' BY <1>1, <1>3 DEF Flush
  <2> QED BY <1>3, <2>1, BufferFlush, OrderFlush DEF BInv, StopsOnRequest
<1>4. CASE Halt
  <2>1. ~halted /\ Committed.stop /\ halted' /\ UNCHANGED <<iqVars, exVars, pathVars>> BY <1>4 DEF Halt
  <2>2. \E k \in 1..retired : path[k].st /\ path[k].addr = HALT_ADDR BY <2>1, CommittedIs DEF BInv
  <2>3. path' = path /\ retired' = retired BY <2>1 DEF pathVars
  <2>4. StopsOnRequest' BY <2>2, <2>3 DEF StopsOnRequest
  <2> QED BY <2>1, <2>4, OrderStutter DEF BInv
<1>5. CASE UNCHANGED vars
  <2>1. UNCHANGED <<iqVars, exVars, pathVars>> /\ UNCHANGED bufferVars /\ halted' = halted
    BY <1>5 DEF vars
  <2> QED BY <2>1, OrderStutter DEF BInv
<1> QED BY <1>2, <1>3, <1>4, <1>5 DEF Next

\* Both invariants hold in every state.
THEOREM Both == Spec => [](IInv /\ BInv)
<1>1. Init => IInv /\ BInv BY InitIInv, InitBInv
<1>2. IInv /\ BInv /\ [Next]_vars => (IInv /\ BInv)' BY NextIInv, NextBInv
<1> QED BY <1>1, <1>2, PTL DEF Spec

\* The buffer in front of memory holds what the core executed and memory does
\* not have, in program order, whatever retires and is flushed:
\* store_buffer.cc's push, commit and clear.
THEOREM BufferIsExact == Spec => []BufferExact
<1>1. IInv /\ BInv => BufferExact
  <2> SUFFICES ASSUME IInv, BInv PROVE BufferExact OBVIOUS
  <2> SUFFICES ASSUME ~halted PROVE BufferExact BY DEF BufferExact
  <2>1. BufferOK BY DEF BInv
  <2>2. DOMAIN buffer = 1..Len(buffer) BY <2>1 DEF BufferOK, Ordered
  <2> DEFINE pending == {s \in StoresAt((told + 1)..Len(path)) : s.id \in Complete}
             held    == {buffer[i] : i \in DOMAIN buffer}
  <2>3. told \in Nat /\ \A k \in (told + 1)..Len(path) : k \in 1..Len(path)
    <3>1. told \in Nat /\ Len(path) \in Nat BY <2>1, PathPlaces DEF BufferOK
    <3> QED BY <3>1
  <2>4. \A r : r \in pending <=> \E k \in Pending : r = Request(path[k])
    <3>1. \A k \in (told + 1)..Len(path) : Request(path[k]).id = path[k].id BY <2>3, PathPlaces
    <3>2. ASSUME NEW r \in pending PROVE \E k \in Pending : r = Request(path[k])
      <4>1. r.id \in Complete /\ \E k \in (told + 1)..Len(path) : path[k].st /\ r = Request(path[k])
        BY StoresAtIs
      <4> QED BY <3>1, <4>1 DEF Pending
    <3>3. ASSUME NEW k \in Pending PROVE Request(path[k]) \in pending
      <4>1. k \in (told + 1)..Len(path) /\ path[k].st /\ path[k].id \in Complete BY DEF Pending
      <4>2. Request(path[k]) \in StoresAt((told + 1)..Len(path)) BY <4>1, StoresAtIs
      <4> QED BY <3>1, <4>1, <4>2
    <3> QED BY <3>2, <3>3
  <2>5. pending \subseteq held
    <3> SUFFICES ASSUME NEW r \in pending PROVE r \in held OBVIOUS
    <3>1. PICK k \in Pending : r = Request(path[k]) BY <2>4
    <3>2. PICK i \in 1..Len(buffer) : buffer[i] = Request(path[k]) BY <2>1 DEF BufferOK
    <3> QED BY <2>2, <3>1, <3>2
  <2>6. ASSUME NEW r \in held \ pending PROVE recover /\ \A s \in pending : s.id < r.id
    <3>1. PICK i \in 1..Len(buffer) : r = buffer[i] BY <2>2
    <3>2. recover /\ \A u \in Current : u.id < r.id BY <2>1, <2>4, <2>6, <3>1 DEF BufferOK
    <3>3. ASSUME NEW s \in pending PROVE s.id < r.id
      <4>1. PICK k \in Pending : s = Request(path[k]) BY <2>4
      <4>2. k \in 1..Len(path) BY <2>3 DEF Pending
      <4> QED BY <3>2, <4>1, <4>2, PathPlaces
    <3> QED BY <3>2, <3>3
  <2>7. \A i, j \in DOMAIN buffer : i < j => buffer[i].id < buffer[j].id
    BY <2>1, <2>2 DEF BufferOK, Ordered
  <2> QED BY <2>5, <2>6, <2>7 DEF BufferExact
<1> QED BY <1>1, Both, PTL

\* Memory is what the retired stores made of it, one after the other, byte by
\* byte, whatever their sizes and overlaps: store_buffer.cc's commit loop.
THEOREM MemoryIsInOrder == Spec => []MemoryInOrder
<1>1. IInv /\ BInv => MemoryInOrder BY DEF BInv, BufferOK, Holds, MemoryInOrder
<1> QED BY <1>1, Both, PTL

\* Each byte that a load gets is that of the youngest older store of the
\* program, although loads overtake each other: the masks of
\* issue_queue_mem.sv, the forwarding of store_buffer.cc and sim_main2.cc's
\* order of commit, flush and load.
THEOREM LoadsAreInOrder == Spec => []LoadsInProgramOrder
<1>1. IInv /\ BInv => LoadsInProgramOrder
  <2> SUFFICES ASSUME IInv, BInv PROVE LoadsInProgramOrder OBVIOUS
  <2>1. CASE halted BY <2>1 DEF LoadsInProgramOrder
  <2>2. CASE ~halted BY <2>2, LoadsHold DEF BInv
  <2> QED BY <2>1, <2>2
<1> QED BY <1>1, Both, PTL

\* The harness stops only because a store that retired asks for it, never
\* because the buffer holds less than the core retires: store_buffer.cc:15.
THEOREM OnlyOnRequest == Spec => []StopsOnRequest
<1>1. IInv /\ BInv => StopsOnRequest BY DEF BInv
<1> QED BY <1>1, Both, PTL

=============================================================================
