------------------------- MODULE RenameCommitProofs -------------------------
(* The rename table, the free list, the ROB and commit agree on every        *)
(* physical register, for every program, every number of registers and every *)
(* width: whatever stalls, retires and is flushed.                           *)
EXTENDS RenameCommit, RobProofs, SequenceTheorems

-----------------------------------------------------------------------------
(* Numbers.                                                                  *)

\* A set of integers bounded from below has a least element.
LEMMA FirstOf ==
  ASSUME NEW lo \in Int, NEW S, S \subseteq Int, S # {}, \A j \in S : j >= lo
  PROVE  \E k \in S : \A j \in S : k <= j
<1> DEFINE T == {j - lo : j \in S}
           R == OpToRel(<, Nat)
<1>1. T \subseteq Nat /\ T # {}
  <2>1. \A j \in S : j - lo \in Nat OBVIOUS
  <2> QED BY <2>1
<1>2. IsWellFoundedOn(R, Nat) BY NatLessThanWellFounded
<1> HIDE DEF T, R
<1>3. PICK x \in T : \A y \in T : <<y, x>> \notin R BY <1>1, <1>2, WFMin
<1> USE DEF T, R
<1>4. PICK k \in S : x = k - lo BY <1>3
<1>5. \A j \in S : ~(j - lo < k - lo)
  <2> SUFFICES ASSUME NEW j \in S PROVE ~(j - lo < k - lo) OBVIOUS
  <2>1. j - lo \in T /\ j - lo \in Nat /\ k - lo \in Nat OBVIOUS
  <2>2. <<j - lo, k - lo>> \notin R BY <1>3, <1>4, <2>1
  <2> QED BY <2>1, <2>2 DEF OpToRel
<1>6. \A j \in S : k <= j
  <2> TAKE j \in S
  <2>1. j \in Int /\ k \in Int /\ ~(j - lo < k - lo) BY <1>5
  <2> QED BY <2>1
<1> QED BY <1>6

\* Max is what it is called.
LEMMA MaxOf ==
  ASSUME NEW S, S \subseteq Int, NEW x \in S, \A j \in S : j <= x
  PROVE  Max(S) = x
<1>1. \A y \in S : (\A z \in S : y >= z) <=> y = x
  <2> TAKE y \in S
  <2>1. x \in Int /\ y \in Int OBVIOUS
  <2>2. x \in S /\ y <= x OBVIOUS
  <2>3. ASSUME \A z \in S : y >= z PROVE y = x BY <2>1, <2>2, <2>3
  <2>4. ASSUME y = x, NEW z \in S PROVE y >= z
    <3>1. z \in Int /\ z <= x OBVIOUS
    <3> QED BY <2>1, <2>4, <3>1
  <2> QED BY <2>3, <2>4
<1> QED BY <1>1 DEF Max

\* A nonempty set of indices has a maximum, and Max is it.
LEMMA MaxIs ==
  ASSUME NEW n \in Nat, NEW S, S \subseteq 1..n, S # {}
  PROVE  Max(S) \in S /\ \A j \in S : j <= Max(S)
<1>1. S \subseteq 0..n /\ S \subseteq Int OBVIOUS
<1>2. PICK k \in S : \A j \in S : j <= k BY <1>1, LastOf
<1>3. Max(S) = k BY <1>1, <1>2, MaxOf
<1> QED BY <1>2, <1>3

-----------------------------------------------------------------------------
(* Tokens: the values of registers in program order, each of a register.     *)
(* The ones below zero are committed, one for each register.                 *)

\* Of the tokens up to m, those that a later one overwrites, and those that
\* overwrite one.  Each of the latter holds the value of its predecessor.
Overwritten(D, reg, m) == {t \in D : \E i \in D : t < i /\ i <= m /\ reg[i] = reg[t]}
Overwriting(D, reg, m) == {i \in D : 0 < i /\ i <= m /\ \E t \in D : t < i /\ reg[t] = reg[i]}
Precedes(D, reg, t, i) == /\ t < i /\ reg[t] = reg[i]
                          /\ \A u \in D : u < i /\ reg[u] = reg[i] => u <= t

Paired(D, reg, R, G, pred) ==
  /\ IsFiniteSet(R) /\ IsFiniteSet(G) /\ Cardinality(R) = Cardinality(G)
  /\ pred \in Bijection(R, G)
  /\ \A i \in R : pred[i] \in D /\ Precedes(D, reg, pred[i], i)

\* Every value that is overwritten by m is overwritten by one writer first:
\* as many values are overwritten as there are writers that overwrite one.
LEMMA Pairing ==
  ASSUME NEW D, D \subseteq Int, IsFiniteSet(D), NEW reg, NEW m \in Int,
         \A t, u \in D : t <= 0 /\ u <= 0 /\ reg[t] = reg[u] => t = u,
         NEW R, R = Overwriting(D, reg, m), NEW G, G = Overwritten(D, reg, m),
         NEW pred, pred = [i \in R |-> CHOOSE t \in D : Precedes(D, reg, t, i)],
         \A i \in R : \E t \in D : Precedes(D, reg, t, i)
  PROVE  Paired(D, reg, R, G, pred)
<1>1. \A i \in R : pred[i] \in D /\ Precedes(D, reg, pred[i], i) OBVIOUS
<1>2. R \subseteq D /\ G \subseteq D BY DEF Overwriting, Overwritten
<1>3. \A i \in R : pred[i] \in G
  <2> TAKE i \in R
  <2>1. pred[i] \in D /\ pred[i] < i /\ reg[i] = reg[pred[i]] BY <1>1 DEF Precedes
  <2>2. i \in D /\ i <= m BY DEF Overwriting
  <2>3. \E k \in D : pred[i] < k /\ k <= m /\ reg[k] = reg[pred[i]] BY <2>1, <2>2
  <2>4. pred[i] \in Overwritten(D, reg, m) BY <2>1, <2>3 DEF Overwritten
  <2> QED BY <2>4
<1>4. \A i, j \in R : pred[i] = pred[j] => i = j
  <2> SUFFICES ASSUME NEW i \in R, NEW j \in R, pred[i] = pred[j], i # j PROVE FALSE OBVIOUS
  <2>1. i \in D /\ j \in D /\ pred[i] \in D /\ Precedes(D, reg, pred[i], i) /\ Precedes(D, reg, pred[j], j)
    BY <1>1, <1>2
  <2>2. reg[i] = reg[j] BY <2>1 DEF Precedes
  <2>3. pred[i] < i /\ pred[j] < j BY <2>1 DEF Precedes
  <2>4. i < j => i <= pred[j] BY <2>1, <2>2 DEF Precedes
  <2>5. j < i => j <= pred[i] BY <2>1, <2>2 DEF Precedes
  <2>6. i \in Int /\ j \in Int /\ pred[i] \in Int /\ pred[j] \in Int BY <2>1
  <2>7. pred[i] = pred[j] /\ i # j OBVIOUS
  <2> QED BY ONLY <2>3, <2>4, <2>5, <2>6, <2>7
<1>5. ASSUME NEW t \in G PROVE \E i \in R : pred[i] = t
  <2> DEFINE S == {i \in D : t < i /\ i <= m /\ reg[i] = reg[t]}
  <2>0. t \in D /\ \E i \in D : t < i /\ i <= m /\ reg[i] = reg[t]
    <3>1. t \in Overwritten(D, reg, m) BY <1>5
    <3> QED BY <3>1 DEF Overwritten
  <2>1. t \in D /\ t \in Int /\ S # {} BY <2>0
  <2>2. S \subseteq Int /\ \A j \in S : j >= t
    <3>1. \A j \in S : j \in Int /\ t < j OBVIOUS
    <3> HIDE DEF S
    <3> QED BY <2>1, <3>1
  <2> HIDE DEF S
  <2>3. PICK i \in S : \A j \in S : i <= j BY <2>1, <2>2, FirstOf
  <2> USE DEF S
  <2>4. i \in D /\ t < i /\ i <= m /\ reg[i] = reg[t] /\ i \in Int BY <2>2, <2>3
  <2>5. 0 < i
    <3> SUFFICES ASSUME ~(0 < i) PROVE FALSE OBVIOUS
    <3>1. i <= 0 /\ t <= 0 BY <2>1, <2>4
    <3>2. t = i BY <2>1, <2>4, <3>1
    <3> QED BY <2>1, <2>4, <3>2
  <2>6. i \in R BY <2>1, <2>4, <2>5 DEF Overwriting
  <2>7. pred[i] \in D /\ pred[i] < i /\ reg[pred[i]] = reg[i] /\ t <= pred[i]
    BY <1>1, <2>1, <2>4, <2>6 DEF Precedes
  <2>8. ~(t < pred[i])
    <3> SUFFICES ASSUME t < pred[i] PROVE FALSE OBVIOUS
    <3>1. pred[i] \in Int BY <2>7
    <3>2. pred[i] \in S BY <2>4, <2>7, <3>1
    <3>3. i <= pred[i] BY <2>3, <3>2
    <3> QED BY <2>4, <2>7, <3>1, <3>3
  <2>9. pred[i] \in Int BY <2>7
  <2>10. pred[i] = t BY <2>1, <2>7, <2>8, <2>9
  <2> QED BY <2>6, <2>10
<1>6. pred \in Bijection(R, G)
  <2>1. pred \in [R -> G] BY <1>3
  <2>2. pred \in Injection(R, G) BY <1>4, <2>1 DEF Injection, IsInjective
  <2>3. pred \in Surjection(R, G) BY <1>5, <2>1 DEF Surjection
  <2> QED BY <2>2, <2>3 DEF Bijection
<1>7. IsFiniteSet(R) /\ IsFiniteSet(G) BY <1>2, FS_Subset
<1>8. Cardinality(R) = Cardinality(G)
  <2>1. ExistsBijection(R, G) BY <1>6 DEF ExistsBijection
  <2> QED BY <1>6, <1>7, <2>1, FS_Bijection
<1> QED BY <1>1, <1>6, <1>7, <1>8 DEF Paired

Valued(D, reg, val, prev, R, G) ==
  /\ IsFiniteSet(R) /\ IsFiniteSet(G) /\ Cardinality(R) = Cardinality(G)
  /\ {prev[i] : i \in R} = {val[t] : t \in G}
  /\ \A i \in R, t \in D : prev[i] = val[t] => Precedes(D, reg, t, i)

\* So the registers that these writers release are those of the overwritten
\* values, each once.
LEMMA Values ==
  ASSUME NEW D, D \subseteq Int, IsFiniteSet(D), NEW reg, NEW m \in Int,
         \A t, u \in D : t <= 0 /\ u <= 0 /\ reg[t] = reg[u] => t = u,
         NEW R, R = Overwriting(D, reg, m), NEW G, G = Overwritten(D, reg, m),
         NEW val, \A t, u \in D : val[t] = val[u] => t = u,
         NEW prev, \A i \in R : \E t \in D : Precedes(D, reg, t, i) /\ prev[i] = val[t]
  PROVE  Valued(D, reg, val, prev, R, G)
<1>1. PICK pred : pred = [i \in R |-> CHOOSE t \in D : Precedes(D, reg, t, i)] OBVIOUS
<1>2. \A i \in R : \E t \in D : Precedes(D, reg, t, i) OBVIOUS
<1>3. /\ IsFiniteSet(R) /\ IsFiniteSet(G) /\ Cardinality(R) = Cardinality(G)
      /\ pred \in Bijection(R, G)
      /\ \A i \in R : pred[i] \in D /\ Precedes(D, reg, pred[i], i)
  <2>1. Paired(D, reg, R, G, pred) BY <1>1, <1>2, Pairing
  <2> QED BY <2>1 DEF Paired
<1>4. \A i \in R : prev[i] = val[pred[i]]
  <2> TAKE i \in R
  <2>1. PICK t \in D : Precedes(D, reg, t, i) /\ prev[i] = val[t] OBVIOUS
  <2>2. pred[i] \in D /\ Precedes(D, reg, pred[i], i) BY <1>3
  <2>3. t <= pred[i] /\ pred[i] <= t BY <2>1, <2>2 DEF Precedes
  <2>4. t \in Int /\ pred[i] \in Int BY <2>1, <2>2
  <2> QED BY <2>1, <2>3, <2>4
<1>5. \A i \in R : pred[i] \in G BY <1>3 DEF Bijection, Injection
<1>6. \A t \in G : \E i \in R : pred[i] = t BY <1>3 DEF Bijection, Surjection
<1>7. {prev[i] : i \in R} = {val[t] : t \in G}
  <2>1. \A i \in R : \E t \in G : prev[i] = val[t] BY <1>4, <1>5
  <2>2. \A t \in G : \E i \in R : prev[i] = val[t] BY <1>4, <1>6
  <2> QED BY ONLY <2>1, <2>2
<1>8. \A i \in R, t \in D : prev[i] = val[t] => Precedes(D, reg, t, i)
  <2> TAKE i \in R, t \in D
  <2> HAVE prev[i] = val[t]
  <2>1. pred[i] \in D /\ Precedes(D, reg, pred[i], i) BY <1>3
  <2>2. val[pred[i]] = val[t] BY <1>4
  <2>3. pred[i] = t BY <2>1, <2>2
  <2> QED BY <2>1, <2>3
<1> QED BY <1>3, <1>7, <1>8 DEF Valued

-----------------------------------------------------------------------------
(* Histories: micro-ops in program order, over what is committed.            *)

Behind(h, a, k) == {j \in 1..(k - 1) : Writes(h[j]) /\ h[j].rd = a}
Held(h, r, a, k) == IF Behind(h, a, k) = {} THEN r[a] ELSE h[Max(Behind(h, a, k))].prd

Tokens(h, c) == {-a : a \in c \ {0}} \cup Slots(h, Writes)
Reg(h, c) == [t \in Tokens(h, c) |-> IF t < 0 THEN -t ELSE h[t].rd]
Val(h, r, c) == [t \in Tokens(h, c) |-> IF t < 0 THEN r[-t] ELSE h[t].prd]
\* Whether something in h or committed maps a, as the k-th finds it.
Known(h, c, a, k) == a \in c \/ Behind(h, a, k) # {}

\* Each micro-op reads and will release what its nearest older writer wrote.
Linked(h, r, c) ==
  \A k \in DOMAIN h : h[k].valid =>
    /\ h[k].prs1 = Held(h, r, h[k].rs1, k)
    /\ Writes(h[k]) => h[k].prev = Held(h, r, h[k].rd, k)
    /\ h[k].prev_valid <=> Writes(h[k]) /\ Known(h, c, h[k].rd, k)

Unaliased(h, r, c) ==
  \A t \in Tokens(h, c) : /\ Val(h, r, c)[t] # 0
                          /\ \A u \in Tokens(h, c) : Val(h, r, c)[t] = Val(h, r, c)[u] => t = u

\* What is committed: x0 always, and mapped to p0.
Commits(r, c) == r \in [Arf -> Prf] /\ c \subseteq Arf /\ 0 \in c /\ r[0] = 0

\* The registers in use.
Live(h, r, c) == {0} \cup {Val(h, r, c)[t] : t \in Tokens(h, c)}

\* The registers are finitely many, and x0 and p0 are among them.
LEMMA ArfFacts == Arf \subseteq Nat /\ IsFiniteSet(Arf) /\ 0 \in Arf /\ Prf \subseteq Nat /\ IsFiniteSet(Prf) /\ 0 \in Prf
                  /\ Cardinality(Prf) = PRF_INT_SIZE
<1>1. ARF_INT_SIZE - 1 \in Int /\ PRF_INT_SIZE - 1 \in Int /\ 0 <= ARF_INT_SIZE - 1 /\ 0 <= PRF_INT_SIZE - 1
  BY SizeAssumption
<1>2. IsFiniteSet(0..(ARF_INT_SIZE - 1)) BY <1>1, FS_Interval
<1>3. IsFiniteSet(0..(PRF_INT_SIZE - 1))
      /\ Cardinality(0..(PRF_INT_SIZE - 1)) = IF 0 > PRF_INT_SIZE - 1 THEN 0 ELSE PRF_INT_SIZE - 1 - 0 + 1
  BY <1>1, FS_Interval
<1> QED BY <1>1, <1>2, <1>3, SizeAssumption DEF Arf, Prf

\* The slots of a sequence of micro-ops, by their fields.
LEMMA WritersOf ==
  ASSUME NEW N \in Nat, NEW h \in [1..N -> Uop]
  PROVE  /\ Slots(h, Writes) = {k \in 1..N : h[k].valid /\ h[k].rd # 0}
         /\ Slots(h, Releases) = {k \in 1..N : h[k].valid /\ h[k].prev_valid}
         /\ Slots(h, Valid) = {k \in 1..N : h[k].valid}
<1>1. DOMAIN h = 1..N OBVIOUS
<1> QED BY <1>1 DEF Slots, Writes, Releases, Valid

TokensAre(h, r, c, N, D, reg, val) ==
  /\ D \subseteq Int /\ IsFiniteSet(D)
  /\ reg \in [D -> Arf \ {0}] /\ val \in [D -> Prf]
  /\ \A t \in D : t <= 0 => t < 0 /\ -t \in c /\ reg[t] = -t /\ val[t] = r[-t]
  /\ \A t \in D : t > 0 => /\ t \in 1..N /\ h[t].valid /\ h[t].rd # 0
                           /\ reg[t] = h[t].rd /\ val[t] = h[t].prd
  /\ \A t \in 1..N : h[t].valid /\ h[t].rd # 0 => t \in D
  /\ \A a \in c : a # 0 => -a \in D
  /\ \A t, u \in D : t <= 0 /\ u <= 0 /\ reg[t] = reg[u] => t = u

\* What the tokens of a sequence are: committed registers and writers.
LEMMA TokenFacts ==
  ASSUME NEW N \in Nat, NEW h \in [1..N -> Uop], NEW r, NEW c, Commits(r, c),
         NEW D, D = Tokens(h, c), NEW reg, reg = Reg(h, c), NEW val, val = Val(h, r, c)
  PROVE  TokensAre(h, r, c, N, D, reg, val)
<1>1. c \subseteq Nat /\ r \in [Arf -> Prf] /\ c \subseteq Arf /\ Arf \subseteq Nat BY ArfFacts DEF Commits
<1>2. PICK Neg : Neg = {-a : a \in c \ {0}} OBVIOUS
<1>3. PICK Pos : Pos = {k \in 1..N : h[k].valid /\ h[k].rd # 0} OBVIOUS
<1>4. D = Neg \cup Pos BY <1>2, <1>3, WritersOf DEF Tokens
<1>5. \A t \in Neg : t \in Int /\ t < 0 /\ -t \in c /\ -t # 0 BY <1>1, <1>2
<1>6. \A t \in Pos : t \in Int /\ t > 0 /\ t \in 1..N /\ h[t].valid /\ h[t].rd # 0 BY <1>3
<1>7. \A t \in D : reg[t] = (IF t < 0 THEN -t ELSE h[t].rd) /\ val[t] = (IF t < 0 THEN r[-t] ELSE h[t].prd)
  BY DEF Reg, Val
<1>8. D \subseteq Int BY <1>4, <1>5, <1>6
<1>9. \A t \in D : t <= 0 => t < 0 /\ -t \in c /\ reg[t] = -t /\ val[t] = r[-t] /\ -t # 0
  BY <1>4, <1>5, <1>6, <1>7
<1>10. \A t \in D : t > 0 => /\ t \in 1..N /\ h[t].valid /\ h[t].rd # 0
                             /\ reg[t] = h[t].rd /\ val[t] = h[t].prd
  BY <1>4, <1>5, <1>6, <1>7
<1>11. \A t \in D : reg[t] \in Arf \ {0} /\ val[t] \in Prf
  <2> TAKE t \in D
  <2>1. CASE t <= 0 BY <1>1, <1>9, <2>1
  <2>2. CASE ~(t <= 0)
    <3>1. t > 0 BY <1>8, <2>2
    <3>2. t \in 1..N /\ h[t].rd # 0 /\ reg[t] = h[t].rd /\ val[t] = h[t].prd BY <1>10, <3>1
    <3>3. h[t] \in Uop BY <3>2
    <3> QED BY <3>2, <3>3 DEF Uop
  <2> QED BY <2>1, <2>2
<1>12. reg \in [D -> Arf \ {0}] /\ val \in [D -> Prf]
  <2>1. DOMAIN reg = D /\ DOMAIN val = D /\ reg = [t \in DOMAIN reg |-> reg[t]] /\ val = [t \in DOMAIN val |-> val[t]]
    BY DEF Reg, Val
  <2> QED BY <1>11, <2>1
<1>13. IsFiniteSet(D)
  <2>1. IsFiniteSet(1..N) BY FS_Interval
  <2>2. Pos \subseteq 1..N BY <1>3
  <2>3. IsFiniteSet(Pos) BY <2>1, <2>2, FS_Subset
  <2>4. c \ {0} \subseteq Arf BY <1>1
  <2>5. IsFiniteSet(c \ {0}) BY <2>4, ArfFacts, FS_Subset
  <2> DEFINE F == [a \in c \ {0} |-> -a]
  <2>6. F \in Surjection(c \ {0}, Neg) BY <1>2 DEF Surjection
  <2>7. IsFiniteSet(Neg) BY <2>5, <2>6, FS_Surjection
  <2> QED BY <1>4, <2>3, <2>7, FS_Union
<1>14. \A t \in 1..N : h[t].valid /\ h[t].rd # 0 => t \in D BY <1>3, <1>4
<1>15. \A a \in c : a # 0 => -a \in D BY <1>2, <1>4
<1>16. \A t, u \in D : t <= 0 /\ u <= 0 /\ reg[t] = reg[u] => t = u
  <2> SUFFICES ASSUME NEW t \in D, NEW u \in D, t <= 0, u <= 0, reg[t] = reg[u] PROVE t = u OBVIOUS
  <2>1. -t = -u /\ t \in Int /\ u \in Int BY <1>8, <1>9
  <2> QED BY <2>1
<1> QED BY <1>8, <1>9, <1>10, <1>12, <1>13, <1>14, <1>15, <1>16 DEF TokensAre

\* The token t is what the k-th micro-op finds in a.
Nearest(D, reg, a, t, k) == /\ t \in D /\ t < k /\ reg[t] = a
                            /\ \A u \in D : u < k /\ reg[u] = a => u <= t

HeldAt(h, r, c, D, reg, val, k, a) ==
  /\ Known(h, c, a, k) => \E t \in D : Nearest(D, reg, a, t, k)
  /\ \A t \in D : t < k /\ reg[t] = a => Known(h, c, a, k)
  /\ \A t \in D : Nearest(D, reg, a, t, k) => Held(h, r, a, k) = val[t]
  /\ ~Known(h, c, a, k) => Held(h, r, a, k) = r[a]

\* The register held before the k-th is that of the nearest older token.
LEMMA HeldIsNearest ==
  ASSUME NEW N \in Nat, NEW h \in [1..N -> Uop], NEW r, NEW c, Commits(r, c),
         NEW D, D = Tokens(h, c), NEW reg, reg = Reg(h, c), NEW val, val = Val(h, r, c),
         NEW k \in 1..(N + 1), NEW a \in Arf \ {0}
  PROVE  HeldAt(h, r, c, D, reg, val, k, a)
<1>1. /\ D \subseteq Int
      /\ \A t \in D : t <= 0 => t < 0 /\ -t \in c /\ reg[t] = -t /\ val[t] = r[-t]
      /\ \A t \in D : t > 0 => /\ t \in 1..N /\ h[t].valid /\ h[t].rd # 0
                               /\ reg[t] = h[t].rd /\ val[t] = h[t].prd
      /\ \A t \in 1..N : h[t].valid /\ h[t].rd # 0 => t \in D
      /\ \A b \in c : b # 0 => -b \in D
  <2>1. TokensAre(h, r, c, N, D, reg, val) BY TokenFacts
  <2> QED BY <2>1 DEF TokensAre
<1>2. PICK B : B = Behind(h, a, k) OBVIOUS
<1>3. \A j \in B : j \in D /\ j > 0 /\ j < k /\ reg[j] = a /\ j \in 1..N /\ h[j].prd = val[j]
  <2> TAKE j \in B
  <2>1. j \in 1..(k - 1) /\ h[j].valid /\ h[j].rd # 0 /\ h[j].rd = a BY <1>2 DEF Behind, Writes
  <2>2. j \in 1..N /\ j > 0 /\ j < k BY <2>1
  <2> QED BY <1>1, <2>1, <2>2
<1>4. \A u \in D : u > 0 /\ u < k /\ reg[u] = a => u \in B
  <2> SUFFICES ASSUME NEW u \in D, u > 0, u < k, reg[u] = a PROVE u \in B OBVIOUS
  <2>1. u \in 1..N /\ h[u].valid /\ h[u].rd # 0 /\ h[u].rd = a BY <1>1
  <2>2. u \in 1..(k - 1) BY <2>1
  <2> QED BY <1>2, <2>1, <2>2 DEF Behind, Writes
<1>5. a \in Int /\ a # 0 /\ c \subseteq Arf /\ a > 0 BY ArfFacts DEF Commits
<1>6. CASE B # {}
  <2>1. B \subseteq 1..N BY <1>3
  <2>2. PICK x : x = Max(B) OBVIOUS
  <2>3. x \in B /\ \A j \in B : j <= x BY <1>6, <2>1, <2>2, MaxIs
  <2>4. x \in D /\ x > 0 /\ x < k /\ reg[x] = a /\ h[x].prd = val[x] /\ x \in Int BY <1>3, <2>3
  <2>5. Held(h, r, a, k) = val[x] BY <1>2, <1>6, <2>2, <2>4 DEF Held
  <2>6. \A u \in D : u < k /\ reg[u] = a => u <= x
    <3> SUFFICES ASSUME NEW u \in D, u < k, reg[u] = a PROVE u <= x OBVIOUS
    <3>1. u \in Int BY <1>1
    <3>2. CASE u > 0 BY <1>4, <2>3, <3>2
    <3>3. CASE ~(u > 0) BY <2>4, <3>1, <3>3
    <3> QED BY <3>2, <3>3
  <2>7. Nearest(D, reg, a, x, k) BY <2>4, <2>6 DEF Nearest
  <2>8. \A t \in D : Nearest(D, reg, a, t, k) => t = x
    <3> SUFFICES ASSUME NEW t \in D, Nearest(D, reg, a, t, k) PROVE t = x OBVIOUS
    <3>1. x <= t BY <2>4 DEF Nearest
    <3>2. t <= x BY <2>6 DEF Nearest
    <3>3. t \in Int BY <1>1
    <3> QED BY <2>4, <3>1, <3>2, <3>3
  <2>9. Known(h, c, a, k) BY <1>2, <1>6 DEF Known
  <2> QED BY <2>4, <2>5, <2>7, <2>8, <2>9 DEF HeldAt
<1>7. CASE B = {}
  <2>1. Held(h, r, a, k) = r[a] BY <1>2, <1>7 DEF Held
  <2>2. Known(h, c, a, k) <=> a \in c BY <1>2, <1>7 DEF Known
  <2>3. \A t \in D : t < k /\ reg[t] = a => t = -a /\ a \in c /\ val[t] = r[a]
    <3> SUFFICES ASSUME NEW t \in D, t < k, reg[t] = a PROVE t = -a /\ a \in c /\ val[t] = r[a] OBVIOUS
    <3>1. t \in Int /\ ~(t > 0) BY <1>1, <1>4, <1>7
    <3>2. t <= 0 BY <3>1
    <3>3. -t \in c /\ a = -t /\ val[t] = r[-t] BY <1>1, <3>2
    <3> QED BY <3>1, <3>3
  <2>4. a \in c => Nearest(D, reg, a, -a, k)
    <3> SUFFICES ASSUME a \in c PROVE Nearest(D, reg, a, -a, k) OBVIOUS
    <3>1. -a \in D /\ -a <= 0 /\ -a < k BY <1>1, <1>5
    <3>2. reg[-a] = -(-a) BY <1>1, <3>1
    <3>3. reg[-a] = a BY <1>5, <3>2
    <3>4. \A u \in D : u < k /\ reg[u] = a => u <= -a BY <1>5, <2>3
    <3> QED BY <3>1, <3>3, <3>4 DEF Nearest
  <2>5. \A t \in D : Nearest(D, reg, a, t, k) => val[t] = r[a] BY <2>3 DEF Nearest
  <2>6. a \in c => \E t \in D : Nearest(D, reg, a, t, k) BY <1>1, <1>5, <2>4
  <2> QED BY <2>1, <2>2, <2>3, <2>5, <2>6 DEF HeldAt
<1> QED BY <1>6, <1>7

\* What the first m micro-ops release, and what that leaves.
Freed(h, m) == {i \in Slots(h, Releases) : i <= m}

Accounted(h, r, c, m, D, reg, val, G) ==
  /\ IsFiniteSet(Freed(h, m)) /\ IsFiniteSet(G) /\ Cardinality(Freed(h, m)) = Cardinality(G)
  /\ {h[i].prev : i \in Freed(h, m)} = {val[t] : t \in G}
  /\ \A i \in Freed(h, m), t \in D : h[i].prev = val[t] => Precedes(D, reg, t, i)
  /\ Freed(h, m) = Overwriting(D, reg, m)

\* The registers that the first m release are those of the values that they
\* overwrite, each once.
LEMMA Account ==
  ASSUME NEW N \in Nat, NEW h \in [1..N -> Uop], NEW r, NEW c, Commits(r, c),
         Linked(h, r, c), Unaliased(h, r, c), NEW m \in Int,
         NEW D, D = Tokens(h, c), NEW reg, reg = Reg(h, c), NEW val, val = Val(h, r, c),
         NEW G, G = Overwritten(D, reg, m)
  PROVE  Accounted(h, r, c, m, D, reg, val, G)
<1>1. /\ D \subseteq Int /\ IsFiniteSet(D) /\ reg \in [D -> Arf \ {0}]
      /\ \A t \in D : t > 0 => /\ t \in 1..N /\ h[t].valid /\ h[t].rd # 0
                               /\ reg[t] = h[t].rd /\ val[t] = h[t].prd
      /\ \A t \in 1..N : h[t].valid /\ h[t].rd # 0 => t \in D
      /\ \A t, u \in D : t <= 0 /\ u <= 0 /\ reg[t] = reg[u] => t = u
  <2>1. TokensAre(h, r, c, N, D, reg, val) BY TokenFacts
  <2> QED BY <2>1 DEF TokensAre
<1>2. PICK R : R = Freed(h, m) OBVIOUS
<1>3. R = {k \in 1..N : k <= m /\ h[k].valid /\ h[k].prev_valid} BY <1>2, WritersOf DEF Freed
<1>4. \A k \in 1..N : h[k].valid => /\ h[k].rd # 0 => h[k].prev = Held(h, r, h[k].rd, k)
                                    /\ h[k].prev_valid <=> h[k].rd # 0 /\ Known(h, c, h[k].rd, k)
  <2>1. DOMAIN h = 1..N OBVIOUS
  <2> QED BY <2>1 DEF Linked, Writes
<1>5. \A k \in D : k > 0 =>
        /\ h[k].prev_valid <=> \E t \in D : t < k /\ reg[t] = reg[k]
        /\ h[k].prev_valid => \E t \in D : Precedes(D, reg, t, k) /\ h[k].prev = val[t]
  <2> SUFFICES ASSUME NEW k \in D, k > 0
               PROVE  /\ h[k].prev_valid <=> \E t \in D : t < k /\ reg[t] = reg[k]
                      /\ h[k].prev_valid => \E t \in D : Precedes(D, reg, t, k) /\ h[k].prev = val[t]
    OBVIOUS
  <2>1. k \in 1..N /\ k \in 1..(N + 1) /\ h[k].valid /\ h[k].rd # 0 /\ reg[k] = h[k].rd BY <1>1
  <2>2. PICK a : a = reg[k] OBVIOUS
  <2>3. a \in Arf \ {0} BY <1>1, <2>2
  <2>4. /\ Known(h, c, a, k) => \E t \in D : Nearest(D, reg, a, t, k)
        /\ \A t \in D : t < k /\ reg[t] = a => Known(h, c, a, k)
        /\ \A t \in D : Nearest(D, reg, a, t, k) => Held(h, r, a, k) = val[t]
    <3>1. HeldAt(h, r, c, D, reg, val, k, a) BY <2>1, <2>3, HeldIsNearest
    <3> QED BY <3>1 DEF HeldAt
  <2>5. h[k].prev_valid <=> Known(h, c, a, k) BY <1>4, <2>1, <2>2
  <2>6. h[k].prev = Held(h, r, a, k) BY <1>4, <2>1, <2>2
  <2>7. \A t \in D : Nearest(D, reg, a, t, k) => Precedes(D, reg, t, k) /\ t < k /\ reg[t] = a
    BY <2>2 DEF Nearest, Precedes
  <2> QED BY <2>2, <2>4, <2>5, <2>6, <2>7
<1>6. R = Overwriting(D, reg, m)
  <2>1. \A k \in R : k \in Overwriting(D, reg, m)
    <3> TAKE k \in R
    <3>1. k \in 1..N /\ k <= m /\ h[k].valid /\ h[k].prev_valid BY <1>3
    <3>2. k \in D /\ k > 0 BY <1>1, <1>4, <3>1
    <3>3. \E t \in D : t < k /\ reg[t] = reg[k] BY <1>5, <3>1, <3>2
    <3> QED BY <3>1, <3>2, <3>3 DEF Overwriting
  <2>2. \A k \in Overwriting(D, reg, m) : k \in R
    <3> SUFFICES ASSUME NEW k \in D, 0 < k, k <= m, \E t \in D : t < k /\ reg[t] = reg[k] PROVE k \in R
      BY DEF Overwriting
    <3>1. k \in Int /\ k > 0 BY <1>1
    <3>2. h[k].prev_valid BY <1>5, <3>1
    <3> QED BY <1>1, <1>3, <3>1, <3>2
  <2> QED BY <2>1, <2>2
<1>7. PICK prev : prev = [i \in R |-> h[i].prev] OBVIOUS
<1>8. \A i \in R : \E t \in D : Precedes(D, reg, t, i) /\ prev[i] = val[t]
  <2> TAKE i \in R
  <2>1. i \in D /\ i > 0 /\ h[i].prev_valid BY <1>1, <1>3, <1>4
  <2> QED BY <1>5, <1>7, <2>1
<1>9. \A t, u \in D : val[t] = val[u] => t = u BY DEF Unaliased
<1>10. Valued(D, reg, val, prev, R, G)
  <2>1. D \subseteq Int /\ IsFiniteSet(D) /\ m \in Int /\ G = Overwritten(D, reg, m) BY <1>1
  <2>2. \A t, u \in D : t <= 0 /\ u <= 0 /\ reg[t] = reg[u] => t = u BY <1>1
  <2> QED BY ONLY <2>1, <2>2, <1>6, <1>8, <1>9, Values
<1>11. {prev[i] : i \in R} = {h[i].prev : i \in R} BY <1>7
<1> QED BY <1>2, <1>6, <1>7, <1>10, <1>11 DEF Accounted, Valued

LiveAre(D, L) == IsFiniteSet(L) /\ Cardinality(L) = Cardinality(D) + 1

\* Different values, none of them p0, are one fewer than the busy registers.
LEMMA LiveCount ==
  ASSUME NEW D, IsFiniteSet(D), NEW val, \A t \in D : val[t] # 0,
         \A t, u \in D : val[t] = val[u] => t = u, NEW L, L = {0} \cup {val[t] : t \in D}
  PROVE  LiveAre(D, L)
<1> DEFINE V == {val[t] : t \in D}
           F == [t \in D |-> val[t]]
<1>1. F \in Bijection(D, V)
  <2>1. F \in [D -> V] OBVIOUS
  <2>2. F \in Injection(D, V) BY <2>1 DEF Injection, IsInjective
  <2>3. F \in Surjection(D, V) BY <2>1 DEF Surjection
  <2> QED BY <2>2, <2>3 DEF Bijection
<1>2. IsFiniteSet(V) /\ Cardinality(V) = Cardinality(D)
  <2>1. ExistsBijection(D, V) BY <1>1 DEF ExistsBijection
  <2> HIDE DEF V
  <2> QED BY <2>1, FS_Bijection
<1>3. 0 \notin V OBVIOUS
<1>4. L = V \cup {0} OBVIOUS
<1>5. IsFiniteSet(V \cup {0}) /\ Cardinality(V \cup {0}) = Cardinality(V) + 1
  <2>1. PICK W : W = V OBVIOUS
  <2>2. IsFiniteSet(W) /\ 0 \notin W BY <1>2, <1>3, <2>1
  <2>3. /\ IsFiniteSet(W \cup {0})
        /\ Cardinality(W \cup {0}) = IF 0 \in W THEN Cardinality(W) ELSE Cardinality(W) + 1
    BY ONLY <2>2, FS_AddElement
  <2>4. Cardinality(W \cup {0}) = Cardinality(W) + 1 BY ONLY <2>2, <2>3
  <2> QED BY <2>1, <2>3, <2>4
<1>6. Cardinality(V) = Cardinality(D) /\ L = V \cup {0} /\ IsFiniteSet(V \cup {0})
      /\ Cardinality(V \cup {0}) = Cardinality(V) + 1
  BY <1>2, <1>4, <1>5
<1> HIDE DEF V
<1> QED BY ONLY <1>6 DEF LiveAre

-----------------------------------------------------------------------------
(* Commit: what retires becomes the committed state.                         *)

Rest(f, N) == [k \in 1..N |-> IF k <= COMMIT_WIDTH THEN NoUop ELSE f[k]]

\* f begins with the group U that retires.
Begins(f, N, U) ==
  /\ N \in Nat /\ COMMIT_WIDTH \in Nat /\ COMMIT_WIDTH <= N
  /\ f \in [1..N -> Uop] /\ U \in [1..COMMIT_WIDTH -> Uop]
  /\ \A j \in 1..COMMIT_WIDTH : f[j] = U[j]

\* The committed map after retiring U is what the next micro-op reads.
LEMMA CommittedIsHeld ==
  ASSUME NEW N, NEW f, NEW U, Begins(f, N, U), Commits(r_rat, arf_recover), NEW a \in Arf
  PROVE  /\ r_rat_next(U)[a] = Held(f, r_rat, a, COMMIT_WIDTH + 1)
         /\ a # 0 => (a \in arf_recover_next(U) <=> Known(f, arf_recover, a, COMMIT_WIDTH + 1))
         /\ a = 0 => a \in arf_recover_next(U) /\ r_rat_next(U)[a] = 0
<1>0. COMMIT_WIDTH \in Nat /\ COMMIT_WIDTH <= N /\ N \in Nat /\ U \in [1..COMMIT_WIDTH -> Uop]
      /\ \A j \in 1..COMMIT_WIDTH : f[j] = U[j]
  BY DEF Begins
<1>1. PICK B : B = Behind(f, a, COMMIT_WIDTH + 1) OBVIOUS
<1>2. B = {j \in 1..COMMIT_WIDTH : U[j].valid /\ U[j].rd # 0 /\ U[j].rd = a}
  BY <1>0, <1>1 DEF Behind, Writes
<1>3. Slots(U, Writes) = {j \in 1..COMMIT_WIDTH : U[j].valid /\ U[j].rd # 0} BY <1>0, WritersOf
<1>4. Writers(U, a, COMMIT_WIDTH + 1) = B
  <2>1. Writers(U, a, COMMIT_WIDTH + 1) = {j \in Slots(U, Writes) : j < COMMIT_WIDTH + 1 /\ U[j].rd = a}
    BY DEF Writers
  <2> QED BY <1>0, <1>2, <1>3, <2>1
<1>5. r_rat_next(U)[a] = IF B = {} THEN r_rat[a] ELSE U[Max(B)].prd BY <1>4 DEF r_rat_next
<1>6. B # {} => Max(B) \in 1..COMMIT_WIDTH
  <2>1. B \subseteq 1..COMMIT_WIDTH BY <1>2
  <2> QED BY <1>0, <2>1, MaxIs
<1>7. r_rat_next(U)[a] = Held(f, r_rat, a, COMMIT_WIDTH + 1) BY <1>0, <1>1, <1>5, <1>6 DEF Held
<1>8. a \in arf_recover_next(U) <=> a \in arf_recover \/ B # {}
  <2>1. arf_recover_next(U) = arf_recover \cup {U[i].rd : i \in {j \in 1..COMMIT_WIDTH : U[j].valid /\ U[j].rd # 0}}
    BY <1>3 DEF arf_recover_next
  <2> QED BY <1>2, <2>1
<1>9. a = 0 => a \in arf_recover /\ r_rat[a] = 0 /\ B = {} BY <1>2 DEF Commits
<1> QED BY <1>1, <1>5, <1>7, <1>8, <1>9 DEF Known

\* Retiring U changes nothing that a younger micro-op reads.
LEMMA CommitKeeps ==
  ASSUME NEW N, NEW f, NEW U, Begins(f, N, U), Commits(r_rat, arf_recover),
         NEW rest, rest = Rest(f, N),
         NEW r2, r2 = r_rat_next(U), NEW c2, c2 = arf_recover_next(U)
  PROVE  /\ Commits(r2, c2) /\ rest \in [1..N -> Uop]
         /\ \A a \in Arf, k \in (COMMIT_WIDTH + 1)..(N + 1) :
              /\ Held(rest, r2, a, k) = Held(f, r_rat, a, k)
              /\ a # 0 => (Known(rest, c2, a, k) <=> Known(f, arf_recover, a, k))
<1>0. /\ COMMIT_WIDTH \in Nat /\ COMMIT_WIDTH <= N /\ N \in Nat /\ U \in [1..COMMIT_WIDTH -> Uop]
      /\ f \in [1..N -> Uop]
  BY DEF Begins
<1>1. rest \in [1..N -> Uop] BY <1>0, NoUopFacts DEF Rest
<1>2. Commits(r2, c2)
  <2>1. Slots(U, Writes) = {j \in 1..COMMIT_WIDTH : U[j].valid /\ U[j].rd # 0} BY <1>0, WritersOf
  <2>2. c2 \subseteq Arf
    <3>1. \A i \in Slots(U, Writes) : U[i].rd \in Arf BY <1>0, <2>1 DEF Uop
    <3> QED BY <3>1 DEF arf_recover_next, Commits
  <2>3. \A a \in Arf : r2[a] \in Prf
    <3> TAKE a \in Arf
    <3>1. PICK w : w = Writers(U, a, COMMIT_WIDTH + 1) OBVIOUS
    <3>2. w \subseteq 1..COMMIT_WIDTH BY <2>1, <3>1 DEF Writers
    <3>3. w # {} => Max(w) \in 1..COMMIT_WIDTH BY <1>0, <3>2, MaxIs
    <3>4. r2[a] = IF w = {} THEN r_rat[a] ELSE U[Max(w)].prd BY <3>1 DEF r_rat_next
    <3> QED BY <1>0, <3>3, <3>4 DEF Commits, Uop
  <2>4. r2 \in [Arf -> Prf] BY <2>3 DEF r_rat_next
  <2>5. 0 \in c2 /\ r2[0] = 0 BY ArfFacts, CommittedIsHeld
  <2> QED BY <2>2, <2>4, <2>5 DEF Commits
<1>3. ASSUME NEW a \in Arf, NEW k \in (COMMIT_WIDTH + 1)..(N + 1)
      PROVE  /\ Held(rest, r2, a, k) = Held(f, r_rat, a, k)
             /\ a # 0 => (Known(rest, c2, a, k) <=> Known(f, arf_recover, a, k))
  <2>1. PICK B : B = Behind(f, a, k) OBVIOUS
  <2>2. PICK B2 : B2 = Behind(rest, a, k) OBVIOUS
  <2>3. PICK B0 : B0 = Behind(f, a, COMMIT_WIDTH + 1) OBVIOUS
  <2>4. B2 = {j \in B : j > COMMIT_WIDTH}
    <3>1. \A j \in 1..(k - 1) : j \in 1..N BY <1>0
    <3>2. \A j \in 1..N : rest[j] = IF j <= COMMIT_WIDTH THEN NoUop ELSE f[j] BY DEF Rest
    <3>3. \A j \in 1..(k - 1) : j > COMMIT_WIDTH => rest[j] = f[j] BY <1>0, <3>1, <3>2
    <3>4. \A j \in 1..(k - 1) : ~(j > COMMIT_WIDTH) => ~rest[j].valid BY <1>0, <3>1, <3>2, NoUopFacts
    <3> QED BY <2>1, <2>2, <3>3, <3>4 DEF Behind, Writes
  <2>5. B0 = {j \in B : j <= COMMIT_WIDTH} /\ B \subseteq 1..N
    <3>1. \A j : j \in 1..((COMMIT_WIDTH + 1) - 1) <=> j \in 1..(k - 1) /\ j <= COMMIT_WIDTH BY <1>0
    <3>2. \A j \in 1..(k - 1) : j \in 1..N BY <1>0
    <3> QED BY <2>1, <2>3, <3>1, <3>2 DEF Behind
  <2>6. r2[a] = Held(f, r_rat, a, COMMIT_WIDTH + 1) BY CommittedIsHeld
  <2>7. CASE B2 # {}
    <3>1. B2 \subseteq 1..N /\ B \subseteq Int
      <4>1. 1..N \subseteq Int BY <1>0
      <4>2. B2 \subseteq B BY <2>4
      <4> QED BY <2>5, <4>1, <4>2
    <3>2. PICK x : x = Max(B2) OBVIOUS
    <3>3. x \in B2 /\ \A j \in B2 : j <= x BY <1>0, <2>7, <3>1, <3>2, MaxIs
    <3>4. x \in B /\ x > COMMIT_WIDTH /\ x \in 1..N BY <2>4, <2>5, <3>3
    <3>5. \A j \in B : j <= x
      <4> TAKE j \in B
      <4>1. j \in Int BY <3>1
      <4>2. CASE j > COMMIT_WIDTH BY <2>4, <3>3, <4>2
      <4>3. CASE ~(j > COMMIT_WIDTH) BY <1>0, <3>4, <4>1, <4>3
      <4> QED BY <4>2, <4>3
    <3>6. Max(B) = x BY <3>1, <3>4, <3>5, MaxOf
    <3>7. rest[x] = f[x] BY <1>0, <3>4 DEF Rest
    <3>8. Held(rest, r2, a, k) = rest[x].prd BY <2>2, <2>7, <3>2 DEF Held
    <3>9. Held(f, r_rat, a, k) = f[x].prd BY <2>1, <3>4, <3>6 DEF Held
    <3> QED BY <2>1, <2>2, <2>7, <3>4, <3>7, <3>8, <3>9 DEF Known
  <2>8. CASE B2 = {}
    <3>1. B0 = B
      <4>1. \A j \in B : j \in Int /\ ~(j > COMMIT_WIDTH) BY <2>4, <2>5, <2>8
      <4>2. \A j \in B : j <= COMMIT_WIDTH BY <1>0, <4>1
      <4> QED BY <2>5, <4>2
    <3>2. Held(rest, r2, a, k) = r2[a] BY <2>2, <2>8 DEF Held
    <3>3. Held(f, r_rat, a, k) = Held(f, r_rat, a, COMMIT_WIDTH + 1) BY <2>1, <2>3, <3>1 DEF Held
    <3>4. a # 0 => (a \in c2 <=> Known(f, arf_recover, a, COMMIT_WIDTH + 1)) BY CommittedIsHeld
    <3> QED BY <2>1, <2>2, <2>3, <2>6, <2>8, <3>1, <3>2, <3>3, <3>4 DEF Known
  <2> QED BY <2>7, <2>8
<1> QED BY <1>1, <1>2, <1>3

\* Retiring U keeps every value that U does not overwrite, and no other.
LEMMA CommitTokens ==
  ASSUME NEW N, NEW f, NEW U, Begins(f, N, U), Commits(r_rat, arf_recover),
         NEW D, D = Tokens(f, arf_recover), NEW reg, reg = Reg(f, arf_recover),
         NEW val, val = Val(f, r_rat, arf_recover),
         NEW G, G = Overwritten(D, reg, COMMIT_WIDTH),
         NEW rest, rest = Rest(f, N),
         NEW r2, r2 = r_rat_next(U), NEW c2, c2 = arf_recover_next(U),
         NEW D2, D2 = Tokens(rest, c2), NEW val2, val2 = Val(rest, r2, c2),
         NEW nu, nu = [t \in D \ G |-> IF t <= COMMIT_WIDTH THEN -reg[t] ELSE t]
  PROVE  nu \in Bijection(D \ G, D2) /\ \A t \in D \ G : val2[nu[t]] = val[t]
<1>0. /\ COMMIT_WIDTH \in Nat /\ COMMIT_WIDTH <= N /\ N \in Nat /\ U \in [1..COMMIT_WIDTH -> Uop]
      /\ f \in [1..N -> Uop] /\ COMMIT_WIDTH + 1 \in 1..(N + 1)
  BY DEF Begins
<1>1. Commits(r2, c2) /\ rest \in [1..N -> Uop] BY CommitKeeps
<1>2. /\ D \subseteq Int /\ reg \in [D -> Arf \ {0}]
      /\ \A t \in D : t > 0 => /\ t \in 1..N /\ f[t].valid /\ f[t].rd # 0
                               /\ reg[t] = f[t].rd /\ val[t] = f[t].prd
      /\ \A t \in 1..N : f[t].valid /\ f[t].rd # 0 => t \in D
  <2>1. TokensAre(f, r_rat, arf_recover, N, D, reg, val) BY <1>0, TokenFacts
  <2> QED BY <2>1 DEF TokensAre
<1>3. /\ D2 \subseteq Int
      /\ \A t \in D2 : t <= 0 => t < 0 /\ -t \in c2 /\ val2[t] = r2[-t]
      /\ \A t \in D2 : t > 0 => /\ t \in 1..N /\ rest[t].valid /\ rest[t].rd # 0
                                /\ val2[t] = rest[t].prd
      /\ \A t \in 1..N : rest[t].valid /\ rest[t].rd # 0 => t \in D2
      /\ \A a \in c2 : a # 0 => -a \in D2
  <2>1. TokensAre(rest, r2, c2, N, D2, Reg(rest, c2), val2) BY <1>0, <1>1, TokenFacts
  <2> QED BY <2>1 DEF TokensAre
<1>4. \A t \in 1..N : rest[t] = IF t <= COMMIT_WIDTH THEN NoUop ELSE f[t] BY DEF Rest
<1>5. \A a \in Arf \ {0} : HeldAt(f, r_rat, arf_recover, D, reg, val, COMMIT_WIDTH + 1, a)
  BY <1>0, HeldIsNearest
<1>6. \A t \in D : t \in G <=> \E i \in D : t < i /\ i <= COMMIT_WIDTH /\ reg[i] = reg[t]
  BY DEF Overwritten
<1>7. \A t \in D \ G : t <= COMMIT_WIDTH => Nearest(D, reg, reg[t], t, COMMIT_WIDTH + 1)
  <2> SUFFICES ASSUME NEW t \in D \ G, t <= COMMIT_WIDTH
               PROVE Nearest(D, reg, reg[t], t, COMMIT_WIDTH + 1)
    OBVIOUS
  <2>1. t < COMMIT_WIDTH + 1 BY <1>0, <1>2
  <2>2. ASSUME NEW u \in D, u < COMMIT_WIDTH + 1, reg[u] = reg[t] PROVE u <= t
    <3>1. u \in Int /\ t \in Int /\ u <= COMMIT_WIDTH BY <1>0, <1>2, <2>2
    <3>2. ~(t < u) BY <1>6, <2>2, <3>1
    <3> QED BY <3>1, <3>2
  <2> QED BY <2>1, <2>2 DEF Nearest
<1>8. \A t \in D \ G : t <= COMMIT_WIDTH => -reg[t] \in D2 /\ val2[-reg[t]] = val[t] /\ reg[t] \in Nat /\ reg[t] > 0
  <2> SUFFICES ASSUME NEW t \in D \ G, t <= COMMIT_WIDTH
               PROVE -reg[t] \in D2 /\ val2[-reg[t]] = val[t] /\ reg[t] \in Nat /\ reg[t] > 0
    OBVIOUS
  <2>1. PICK a : a = reg[t] OBVIOUS
  <2>2. a \in Arf \ {0} /\ a \in Nat /\ a > 0 /\ a \in Arf BY <1>2, <2>1, ArfFacts
  <2>3. Nearest(D, reg, a, t, COMMIT_WIDTH + 1) BY <1>7, <2>1
  <2>4. Known(f, arf_recover, a, COMMIT_WIDTH + 1) /\ Held(f, r_rat, a, COMMIT_WIDTH + 1) = val[t]
    BY <1>5, <2>2, <2>3 DEF HeldAt, Nearest
  <2>5. a \in c2 /\ r2[a] = val[t] BY <2>2, <2>4, CommittedIsHeld
  <2>6. -a \in D2 /\ -a <= 0 BY <1>3, <2>2, <2>5
  <2>7. val2[-a] = r2[-(-a)] /\ -(-a) = a BY <1>3, <2>2, <2>6
  <2> QED BY <2>1, <2>2, <2>5, <2>6, <2>7
<1>9. \A t \in D \ G : ~(t <= COMMIT_WIDTH) => t \in D2 /\ val2[t] = val[t] /\ t > 0
  <2> SUFFICES ASSUME NEW t \in D \ G, ~(t <= COMMIT_WIDTH) PROVE t \in D2 /\ val2[t] = val[t] /\ t > 0
    OBVIOUS
  <2>1. t \in Int /\ t > 0 BY <1>0, <1>2
  <2>2. t \in 1..N /\ f[t].valid /\ f[t].rd # 0 /\ val[t] = f[t].prd BY <1>2, <2>1
  <2>3. rest[t] = f[t] BY <1>4, <2>2
  <2> QED BY <1>3, <2>1, <2>2, <2>3
<1>10. \A t \in D \ G : nu[t] \in D2 /\ val2[nu[t]] = val[t] BY <1>8, <1>9
<1>11. \A t, u \in D \ G : nu[t] = nu[u] => t = u
  <2> SUFFICES ASSUME NEW t \in D \ G, NEW u \in D \ G, nu[t] = nu[u] PROVE t = u OBVIOUS
  <2>0. t \in Int /\ u \in Int BY <1>2
  <2>1. CASE t <= COMMIT_WIDTH /\ u <= COMMIT_WIDTH
    <3>1. reg[t] = reg[u]
      <4>1. nu[t] = -reg[t] /\ nu[u] = -reg[u] BY <2>1
      <4>2. reg[t] \in Nat /\ reg[u] \in Nat BY <1>8, <2>1
      <4> QED BY <4>1, <4>2
    <3>2. ~(t < u) /\ ~(u < t) BY <1>6, <2>1, <3>1
    <3> QED BY <2>0, <3>2
  <2>2. CASE ~(t <= COMMIT_WIDTH) /\ ~(u <= COMMIT_WIDTH) BY <2>2
  <2>3. CASE t <= COMMIT_WIDTH /\ ~(u <= COMMIT_WIDTH)
    <3>1. nu[t] = -reg[t] /\ nu[u] = u /\ u > 0 BY <1>9, <2>3
    <3>2. reg[t] \in Nat BY <1>8, <2>3
    <3> QED BY <2>0, <3>1, <3>2
  <2>4. CASE ~(t <= COMMIT_WIDTH) /\ u <= COMMIT_WIDTH
    <3>1. nu[u] = -reg[u] /\ nu[t] = t /\ t > 0 BY <1>9, <2>4
    <3>2. reg[u] \in Nat BY <1>8, <2>4
    <3> QED BY <2>0, <3>1, <3>2
  <2> QED BY <2>1, <2>2, <2>3, <2>4
<1>12. \A u \in D2 : \E t \in D \ G : nu[t] = u
  <2> TAKE u \in D2
  <2>0. u \in Int BY <1>3
  <2>1. CASE u > 0
    <3>1. u \in 1..N /\ rest[u].valid /\ rest[u].rd # 0 BY <1>3, <2>1
    <3>2. ~(u <= COMMIT_WIDTH) /\ rest[u] = f[u] BY <1>4, <3>1, NoUopFacts
    <3>3. u \in D BY <1>2, <3>1, <3>2
    <3>4. u \notin G
      <4> SUFFICES ASSUME NEW i \in D, u < i, i <= COMMIT_WIDTH PROVE FALSE BY <1>6, <3>3
      <4>1. i \in Int BY <1>2
      <4> QED BY <1>0, <2>0, <3>2, <4>1
    <3>5. nu[u] = u BY <3>2, <3>3, <3>4
    <3> QED BY <3>3, <3>4, <3>5
  <2>2. CASE ~(u > 0)
    <3>1. u <= 0 /\ u < 0 /\ -u \in c2 BY <1>3, <2>0, <2>2
    <3>2. PICK a : a = -u OBVIOUS
    <3>3. a \in Arf \ {0} /\ a \in Arf /\ a \in c2 /\ u = -a BY <1>1, <2>0, <3>1, <3>2 DEF Commits
    <3>4. Known(f, arf_recover, a, COMMIT_WIDTH + 1) BY <3>3, CommittedIsHeld
    <3>5. PICK t \in D : Nearest(D, reg, a, t, COMMIT_WIDTH + 1) BY <1>5, <3>3, <3>4 DEF HeldAt
    <3>6. t < COMMIT_WIDTH + 1 /\ reg[t] = a BY <3>5 DEF Nearest
    <3>7. t \in Int /\ t <= COMMIT_WIDTH BY <1>0, <1>2, <3>6
    <3>8. t \notin G
      <4> SUFFICES ASSUME NEW i \in D, t < i, i <= COMMIT_WIDTH, reg[i] = reg[t] PROVE FALSE BY <1>6
      <4>1. i \in Int /\ i < COMMIT_WIDTH + 1 BY <1>0, <1>2
      <4>2. i <= t BY <3>5, <3>6, <4>1 DEF Nearest
      <4> QED BY <3>7, <4>1, <4>2
    <3>9. nu[t] = u BY <3>3, <3>6, <3>7, <3>8
    <3> QED BY <3>8, <3>9
  <2> QED BY <2>1, <2>2
<1>13. nu \in [D \ G -> D2] BY <1>10
<1>14. nu \in Injection(D \ G, D2) BY <1>11, <1>13 DEF Injection, IsInjective
<1>15. nu \in Surjection(D \ G, D2) BY <1>12, <1>13 DEF Surjection
<1> QED BY <1>10, <1>14, <1>15 DEF Bijection

\* What is left of f when its first group has been committed: the registers L2
\* of the registers L, without those that F released.
CommitDone(f, r, c, rest, r2, c2, L, L2, F) ==
  /\ Linked(rest, r2, c2) /\ Unaliased(rest, r2, c2)
  /\ IsFiniteSet(F) /\ IsFiniteSet(L)
  /\ L2 = L \ {f[i].prev : i \in F}
  /\ Cardinality(L2) = Cardinality(L) - Cardinality(F)
  /\ \A i \in F : f[i].prev # 0
  /\ \A i \in F, t \in Tokens(f, c) : f[i].prev = Val(f, r, c)[t] => t < i

\* Retiring U keeps the links, and releases exactly the values U overwrites.
LEMMA Commit ==
  ASSUME NEW N, NEW f, NEW U, Begins(f, N, U), Commits(r_rat, arf_recover),
         Linked(f, r_rat, arf_recover), Unaliased(f, r_rat, arf_recover),
         NEW rest, rest = Rest(f, N),
         NEW r2, r2 = r_rat_next(U), NEW c2, c2 = arf_recover_next(U),
         NEW L, L = Live(f, r_rat, arf_recover), NEW L2, L2 = Live(rest, r2, c2),
         NEW F, F = Freed(f, COMMIT_WIDTH)
  PROVE  CommitDone(f, r_rat, arf_recover, rest, r2, c2, L, L2, F)
<1>0. /\ COMMIT_WIDTH \in Nat /\ COMMIT_WIDTH <= N /\ N \in Nat /\ U \in [1..COMMIT_WIDTH -> Uop]
      /\ f \in [1..N -> Uop]
  BY DEF Begins
<1>1. PICK D : D = Tokens(f, arf_recover) OBVIOUS
<1>2. PICK reg : reg = Reg(f, arf_recover) OBVIOUS
<1>3. PICK val : val = Val(f, r_rat, arf_recover) OBVIOUS
<1>4. PICK G : G = Overwritten(D, reg, COMMIT_WIDTH) OBVIOUS
<1>5. PICK D2 : D2 = Tokens(rest, c2) OBVIOUS
<1>6. PICK val2 : val2 = Val(rest, r2, c2) OBVIOUS
<1>7. PICK nu : nu = [t \in D \ G |-> IF t <= COMMIT_WIDTH THEN -reg[t] ELSE t] OBVIOUS
<1>8. nu \in Bijection(D \ G, D2) /\ \A t \in D \ G : val2[nu[t]] = val[t]
  BY <1>1, <1>2, <1>3, <1>4, <1>5, <1>6, <1>7, CommitTokens
<1>9. /\ \A u \in D2 : \E t \in D \ G : nu[t] = u
      /\ \A t \in D \ G : nu[t] \in D2
      /\ \A t, u \in D \ G : nu[t] = nu[u] => t = u
  BY <1>8 DEF Bijection, Injection, Surjection, IsInjective
<1>10. Accounted(f, r_rat, arf_recover, COMMIT_WIDTH, D, reg, val, G)
  BY <1>0, <1>1, <1>2, <1>3, <1>4, Account
<1>11. /\ IsFiniteSet(F) /\ IsFiniteSet(G) /\ Cardinality(F) = Cardinality(G)
       /\ {f[i].prev : i \in F} = {val[t] : t \in G}
       /\ \A i \in F, t \in D : f[i].prev = val[t] => Precedes(D, reg, t, i)
  BY <1>10 DEF Accounted
<1>12. /\ \A t \in D : val[t] # 0
       /\ \A t, u \in D : val[t] = val[u] => t = u
  BY <1>1, <1>3 DEF Unaliased
<1>13. D \subseteq Int /\ IsFiniteSet(D) /\ G \subseteq D
  <2>0. TokensAre(f, r_rat, arf_recover, N, D, reg, val) BY <1>0, <1>1, <1>2, <1>3, TokenFacts
  <2>1. D \subseteq Int /\ IsFiniteSet(D) BY <2>0 DEF TokensAre
  <2> QED BY <1>4, <2>1 DEF Overwritten
<1>14. Unaliased(rest, r2, c2)
  <2>1. ASSUME NEW u \in D2 PROVE /\ val2[u] # 0
                                  /\ \A w \in D2 : val2[u] = val2[w] => u = w
    <3>1. PICK t \in D \ G : nu[t] = u BY <1>9
    <3>2. val2[u] = val[t] BY <1>8, <3>1
    <3>3. ASSUME NEW w \in D2, val2[u] = val2[w] PROVE u = w
      <4>1. PICK s \in D \ G : nu[s] = w BY <1>9
      <4>2. val2[w] = val[s] BY <1>8, <4>1
      <4>3. s = t BY <1>12, <3>2, <3>3, <4>2
      <4> QED BY <3>1, <4>1, <4>3
    <3> QED BY <1>12, <3>2, <3>3
  <2> QED BY <1>5, <1>6, <2>1 DEF Unaliased
<1>15. L = {0} \cup {val[t] : t \in D} /\ L2 = {0} \cup {val2[u] : u \in D2}
  BY <1>1, <1>3, <1>5, <1>6 DEF Live
<1>16. L2 = L \ {f[i].prev : i \in F}
  <2>1. {val2[u] : u \in D2} = {val[t] : t \in D \ G}
    <3>1. \A u \in D2 : \E t \in D \ G : val2[u] = val[t] BY <1>8, <1>9
    <3>2. \A t \in D \ G : \E u \in D2 : val2[u] = val[t] BY <1>8, <1>9
    <3> QED BY ONLY <3>1, <3>2
  <2>2. \A t \in D, s \in G : val[t] = val[s] => t = s BY <1>12, <1>13
  <2>3. {val[t] : t \in D \ G} = {val[t] : t \in D} \ {val[t] : t \in G} BY ONLY <2>2, <1>13
  <2>4. 0 \notin {val[t] : t \in G} BY <1>12, <1>13
  <2> QED BY <1>11, <1>15, <2>1, <2>3, <2>4
<1>17. IsFiniteSet(L) /\ Cardinality(L2) = Cardinality(L) - Cardinality(F)
  <2>1. IsFiniteSet(L) /\ Cardinality(L) = Cardinality(D) + 1
    <3>0. IsFiniteSet(D) /\ L = {0} \cup {val[t] : t \in D} BY <1>13, <1>15
    <3>1. LiveAre(D, L) BY ONLY <1>12, <3>0, LiveCount
    <3> QED BY <3>1 DEF LiveAre
  <2>2. IsFiniteSet(D \ G) /\ Cardinality(D \ G) = Cardinality(D) - Cardinality(D \cap G)
    BY <1>13, FS_Difference
  <2>3. D \cap G = G BY <1>13
  <2>4. IsFiniteSet(D2) /\ Cardinality(D2) = Cardinality(D \ G)
    <3>1. ExistsBijection(D \ G, D2) BY <1>8 DEF ExistsBijection
    <3> QED BY <2>2, <3>1, FS_Bijection
  <2>5. \A t \in D2 : val2[t] # 0 /\ \A u \in D2 : val2[t] = val2[u] => t = u
    BY <1>5, <1>6, <1>14 DEF Unaliased
  <2>6. Cardinality(L2) = Cardinality(D2) + 1
    <3>1. LiveAre(D2, L2) BY <1>15, <2>4, <2>5, LiveCount
    <3> QED BY <3>1 DEF LiveAre
  <2>7. Cardinality(D) \in Nat /\ Cardinality(G) \in Nat BY <1>11, <1>13, FS_CardinalityType
  <2>8. Cardinality(D \ G) = Cardinality(D) - Cardinality(G) BY <2>2, <2>3
  <2>9. Cardinality(F) = Cardinality(G) BY <1>11
  <2>10. Cardinality(L2) = Cardinality(L) - Cardinality(F)
    BY ONLY <2>1, <2>4, <2>6, <2>7, <2>8, <2>9
  <2> QED BY <2>1, <2>10
<1>18. \A i \in F : f[i].prev # 0
  <2> TAKE i \in F
  <2>1. f[i].prev \in {val[t] : t \in G} BY <1>11
  <2> QED BY <1>12, <1>13, <2>1
<1>19. \A i \in F, t \in D : f[i].prev = val[t] => t < i BY <1>11 DEF Precedes
<1>20. Linked(rest, r2, c2)
  <2>1. /\ rest \in [1..N -> Uop]
        /\ \A a \in Arf, k \in (COMMIT_WIDTH + 1)..(N + 1) :
              /\ Held(rest, r2, a, k) = Held(f, r_rat, a, k)
              /\ a # 0 => (Known(rest, c2, a, k) <=> Known(f, arf_recover, a, k))
    BY CommitKeeps
  <2>2. ASSUME NEW k \in 1..N, rest[k].valid
        PROVE  /\ rest[k].prs1 = Held(rest, r2, rest[k].rs1, k)
               /\ Writes(rest[k]) => rest[k].prev = Held(rest, r2, rest[k].rd, k)
               /\ rest[k].prev_valid <=> Writes(rest[k]) /\ Known(rest, c2, rest[k].rd, k)
    <3>1. rest[k] = IF k <= COMMIT_WIDTH THEN NoUop ELSE f[k] BY DEF Rest
    <3>2. k \in (COMMIT_WIDTH + 1)..(N + 1) /\ rest[k] = f[k] BY <1>0, <2>2, <3>1, NoUopFacts
    <3>3. f[k].rs1 \in Arf /\ f[k].rd \in Arf BY <1>0 DEF Uop
    <3>4. /\ f[k].prs1 = Held(f, r_rat, f[k].rs1, k)
          /\ Writes(f[k]) => f[k].prev = Held(f, r_rat, f[k].rd, k)
          /\ f[k].prev_valid <=> Writes(f[k]) /\ Known(f, arf_recover, f[k].rd, k)
      BY <1>0, <2>2, <3>2 DEF Linked
    <3>5. Writes(f[k]) => f[k].rd # 0 BY DEF Writes
    <3> QED BY <2>1, <3>2, <3>3, <3>4, <3>5
  <2>3. DOMAIN rest = 1..N BY <2>1
  <2> QED BY <2>2, <2>3 DEF Linked
<1> QED BY <1>1, <1>3, <1>11, <1>14, <1>16, <1>17, <1>18, <1>19, <1>20 DEF CommitDone

-----------------------------------------------------------------------------
(* Movement: the same micro-ops in the same order in other places.           *)

Alike(u, v) == /\ u.valid = v.valid /\ u.rd = v.rd /\ u.rs1 = v.rs1 /\ u.prs1 = v.prs1
               /\ u.prd = v.prd /\ u.prev = v.prev /\ u.prev_valid = v.prev_valid

\* h, of length M, holds the valid micro-ops of g, of length N, up to lim.
Moved(g, N, h, M, lim, place) ==
  /\ N \in Nat /\ M \in Nat /\ g \in [1..N -> Uop] /\ h \in [1..M -> Uop] /\ lim \in 0..N
  /\ \A k \in 1..M : h[k].valid =>
       place[k] \in 1..N /\ place[k] <= lim /\ Alike(h[k], g[place[k]])
  /\ \A j, k \in 1..M : h[j].valid /\ h[k].valid /\ j < k => place[j] < place[k]
  /\ \A p \in 1..N : g[p].valid /\ p <= lim => \E k \in 1..M : h[k].valid /\ place[k] = p

SameHeld(h, k, g, p, r, c, a) ==
  Held(h, r, a, k) = Held(g, r, a, p) /\ (Known(h, c, a, k) <=> Known(g, c, a, p))

\* Moving the micro-ops without changing their order changes nothing they
\* read.
LEMMA HeldMoves ==
  ASSUME NEW g, NEW N, NEW h, NEW M, NEW lim, NEW place, Moved(g, N, h, M, lim, place),
         NEW r, NEW c, NEW a, NEW k \in 1..(M + 1), NEW p \in 1..(lim + 1),
         \A j \in 1..M : h[j].valid => (j < k <=> place[j] < p)
  PROVE  SameHeld(h, k, g, p, r, c, a)
<1>1. /\ N \in Nat /\ M \in Nat /\ lim \in 0..N
      /\ \A j \in 1..M : h[j].valid =>
           place[j] \in 1..N /\ place[j] <= lim /\ Alike(h[j], g[place[j]])
      /\ \A i, j \in 1..M : h[i].valid /\ h[j].valid /\ i < j => place[i] < place[j]
      /\ \A q \in 1..N : g[q].valid /\ q <= lim => \E j \in 1..M : h[j].valid /\ place[j] = q
  BY DEF Moved
<1>2. PICK B : B = Behind(h, a, k) OBVIOUS
<1>3. PICK C : C = Behind(g, a, p) OBVIOUS
<1>4. B \subseteq 1..M /\ \A j \in 1..M : j \in B <=> j < k /\ h[j].valid /\ h[j].rd # 0 /\ h[j].rd = a
  <2>1. \A j : j \in 1..(k - 1) <=> j \in 1..M /\ j < k BY <1>1
  <2> QED BY <1>2, <2>1 DEF Behind, Writes
<1>5. C \subseteq 1..N /\ \A q \in 1..N : q \in C <=> q < p /\ g[q].valid /\ g[q].rd # 0 /\ g[q].rd = a
  <2>1. \A q : q \in 1..(p - 1) <=> q \in 1..N /\ q < p BY <1>1
  <2> QED BY <1>3, <2>1 DEF Behind, Writes
<1>6. \A j \in B : place[j] \in C /\ h[j].prd = g[place[j]].prd BY <1>1, <1>4, <1>5 DEF Alike
<1>7. \A q \in C : \E j \in B : place[j] = q
  <2> TAKE q \in C
  <2>1. q \in 1..N /\ q < p /\ g[q].valid /\ g[q].rd # 0 /\ g[q].rd = a BY <1>5
  <2>2. q <= lim BY <1>1, <2>1
  <2>3. PICK j \in 1..M : h[j].valid /\ place[j] = q BY <1>1, <2>1, <2>2
  <2>4. h[j].rd = g[q].rd BY <1>1, <2>3 DEF Alike
  <2> QED BY <1>4, <2>1, <2>3, <2>4
<1>8. CASE B = {}
  <2>1. C = {} BY <1>7, <1>8
  <2> QED BY <1>2, <1>3, <1>8, <2>1 DEF SameHeld, Held, Known
<1>9. CASE B # {}
  <2>1. PICK x : x = Max(B) OBVIOUS
  <2>2. x \in B /\ \A j \in B : j <= x BY <1>1, <1>4, <1>9, <2>1, MaxIs
  <2>3. place[x] \in C /\ h[x].prd = g[place[x]].prd /\ C # {} BY <1>6, <2>2
  <2>4. \A q \in C : q <= place[x]
    <3> TAKE q \in C
    <3>1. PICK j \in B : place[j] = q BY <1>7
    <3>2. j \in 1..M /\ x \in 1..M /\ h[j].valid /\ h[x].valid /\ j <= x BY <1>4, <2>2
    <3>3. q \in 1..N /\ place[x] \in 1..N BY <1>5, <2>3
    <3>4. CASE j = x BY <3>1, <3>3, <3>4
    <3>5. CASE j < x
      <4>1. place[j] < place[x] BY <1>1, <3>2, <3>5
      <4> QED BY <1>1, <3>1, <3>3, <4>1
    <3> QED BY <3>2, <3>4, <3>5
  <2>5. C \subseteq Int BY <1>5
  <2>6. Max(C) = place[x] BY <2>3, <2>4, <2>5, MaxOf
  <2> QED BY <1>2, <1>3, <1>9, <2>1, <2>3, <2>6 DEF SameHeld, Held, Known
<1> QED BY <1>8, <1>9

MoveKept(g, N, h, M, lim, r, c) ==
  /\ Linked(h, r, c) /\ Unaliased(h, r, c)
  /\ \A a \in Arf : SameHeld(h, M + 1, g, lim + 1, r, c, a)
  /\ lim = N => Live(h, r, c) = Live(g, r, c)

\* So it keeps the links, the values and the map.
LEMMA MoveKeeps ==
  ASSUME NEW g, NEW N, NEW h, NEW M, NEW lim, NEW place, Moved(g, N, h, M, lim, place),
         NEW r, NEW c, Commits(r, c), Linked(g, r, c), Unaliased(g, r, c)
  PROVE  MoveKept(g, N, h, M, lim, r, c)
<1>1. /\ N \in Nat /\ M \in Nat /\ g \in [1..N -> Uop] /\ h \in [1..M -> Uop] /\ lim \in 0..N
      /\ \A j \in 1..M : h[j].valid =>
           place[j] \in 1..N /\ place[j] <= lim /\ Alike(h[j], g[place[j]])
      /\ \A i, j \in 1..M : h[i].valid /\ h[j].valid /\ i < j => place[i] < place[j]
      /\ \A q \in 1..N : g[q].valid /\ q <= lim => \E j \in 1..M : h[j].valid /\ place[j] = q
  BY DEF Moved
<1>2. ASSUME NEW k \in 1..M, h[k].valid, NEW a
      PROVE  SameHeld(h, k, g, place[k], r, c, a)
  <2>1. place[k] \in 1..N /\ place[k] <= lim BY <1>1, <1>2
  <2>2. \A j \in 1..M : h[j].valid => (j < k <=> place[j] < place[k])
    <3> SUFFICES ASSUME NEW j \in 1..M, h[j].valid PROVE j < k <=> place[j] < place[k] OBVIOUS
    <3>1. place[j] \in 1..N /\ place[k] \in 1..N BY <1>1, <1>2
    <3>2. j < k => place[j] < place[k] BY <1>1, <1>2
    <3>3. k < j => place[k] < place[j] BY <1>1, <1>2
    <3> QED BY <1>1, <3>1, <3>2, <3>3
  <2>3. k \in 1..(M + 1) /\ place[k] \in 1..(lim + 1) BY <1>1, <2>1
  <2> QED BY <2>2, <2>3, HeldMoves
<1>3. ASSUME NEW a \in Arf PROVE SameHeld(h, M + 1, g, lim + 1, r, c, a)
  <2>1. M + 1 \in 1..(M + 1) /\ lim + 1 \in 1..(lim + 1) BY <1>1
  <2>2. \A j \in 1..M : h[j].valid => (j < M + 1 <=> place[j] < lim + 1)
    <3> SUFFICES ASSUME NEW j \in 1..M, h[j].valid PROVE j < M + 1 <=> place[j] < lim + 1 OBVIOUS
    <3>1. place[j] \in 1..N /\ place[j] <= lim BY <1>1
    <3> QED BY <1>1, <3>1
  <2> QED BY <2>1, <2>2, HeldMoves
<1>4. Linked(h, r, c)
  <2>1. ASSUME NEW k \in 1..M, h[k].valid
        PROVE  /\ h[k].prs1 = Held(h, r, h[k].rs1, k)
               /\ Writes(h[k]) => h[k].prev = Held(h, r, h[k].rd, k)
               /\ h[k].prev_valid <=> Writes(h[k]) /\ Known(h, c, h[k].rd, k)
    <3>1. PICK p : p = place[k] OBVIOUS
    <3>2. p \in 1..N /\ Alike(h[k], g[p]) BY <1>1, <2>1, <3>1
    <3>3. g[p].valid /\ p \in DOMAIN g BY <1>1, <2>1, <3>2 DEF Alike
    <3>4. /\ g[p].prs1 = Held(g, r, g[p].rs1, p)
          /\ Writes(g[p]) => g[p].prev = Held(g, r, g[p].rd, p)
          /\ g[p].prev_valid <=> Writes(g[p]) /\ Known(g, c, g[p].rd, p)
      BY <3>3 DEF Linked
    <3>5. SameHeld(h, k, g, p, r, c, h[k].rs1) /\ SameHeld(h, k, g, p, r, c, h[k].rd)
      BY <1>2, <2>1, <3>1
    <3>6. Held(h, r, h[k].rs1, k) = Held(g, r, g[p].rs1, p)
      BY <3>2, <3>5 DEF SameHeld, Alike
    <3>7. Held(h, r, h[k].rd, k) = Held(g, r, g[p].rd, p) /\ (Known(h, c, h[k].rd, k) <=> Known(g, c, g[p].rd, p))
      BY <3>2, <3>5 DEF SameHeld, Alike
    <3>8. (Writes(h[k]) <=> Writes(g[p])) /\ h[k].prs1 = g[p].prs1 /\ h[k].prev = g[p].prev
          /\ h[k].prev_valid = g[p].prev_valid
      BY <3>2 DEF Alike, Writes
    <3> QED BY <3>4, <3>6, <3>7, <3>8
  <2>2. DOMAIN h = 1..M BY <1>1
  <2> QED BY <2>1, <2>2 DEF Linked
<1>5. PICK D : D = Tokens(h, c) OBVIOUS
<1>6. PICK E : E = Tokens(g, c) OBVIOUS
<1>7. PICK v : v = Val(h, r, c) OBVIOUS
<1>8. PICK w : w = Val(g, r, c) OBVIOUS
<1>9. /\ D \subseteq Int
      /\ \A t \in D : t <= 0 => t < 0 /\ -t \in c /\ v[t] = r[-t] /\ -t # 0
      /\ \A t \in D : t > 0 => t \in 1..M /\ h[t].valid /\ h[t].rd # 0 /\ v[t] = h[t].prd
      /\ \A t \in 1..M : h[t].valid /\ h[t].rd # 0 => t \in D
      /\ \A a \in c : a # 0 => -a \in D
  <2>1. TokensAre(h, r, c, M, D, Reg(h, c), v) BY <1>1, <1>5, <1>7, TokenFacts
  <2> QED BY <2>1 DEF TokensAre
<1>10. /\ E \subseteq Int
       /\ \A t \in E : t <= 0 => t < 0 /\ -t \in c /\ w[t] = r[-t] /\ -t # 0
       /\ \A t \in E : t > 0 => t \in 1..N /\ g[t].valid /\ g[t].rd # 0 /\ w[t] = g[t].prd
       /\ \A t \in 1..N : g[t].valid /\ g[t].rd # 0 => t \in E
       /\ \A a \in c : a # 0 => -a \in E
  <2>1. TokensAre(g, r, c, N, E, Reg(g, c), w) BY <1>1, <1>6, <1>8, TokenFacts
  <2> QED BY <2>1 DEF TokensAre
<1>11. PICK to : to = [t \in D |-> IF t <= 0 THEN t ELSE place[t]] OBVIOUS
<1>12. \A t \in D : to[t] \in E /\ v[t] = w[to[t]]
  <2> TAKE t \in D
  <2>1. CASE t <= 0
    <3>1. t \in Int /\ t < 0 /\ -t \in c /\ -t # 0 /\ v[t] = r[-t] /\ to[t] = t BY <1>9, <1>11, <2>1
    <3>2. -(-t) \in E /\ -(-t) = t BY <1>10, <3>1
    <3> QED BY <1>10, <2>1, <3>1, <3>2
  <2>2. CASE ~(t <= 0)
    <3>1. t > 0 BY <1>9, <2>2
    <3>2. t \in 1..M /\ h[t].valid /\ h[t].rd # 0 /\ v[t] = h[t].prd /\ to[t] = place[t] BY <1>9, <1>11, <2>2, <3>1
    <3>3. place[t] \in 1..N /\ Alike(h[t], g[place[t]]) BY <1>1, <3>2
    <3>4. g[place[t]].valid /\ g[place[t]].rd # 0 /\ g[place[t]].prd = h[t].prd BY <3>2, <3>3 DEF Alike
    <3>5. place[t] \in E /\ place[t] > 0 BY <1>10, <3>3, <3>4
    <3> QED BY <1>10, <3>2, <3>4, <3>5
  <2> QED BY <2>1, <2>2
<1>13. \A t, u \in D : to[t] = to[u] => t = u
  <2> SUFFICES ASSUME NEW t \in D, NEW u \in D, to[t] = to[u] PROVE t = u OBVIOUS
  <2>0. t \in Int /\ u \in Int BY <1>9
  <2>1. \A s \in D : ~(s <= 0) => s \in 1..M /\ h[s].valid /\ place[s] \in 1..N /\ to[s] = place[s]
    <3> SUFFICES ASSUME NEW s \in D, ~(s <= 0) PROVE s \in 1..M /\ h[s].valid /\ place[s] \in 1..N /\ to[s] = place[s] OBVIOUS
    <3>1. s > 0 BY <1>9
    <3> QED BY <1>1, <1>9, <1>11, <3>1
  <2>2. \A s \in D : s <= 0 => to[s] = s BY <1>11
  <2>3. CASE t <= 0 /\ u <= 0 BY <2>2, <2>3
  <2>4. CASE ~(t <= 0) /\ ~(u <= 0)
    <3>1. t \in 1..M /\ u \in 1..M /\ h[t].valid /\ h[u].valid /\ place[t] = place[u] /\ place[t] \in 1..N /\ place[u] \in 1..N
      BY <2>1, <2>4
    <3>2. ~(t < u)
      <4> SUFFICES ASSUME t < u PROVE FALSE OBVIOUS
      <4>1. place[t] < place[u] BY <1>1, <3>1
      <4> QED BY <1>1, <3>1, <4>1
    <3>3. ~(u < t)
      <4> SUFFICES ASSUME u < t PROVE FALSE OBVIOUS
      <4>1. place[u] < place[t] BY <1>1, <3>1
      <4> QED BY <1>1, <3>1, <4>1
    <3> QED BY <2>0, <3>2, <3>3
  <2>5. CASE t <= 0 /\ ~(u <= 0) BY <1>1, <2>0, <2>1, <2>2, <2>5
  <2>6. CASE ~(t <= 0) /\ u <= 0 BY <1>1, <2>0, <2>1, <2>2, <2>6
  <2> QED BY <2>3, <2>4, <2>5, <2>6
<1>14. /\ \A t \in E : w[t] # 0
       /\ \A t, u \in E : w[t] = w[u] => t = u
  BY <1>6, <1>8 DEF Unaliased
<1>15. Unaliased(h, r, c)
  <2>1. \A t \in D : v[t] # 0 BY <1>12, <1>14
  <2>2. \A t, u \in D : v[t] = v[u] => t = u BY <1>12, <1>13, <1>14
  <2> QED BY <1>5, <1>7, <2>1, <2>2 DEF Unaliased
<1>16. ASSUME lim = N PROVE Live(h, r, c) = Live(g, r, c)
  <2>1. \A u \in E : \E t \in D : to[t] = u
    <3> TAKE u \in E
    <3>0. u \in Int BY <1>10
    <3>1. CASE u <= 0
      <4>1. u \in Int /\ -u \in c /\ -u # 0 BY <1>10, <3>1
      <4>2. -(-u) \in D /\ -(-u) = u BY <1>9, <4>1
      <4> QED BY <1>11, <3>1, <4>2
    <3>2. CASE ~(u <= 0)
      <4>1. u > 0 BY <3>0, <3>2
      <4>2. u \in 1..N /\ g[u].valid /\ g[u].rd # 0 BY <1>10, <4>1
      <4>3. u <= lim BY <1>16, <4>2
      <4>4. PICK k \in 1..M : h[k].valid /\ place[k] = u BY <1>1, <4>2, <4>3
      <4>5. h[k].rd # 0 BY <1>1, <4>2, <4>4 DEF Alike
      <4>6. k \in D /\ ~(k <= 0) BY <1>9, <4>4, <4>5
      <4> QED BY <1>11, <4>4, <4>6
    <3> QED BY <3>1, <3>2
  <2>2. \A t \in D : \E u \in E : v[t] = w[u] BY <1>12
  <2>3. \A u \in E : \E t \in D : v[t] = w[u] BY <1>12, <2>1
  <2>4. {v[t] : t \in D} = {w[u] : u \in E} BY ONLY <2>2, <2>3
  <2> QED BY <1>5, <1>6, <1>7, <1>8, <2>4 DEF Live
<1> QED BY <1>3, <1>4, <1>15, <1>16 DEF MoveKept

-----------------------------------------------------------------------------
(* Allocation: as many free registers as are asked for, all different.       *)

\* NthFree is the n-th free register in order.
LEMMA NthFreeIs ==
  ASSUME NEW busy, busy \subseteq Prf, 0 \in busy, NEW free, free = Prf \ busy,
         NEW n \in 1..Cardinality(free), NEW p, p = NthFree(busy, n)
  PROVE  p \in free /\ Cardinality({q \in free : q <= p}) = n
<1>1. PICK G : G = PRF_INT_SIZE - 1 OBVIOUS
<1>2. G \in Nat /\ free \subseteq 1..G BY <1>1, SizeAssumption DEF Prf
<1>3. PICK rank : rank = [i \in free |-> Cardinality({j \in free : j < i})] OBVIOUS
<1>4. Ranked(free, rank, Cardinality(free)) BY <1>2, <1>3, Ranks
<1>5. Cardinality(free) \in Nat /\ n - 1 \in 0..(Cardinality(free) - 1) /\ IsFiniteSet(free)
  BY <1>4 DEF Ranked
<1>6. PICK i \in free : rank[i] = n - 1 BY <1>4, <1>5 DEF Ranked
<1>7. PICK S : S = {j \in free : j < i} OBVIOUS
<1>8. {q \in free : q <= i} = S \cup {i}
  <2>1. \A q \in free : q \in Int /\ i \in Int BY <1>2
  <2>2. \A q \in free : q <= i <=> q < i \/ q = i BY <2>1
  <2> QED BY <1>7, <2>2
<1>9. Cardinality(S \cup {i}) = n
  <2>1. i \notin S /\ Cardinality(S) = n - 1 BY <1>2, <1>3, <1>6, <1>7
  <2>2. IsFiniteSet(S) BY <1>5, <1>7, FS_Subset
  <2>3. Cardinality(S \cup {i}) = IF i \in S THEN Cardinality(S) ELSE Cardinality(S) + 1
    BY ONLY <2>2, FS_AddElement
  <2> QED BY <2>1, <2>3
<1>10. \E x \in Prf \ busy : Cardinality({q \in Prf \ busy : q <= x}) = n BY <1>8, <1>9
<1>11. p = CHOOSE x \in Prf \ busy : Cardinality({q \in Prf \ busy : q <= x}) = n
  BY <1>10 DEF NthFree
<1> QED BY <1>10, <1>11

Allots(out, req, busy) ==
  /\ \A i \in req : out[i] \in Prf \ busy
  /\ \A i, j \in req : out[i] = out[j] => i = j

\* Slots that ask for one get different free registers.
LEMMA Allocation ==
  ASSUME NEW busy, busy \subseteq Prf, 0 \in busy, NEW req, req \subseteq 1..RENAME_WIDTH,
         Cardinality(req) <= Cardinality(Prf \ busy),
         NEW out, \A i \in req : out[i] = NthFree(busy, Cardinality({j \in req : j <= i}))
  PROVE  Allots(out, req, busy)
<1>1. PICK free : free = Prf \ busy OBVIOUS
<1>2. PICK R : R = RENAME_WIDTH OBVIOUS
<1>3. R \in Nat /\ req \subseteq 1..R BY <1>2, SizeAssumption
<1>4. PICK rank : rank = [i \in req |-> Cardinality({j \in req : j < i})] OBVIOUS
<1>5. Ranked(req, rank, Cardinality(req)) BY <1>3, <1>4, Ranks
<1>6. /\ Cardinality(req) \in Nat /\ rank \in [req -> 0..(Cardinality(req) - 1)] /\ IsFiniteSet(req)
      /\ \A i, j \in req : i < j => rank[i] < rank[j]
  BY <1>5 DEF Ranked
<1>7. \A i \in req : Cardinality({j \in req : j <= i}) = rank[i] + 1
  <2> TAKE i \in req
  <2>1. PICK S : S = {j \in req : j < i} OBVIOUS
  <2>2. \A j \in req : j \in Int /\ i \in Int BY <1>3
  <2>3. \A j \in req : j <= i <=> j < i \/ j = i BY <2>2
  <2>4. {j \in req : j <= i} = S \cup {i} BY <2>1, <2>3
  <2>5. i \notin S /\ Cardinality(S) = rank[i] BY <1>4, <2>1, <2>2
  <2>6. IsFiniteSet(S) BY <1>6, <2>1, FS_Subset
  <2>7. Cardinality(S \cup {i}) = IF i \in S THEN Cardinality(S) ELSE Cardinality(S) + 1
    BY ONLY <2>6, FS_AddElement
  <2> QED BY <2>4, <2>5, <2>7
<1>8. Cardinality(free) \in Nat
  <2>1. IsFiniteSet(free) BY <1>1, ArfFacts, FS_Subset
  <2> QED BY <2>1, FS_CardinalityType
<1>9. \A i \in req : rank[i] + 1 \in 1..Cardinality(free)
  <2> TAKE i \in req
  <2>1. rank[i] \in 0..(Cardinality(req) - 1) BY <1>6
  <2>2. Cardinality(req) <= Cardinality(free) BY <1>1
  <2> QED BY <1>6, <1>8, <2>1, <2>2
<1>10. \A i \in req : out[i] \in free /\ Cardinality({q \in free : q <= out[i]}) = rank[i] + 1
  <2> TAKE i \in req
  <2>1. out[i] = NthFree(busy, rank[i] + 1) /\ rank[i] + 1 \in 1..Cardinality(free) BY <1>7, <1>9
  <2> QED BY <1>1, <2>1, NthFreeIs
<1>11. \A i, j \in req : out[i] = out[j] => i = j
  <2> SUFFICES ASSUME NEW i \in req, NEW j \in req, out[i] = out[j] PROVE i = j OBVIOUS
  <2>1. rank[i] + 1 = rank[j] + 1 BY <1>10
  <2>2. rank[i] \in 0..(Cardinality(req) - 1) /\ rank[j] \in 0..(Cardinality(req) - 1) BY <1>6
  <2>3. rank[i] = rank[j] BY <2>1, <2>2
  <2>4. ~(i < j) /\ ~(j < i) /\ i \in Int /\ j \in Int BY <1>3, <1>6, <2>2, <2>3
  <2> QED BY <2>4
<1> QED BY <1>1, <1>10, <1>11 DEF Allots

\* It is a register in any case.
LEMMA NthFreeType ==
  ASSUME NEW busy, NEW n
  PROVE  NthFree(busy, n) \in Prf
<1>1. 0 \in Prf BY ArfFacts
<1> QED BY <1>1 DEF NthFree

-----------------------------------------------------------------------------
(* Renaming: a group joins behind the others.                                *)

Appended(g, N, A) == [k \in 1..(N + RENAME_WIDTH) |-> IF k <= N THEN g[k] ELSE A[k - N]]

\* The table tb, valid for av, maps each register to its youngest writer in g.
Maps(g, N, r, c, tb, av) ==
  /\ tb \in [Arf -> Prf] /\ av \subseteq Arf /\ 0 \in av
  /\ \A a \in Arf : tb[a] = Held(g, r, a, N + 1) /\ (a # 0 => (a \in av <=> Known(g, c, a, N + 1)))

\* What renaming leaves in the slot i.
SlotRenamed(u, group, out, i) ==
  /\ u \in Uop
  /\ u.valid = group[i].valid /\ u.rd = group[i].rd /\ u.rs1 = group[i].rs1
  /\ u.prd = out[i]
  /\ u.prs1 = IF u.rs1 = 0 THEN 0 ELSE mapped(group, out, u.rs1, i)
  /\ u.prev = IF Writes(u) THEN mapped(group, out, u.rd, i) ELSE 0
  /\ u.prev_valid <=> /\ Writes(u)
                      /\ u.rd \in arf_valid \/ Writers(group, u.rd, i) # {}

\* A is the group renamed.
Renaming(A, group, out) ==
  /\ A \in [1..RENAME_WIDTH -> Uop]
  /\ \A i \in 1..RENAME_WIDTH : SlotRenamed(A[i], group, out, i)

\* Renaming, field by field.
LEMMA RenameFields ==
  ASSUME NEW group \in [1..RENAME_WIDTH -> Uop], mp_tb \in [Arf -> Prf],
         NEW out \in [1..RENAME_WIDTH -> Prf]
  PROVE  Renaming(Rename(group, out), group, out)
<1>1. RENAME_WIDTH \in Nat /\ 0 \in Prf BY SizeAssumption, ArfFacts
<1>2. \A a \in Arf, i \in 1..RENAME_WIDTH : mapped(group, out, a, i) \in Prf
  <2> TAKE a \in Arf, i \in 1..RENAME_WIDTH
  <2>1. PICK W : W = Writers(group, a, i) OBVIOUS
  <2>2. W \subseteq 1..RENAME_WIDTH BY <2>1, WritersOf, <1>1 DEF Writers
  <2>3. W # {} => Max(W) \in 1..RENAME_WIDTH BY <1>1, <2>2, MaxIs
  <2>4. mapped(group, out, a, i) = IF W = {} THEN mp_tb[a] ELSE out[Max(W)] BY <2>1 DEF mapped
  <2> QED BY <2>3, <2>4
<1>3. ASSUME NEW i \in 1..RENAME_WIDTH
      PROVE  SlotRenamed(Rename(group, out)[i], group, out, i)
  <2>1. PICK v : v = group[i] OBVIOUS
  <2>2. PICK u : u = Rename(group, out)[i] OBVIOUS
  <2>3. PICK s : s = (IF v.rs1 = 0 THEN 0 ELSE mapped(group, out, v.rs1, i)) OBVIOUS
  <2>4. PICK q : q = (IF Writes(v) THEN mapped(group, out, v.rd, i) ELSE 0) OBVIOUS
  <2>5. PICK b \in BOOLEAN : b = (Writes(v) /\ (v.rd \in arf_valid \/ Writers(group, v.rd, i) # {}))
    OBVIOUS
  <2>6. u = [v EXCEPT !.prs1 = s, !.prd = out[i], !.prev = q, !.prev_valid = b]
    BY <2>1, <2>2, <2>3, <2>4, <2>5 DEF Rename
  <2>7. v \in Uop /\ v.rs1 \in Arf /\ v.rd \in Arf BY <2>1 DEF Uop
  <2>8. s \in Prf /\ q \in Prf /\ out[i] \in Prf BY <1>1, <1>2, <2>3, <2>4, <2>7
  <2>9. /\ u \in Uop /\ u.valid = v.valid /\ u.rd = v.rd /\ u.rs1 = v.rs1
        /\ u.prd = out[i] /\ u.prs1 = s /\ u.prev = q /\ u.prev_valid = b
    BY <2>6, <2>7, <2>8 DEF Uop
  <2>10. Writes(u) <=> Writes(v) BY <2>9 DEF Writes
  <2>11. u.prs1 = IF u.rs1 = 0 THEN 0 ELSE mapped(group, out, u.rs1, i) BY <2>3, <2>9
  <2>12. u.prev = IF Writes(u) THEN mapped(group, out, u.rd, i) ELSE 0 BY <2>4, <2>9, <2>10
  <2>13. u.prev_valid <=> Writes(u) /\ (u.rd \in arf_valid \/ Writers(group, u.rd, i) # {})
    BY <2>5, <2>9, <2>10
  <2>14. SlotRenamed(u, group, out, i)
    BY ONLY <2>1, <2>9, <2>11, <2>12, <2>13 DEF SlotRenamed
  <2> QED BY <2>2, <2>14
<1>4. Rename(group, out) \in [1..RENAME_WIDTH -> Uop]
  <2>1. \A i \in 1..RENAME_WIDTH : Rename(group, out)[i] \in Uop BY <1>3 DEF SlotRenamed
  <2> QED BY <2>1 DEF Rename
<1> QED BY <1>3, <1>4 DEF Renaming

RenamedAll(g1, N, r, c, g, group, out, tb2, av2) ==
  /\ g \in [1..(N + RENAME_WIDTH) -> Uop]
  /\ Linked(g, r, c) /\ Unaliased(g, r, c)
  /\ Maps(g, N + RENAME_WIDTH, r, c, tb2, av2)
  /\ Live(g, r, c) = Live(g1, r, c) \cup {out[i] : i \in Slots(group, Writes)}
  /\ IsFiniteSet(Live(g, r, c)) /\ IsFiniteSet(Live(g1, r, c))
  /\ Cardinality(Live(g, r, c)) = Cardinality(Live(g1, r, c)) + Cardinality(Slots(group, Writes))

\* Renaming a group behind the others: the new micro-ops are linked, their
\* registers were free, and the map follows.
LEMMA Renames ==
  ASSUME NEW N \in Nat, NEW g1 \in [1..N -> Uop], NEW r, NEW c, Commits(r, c),
         Linked(g1, r, c), Unaliased(g1, r, c), Maps(g1, N, r, c, mp_tb, arf_valid),
         NEW group \in [1..RENAME_WIDTH -> Uop], NEW out \in [1..RENAME_WIDTH -> Prf],
         Allots(out, Slots(group, Writes), Live(g1, r, c)),
         NEW A, A = Rename(group, out), NEW g, g = Appended(g1, N, A),
         NEW tb2, tb2 = [a \in Arf |-> mapped(group, out, a, RENAME_WIDTH + 1)],
         NEW av2, av2 = arf_valid \cup {group[i].rd : i \in Slots(group, Writes)}
  PROVE  RenamedAll(g1, N, r, c, g, group, out, tb2, av2)
<1> DEFINE R == RENAME_WIDTH
<1>0. R \in Nat /\ R > 0 BY SizeAssumption
<1>1. /\ mp_tb \in [Arf -> Prf] /\ arf_valid \subseteq Arf /\ 0 \in arf_valid
      /\ \A a \in Arf : /\ mp_tb[a] = Held(g1, r, a, N + 1)
                        /\ a # 0 => (a \in arf_valid <=> Known(g1, c, a, N + 1))
  BY DEF Maps
<1>2. Renaming(A, group, out) BY <1>1, RenameFields
<1>3. /\ A \in [1..R -> Uop]
      /\ \A i \in 1..R :
           /\ A[i].valid = group[i].valid /\ A[i].rd = group[i].rd
           /\ A[i].prd = out[i]
           /\ A[i].prs1 = IF A[i].rs1 = 0 THEN 0 ELSE mapped(group, out, A[i].rs1, i)
           /\ Writes(A[i]) => A[i].prev = mapped(group, out, A[i].rd, i)
           /\ A[i].prev_valid <=> Writes(A[i]) /\ (A[i].rd \in arf_valid \/ Writers(group, A[i].rd, i) # {})
  <2>1. A \in [1..R -> Uop] /\ \A i \in 1..R : SlotRenamed(A[i], group, out, i)
    BY <1>2 DEF Renaming
  <2>2. ASSUME NEW i \in 1..R
        PROVE  /\ A[i].valid = group[i].valid /\ A[i].rd = group[i].rd
               /\ A[i].prd = out[i]
               /\ A[i].prs1 = IF A[i].rs1 = 0 THEN 0 ELSE mapped(group, out, A[i].rs1, i)
               /\ Writes(A[i]) => A[i].prev = mapped(group, out, A[i].rd, i)
               /\ A[i].prev_valid <=> Writes(A[i]) /\ (A[i].rd \in arf_valid \/ Writers(group, A[i].rd, i) # {})
    <3>1. SlotRenamed(A[i], group, out, i) BY <2>1
    <3> QED BY ONLY <3>1 DEF SlotRenamed
  <2> QED BY <2>1, <2>2
<1>4. /\ \A k \in 1..N : g[k] = g1[k] /\ k \in 1..(N + R)
      /\ \A i \in 1..R : g[N + i] = A[i] /\ N + i \in 1..(N + R)
  <2>1. \A k \in 1..N : k \in 1..(N + R) /\ k <= N BY <1>0
  <2>2. \A i \in 1..R : N + i \in 1..(N + R) /\ ~(N + i <= N) /\ (N + i) - N = i BY <1>0
  <2> QED BY <2>1, <2>2 DEF Appended
<1>5. g \in [1..(N + R) -> Uop]
  <2>1. \A k \in 1..(N + R) : g[k] \in Uop
    <3> TAKE k \in 1..(N + R)
    <3>1. CASE k <= N
      <4>1. k \in 1..N BY <1>0, <3>1
      <4> QED BY <1>4, <4>1
    <3>2. CASE ~(k <= N)
      <4>1. k - N \in 1..R /\ N + (k - N) = k BY <1>0, <3>2
      <4> QED BY <1>3, <1>4, <4>1
    <3> QED BY <3>1, <3>2
  <2> QED BY <2>1 DEF Appended
<1>6. Slots(group, Writes) = {i \in 1..R : group[i].valid /\ group[i].rd # 0}
  BY <1>0, WritersOf
<1> HIDE DEF R
<1>7. \A a, k : k \in 1..(N + 1) => SameHeld(g, k, g1, k, r, c, a)
  <2> SUFFICES ASSUME NEW a, NEW k \in 1..(N + 1) PROVE SameHeld(g, k, g1, k, r, c, a) OBVIOUS
  <2>1. \A j \in 1..(k - 1) : j \in 1..N OBVIOUS
  <2>2. Behind(g, a, k) = Behind(g1, a, k) BY <1>4, <2>1 DEF Behind
  <2>3. Behind(g1, a, k) # {} => Max(Behind(g1, a, k)) \in 1..N
    <3>1. Behind(g1, a, k) \subseteq 1..N BY <2>1 DEF Behind
    <3>2. PICK B : B = Behind(g1, a, k) OBVIOUS
    <3> QED BY <3>1, <3>2, MaxIs
  <2> QED BY <1>4, <2>2, <2>3 DEF SameHeld, Held, Known
<1>8. ASSUME NEW a \in Arf, NEW i \in 1..(R + 1)
      PROVE  /\ Held(g, r, a, N + i) = mapped(group, out, a, i)
             /\ a # 0 => (Known(g, c, a, N + i) <=> a \in arf_valid \/ Writers(group, a, i) # {})
  <2>1. PICK W : W = Writers(group, a, i) OBVIOUS
  <2>2. PICK B : B = Behind(g1, a, N + 1) OBVIOUS
  <2>3. PICK B2 : B2 = Behind(g, a, N + i) OBVIOUS
  <2>4. W \subseteq 1..R /\ \A j \in 1..R : j \in W <=> j < i /\ group[j].valid /\ group[j].rd # 0 /\ group[j].rd = a
    BY <1>6, <2>1 DEF Writers
  <2>5. B \subseteq 1..N /\ \A j \in 1..N : j \in B <=> g1[j].valid /\ g1[j].rd # 0 /\ g1[j].rd = a
    <3>1. 1..((N + 1) - 1) = 1..N OBVIOUS
    <3> QED BY <2>2, <3>1 DEF Behind, Writes
  <2>6. B2 \subseteq 1..(N + R) /\ \A j \in 1..(N + R) : j \in B2 <=> j < N + i /\ g[j].valid /\ g[j].rd # 0 /\ g[j].rd = a
    <3>1. \A j : j \in 1..((N + i) - 1) <=> j \in 1..(N + R) /\ j < N + i BY <1>0
    <3> QED BY <2>3, <3>1 DEF Behind, Writes
  <2>7. \A j \in 1..N : j \in B2 <=> j \in B
    <3> TAKE j \in 1..N
    <3>1. j \in 1..(N + R) /\ j < N + i /\ g[j] = g1[j] BY <1>0, <1>4
    <3> QED BY <2>5, <2>6, <3>1
  <2>8. \A j \in 1..R : N + j \in B2 <=> j \in W
    <3> TAKE j \in 1..R
    <3>1. N + j \in 1..(N + R) /\ (N + j < N + i <=> j < i) /\ g[N + j] = A[j] BY <1>0, <1>4
    <3> QED BY <1>3, <2>4, <2>6, <3>1
  <2>9. \A k \in B2 : k \in 1..N \/ \E j \in 1..R : k = N + j
    <3> TAKE k \in B2
    <3>1. k \in 1..(N + R) BY <2>6
    <3>2. k \in 1..N \/ (k - N \in 1..R /\ k = N + (k - N)) BY <1>0, <3>1
    <3> QED BY <3>2
  <2>10. CASE W = {}
    <3>1. B2 = B BY <2>5, <2>7, <2>8, <2>9, <2>10
    <3>2. B # {} => Max(B) \in 1..N BY <2>5, MaxIs
    <3>3. Held(g, r, a, N + i) = Held(g1, r, a, N + 1)
      BY <1>4, <2>2, <2>3, <3>1, <3>2 DEF Held
    <3>4. Known(g, c, a, N + i) <=> Known(g1, c, a, N + 1) BY <2>2, <2>3, <3>1 DEF Known
    <3>5. mapped(group, out, a, i) = mp_tb[a] BY <2>1, <2>10 DEF mapped
    <3> QED BY <1>1, <2>1, <2>10, <3>3, <3>4, <3>5
  <2>11. CASE W # {}
    <3>1. PICK x : x = Max(W) OBVIOUS
    <3>2. x \in W /\ \A j \in W : j <= x BY <1>0, <2>4, <2>11, <3>1, MaxIs
    <3>3. x \in 1..R /\ N + x \in B2 BY <2>4, <2>8, <3>2
    <3>4. \A k \in B2 : k <= N + x
      <4> TAKE k \in B2
      <4>1. CASE k \in 1..N BY <3>3, <4>1
      <4>2. CASE \E j \in 1..R : k = N + j
        <5>1. PICK j \in 1..R : k = N + j BY <4>2
        <5>2. j <= x BY <2>8, <3>2, <5>1
        <5> QED BY <3>3, <5>1, <5>2
      <4> QED BY <2>9, <4>1, <4>2
    <3>5. B2 \subseteq Int BY <1>0, <2>6
    <3>6. Max(B2) = N + x BY <3>3, <3>4, <3>5, MaxOf
    <3>7. g[N + x].prd = out[x] BY <1>3, <1>4, <3>3
    <3>8. Held(g, r, a, N + i) = out[x] BY <2>3, <3>3, <3>6, <3>7 DEF Held
    <3>9. mapped(group, out, a, i) = out[x] BY <2>1, <2>11, <3>1 DEF mapped
    <3>10. Known(g, c, a, N + i) BY <2>3, <3>3 DEF Known
    <3> QED BY <2>1, <2>11, <3>8, <3>9, <3>10
  <2> QED BY <2>10, <2>11
<1>9. Linked(g, r, c)
  <2>1. ASSUME NEW k \in 1..(N + R), g[k].valid
        PROVE  /\ g[k].prs1 = Held(g, r, g[k].rs1, k)
               /\ Writes(g[k]) => g[k].prev = Held(g, r, g[k].rd, k)
               /\ g[k].prev_valid <=> Writes(g[k]) /\ Known(g, c, g[k].rd, k)
    <3>1. CASE k <= N
      <4>1. k \in 1..N /\ k \in 1..(N + 1) /\ k \in DOMAIN g1 /\ g[k] = g1[k] BY <1>0, <1>4, <3>1
      <4>2. \A a : Held(g, r, a, k) = Held(g1, r, a, k) /\ (Known(g, c, a, k) <=> Known(g1, c, a, k))
        BY <1>7, <4>1 DEF SameHeld
      <4>3. /\ g1[k].prs1 = Held(g1, r, g1[k].rs1, k)
            /\ Writes(g1[k]) => g1[k].prev = Held(g1, r, g1[k].rd, k)
            /\ g1[k].prev_valid <=> Writes(g1[k]) /\ Known(g1, c, g1[k].rd, k)
        BY <2>1, <4>1 DEF Linked
      <4> QED BY <4>1, <4>2, <4>3
    <3>2. CASE ~(k <= N)
      <4>1. PICK i \in 1..R : k = N + i
        <5>1. k - N \in 1..R /\ k = N + (k - N) BY <1>0, <3>2
        <5> QED BY <5>1
      <4>2. g[k] = A[i] /\ i \in 1..(R + 1) BY <1>0, <1>4, <4>1
      <4>3. A[i].rs1 \in Arf /\ A[i].rd \in Arf BY <1>3 DEF Uop
      <4>4. Held(g, r, A[i].rd, k) = mapped(group, out, A[i].rd, i) BY <1>8, <4>1, <4>2, <4>3
      <4>5. A[i].rd # 0 => (Known(g, c, A[i].rd, k) <=> A[i].rd \in arf_valid \/ Writers(group, A[i].rd, i) # {})
        BY <1>8, <4>1, <4>2, <4>3
      <4>6. A[i].prs1 = Held(g, r, A[i].rs1, k)
        <5>1. Held(g, r, A[i].rs1, k) = mapped(group, out, A[i].rs1, i) BY <1>8, <4>1, <4>2, <4>3
        <5>2. CASE A[i].rs1 # 0 BY <1>3, <5>1, <5>2
        <5>3. CASE A[i].rs1 = 0
          <6>1. Behind(g, 0, k) = {} BY DEF Behind, Writes
          <6>2. Held(g, r, A[i].rs1, k) = 0 BY <5>3, <6>1 DEF Held, Commits
          <6> QED BY <1>3, <5>3, <6>2
        <5> QED BY <5>2, <5>3
      <4>7. Writes(A[i]) => A[i].rd # 0 BY DEF Writes
      <4> QED BY <1>3, <4>2, <4>4, <4>5, <4>6, <4>7
    <3> QED BY <3>1, <3>2
  <2>2. DOMAIN g = 1..(N + R) BY <1>5
  <2> QED BY <2>1, <2>2 DEF Linked
<1>10. Maps(g, N + R, r, c, tb2, av2)
  <2>1. R + 1 \in 1..(R + 1) /\ N + (R + 1) = N + R + 1 BY <1>0
  <2>2. \A a \in Arf : tb2[a] = Held(g, r, a, N + R + 1) BY <1>8, <2>1 DEF R
  <2>3. \A a \in Arf : Held(g, r, a, N + R + 1) \in Prf
    <3> TAKE a \in Arf
    <3>1. Behind(g, a, N + R + 1) \subseteq 1..(N + R)
      <4>1. 1..((N + R + 1) - 1) = 1..(N + R) BY <1>0
      <4> QED BY <4>1 DEF Behind
    <3>2. PICK B : B = Behind(g, a, N + R + 1) OBVIOUS
    <3>3. B # {} => Max(B) \in 1..(N + R) BY <1>0, <3>1, <3>2, MaxIs
    <3>4. B # {} => g[Max(B)].prd \in Prf BY <1>5, <3>3 DEF Uop
    <3>5. r[a] \in Prf BY DEF Commits
    <3> QED BY <3>2, <3>4, <3>5 DEF Held
  <2>4. tb2 \in [Arf -> Prf]
    <3>1. \A a \in Arf : tb2[a] \in Prf BY <2>2, <2>3
    <3> QED BY <3>1
  <2>5. av2 \subseteq Arf /\ 0 \in av2
    <3>1. \A i \in Slots(group, Writes) : group[i].rd \in Arf BY <1>6 DEF Uop, R
    <3> QED BY <1>1, <3>1
  <2>6. \A a \in Arf : a # 0 => (a \in av2 <=> Known(g, c, a, N + R + 1))
    <3> SUFFICES ASSUME NEW a \in Arf, a # 0 PROVE a \in av2 <=> Known(g, c, a, N + R + 1) OBVIOUS
    <3>1. Known(g, c, a, N + R + 1) <=> a \in arf_valid \/ Writers(group, a, R + 1) # {}
      BY <1>8, <2>1
    <3>2. Writers(group, a, R + 1) = {j \in Slots(group, Writes) : group[j].rd = a}
      <4>1. \A j \in Slots(group, Writes) : j < R + 1 BY <1>0, <1>6
      <4> QED BY <4>1 DEF Writers
    <3> QED BY <3>1, <3>2
  <2> QED BY <2>2, <2>4, <2>5, <2>6 DEF Maps
<1>11. PICK req : req = Slots(group, Writes) OBVIOUS
<1>12. PICK D1 : D1 = Tokens(g1, c) OBVIOUS
<1>13. PICK D : D = Tokens(g, c) OBVIOUS
<1>14. PICK v1 : v1 = Val(g1, r, c) OBVIOUS
<1>15. PICK v : v = Val(g, r, c) OBVIOUS
<1>16. /\ D1 \subseteq Int /\ IsFiniteSet(D1)
       /\ \A t \in D1 : t <= 0 => t < 0 /\ -t \in c /\ v1[t] = r[-t] /\ -t # 0
       /\ \A t \in D1 : t > 0 => t \in 1..N /\ g1[t].valid /\ g1[t].rd # 0 /\ v1[t] = g1[t].prd
       /\ \A t \in 1..N : g1[t].valid /\ g1[t].rd # 0 => t \in D1
       /\ \A a \in c : a # 0 => -a \in D1
  <2>1. TokensAre(g1, r, c, N, D1, Reg(g1, c), v1) BY <1>12, <1>14, TokenFacts
  <2> QED BY <2>1 DEF TokensAre
<1>17. /\ D \subseteq Int /\ IsFiniteSet(D)
       /\ \A t \in D : t <= 0 => t < 0 /\ -t \in c /\ v[t] = r[-t] /\ -t # 0
       /\ \A t \in D : t > 0 => t \in 1..(N + R) /\ g[t].valid /\ g[t].rd # 0 /\ v[t] = g[t].prd
       /\ \A t \in 1..(N + R) : g[t].valid /\ g[t].rd # 0 => t \in D
       /\ \A a \in c : a # 0 => -a \in D
  <2>0. N + R \in Nat BY <1>0
  <2>1. TokensAre(g, r, c, N + R, D, Reg(g, c), v) BY <2>0, <1>5, <1>13, <1>15, TokenFacts
  <2> QED BY <2>1 DEF TokensAre
<1>18. \A t \in D1 : t \in D /\ v[t] = v1[t] /\ t <= N
  <2> TAKE t \in D1
  <2>1. t \in Int BY <1>16
  <2>2. CASE t <= 0
    <3>1. -t \in c /\ -t # 0 /\ v1[t] = r[-t] /\ -(-t) = t BY <1>16, <2>1, <2>2
    <3>2. t \in D BY <1>17, <3>1
    <3> QED BY <1>17, <2>1, <2>2, <3>1, <3>2
  <2>3. CASE ~(t <= 0)
    <3>1. t > 0 BY <2>1, <2>3
    <3>2. t \in 1..N /\ g1[t].valid /\ g1[t].rd # 0 /\ v1[t] = g1[t].prd BY <1>16, <3>1
    <3>3. t \in 1..(N + R) /\ g[t] = g1[t] BY <1>4, <3>2
    <3>4. t \in D BY <1>17, <3>2, <3>3
    <3> QED BY <1>17, <3>1, <3>2, <3>3, <3>4
  <2> QED BY <2>2, <2>3
<1>19. \A i \in req : N + i \in D /\ v[N + i] = out[i] /\ N + i > N
  <2> TAKE i \in req
  <2>1. i \in 1..R /\ group[i].valid /\ group[i].rd # 0 BY <1>6, <1>11
  <2>2. N + i \in 1..(N + R) /\ g[N + i] = A[i] /\ N + i > N /\ N + i > 0 BY <1>0, <1>4, <2>1
  <2>3. g[N + i].valid /\ g[N + i].rd # 0 /\ g[N + i].prd = out[i] BY <1>3, <2>1, <2>2
  <2>4. N + i \in D BY <1>17, <2>2, <2>3
  <2> QED BY <1>17, <2>2, <2>3, <2>4
<1>20. \A t \in D : t \in D1 \/ \E i \in req : t = N + i
  <2> TAKE t \in D
  <2>1. t \in Int BY <1>17
  <2>2. CASE t <= 0
    <3>1. -t \in c /\ -t # 0 /\ -(-t) = t BY <1>17, <2>1, <2>2
    <3> QED BY <1>16, <3>1
  <2>3. CASE ~(t <= 0)
    <3>1. t > 0 BY <2>1, <2>3
    <3>2. t \in 1..(N + R) /\ g[t].valid /\ g[t].rd # 0 BY <1>17, <3>1
    <3>3. CASE t <= N
      <4>1. t \in 1..N /\ g[t] = g1[t] BY <1>4, <2>1, <3>1, <3>3
      <4> QED BY <1>16, <3>2, <4>1
    <3>4. CASE ~(t <= N)
      <4>1. t - N \in 1..R /\ t = N + (t - N) BY <1>0, <3>2, <3>4
      <4>2. g[t] = A[t - N] BY <1>4, <4>1
      <4>3. group[t - N].valid /\ group[t - N].rd # 0 BY <1>3, <3>2, <4>1, <4>2
      <4>4. t - N \in req BY <1>6, <1>11, <4>1, <4>3
      <4> QED BY <4>1, <4>4
    <3> QED BY <3>3, <3>4
  <2> QED BY <2>2, <2>3
<1>21. PICK L1 : L1 = Live(g1, r, c) OBVIOUS
<1>22. L1 = {0} \cup {v1[t] : t \in D1} /\ Live(g, r, c) = {0} \cup {v[t] : t \in D}
  BY <1>12, <1>13, <1>14, <1>15, <1>21 DEF Live
<1>23. /\ \A i \in req : out[i] \notin L1
       /\ \A i, j \in req : out[i] = out[j] => i = j
  BY <1>11, <1>21 DEF Allots
<1>24. /\ \A t \in D1 : v1[t] # 0
       /\ \A t, u \in D1 : v1[t] = v1[u] => t = u
  BY <1>12, <1>14 DEF Unaliased
<1>25. Unaliased(g, r, c)
  <2>0. \A i \in req, t \in D1 : out[i] # 0 /\ out[i] # v1[t] BY <1>22, <1>23
  <2>1. \A t \in D : v[t] # 0
    <3> TAKE t \in D
    <3>1. CASE t \in D1 BY <1>18, <1>24, <3>1
    <3>2. CASE \E i \in req : t = N + i BY <1>19, <1>22, <1>23, <3>2
    <3> QED BY <1>20, <3>1, <3>2
  <2>2. \A t, u \in D : v[t] = v[u] => t = u
    <3> SUFFICES ASSUME NEW t \in D, NEW u \in D, v[t] = v[u] PROVE t = u OBVIOUS
    <3>1. CASE t \in D1 /\ u \in D1 BY <1>18, <1>24, <3>1
    <3>2. CASE t \in D1 /\ \E i \in req : u = N + i BY <1>18, <1>19, <2>0, <3>2
    <3>3. CASE u \in D1 /\ \E i \in req : t = N + i BY <1>18, <1>19, <2>0, <3>3
    <3>4. CASE (\E i \in req : t = N + i) /\ \E j \in req : u = N + j BY <1>19, <1>23, <3>4
    <3> QED BY <1>20, <3>1, <3>2, <3>3, <3>4
  <2> QED BY <1>13, <1>15, <2>1, <2>2 DEF Unaliased
<1>26. PICK O : O = {out[i] : i \in req} OBVIOUS
<1>27. Live(g, r, c) = L1 \cup O
  <2>1. \A t \in D : v[t] \in L1 \cup O
    <3> TAKE t \in D
    <3>1. CASE t \in D1 BY <1>18, <1>22, <3>1
    <3>2. CASE \E i \in req : t = N + i BY <1>19, <1>26, <3>2
    <3> QED BY <1>20, <3>1, <3>2
  <2>2. \A t \in D1 : \E u \in D : v1[t] = v[u] BY <1>18
  <2>3. \A i \in req : \E u \in D : out[i] = v[u] BY <1>19
  <2>4. L1 \cup O \subseteq {0} \cup {v[t] : t \in D} BY <1>22, <1>26, <2>2, <2>3
  <2>5. Live(g, r, c) \subseteq L1 \cup O BY ONLY <1>22, <2>1
  <2>6. L1 \cup O \subseteq Live(g, r, c) BY ONLY <1>22, <2>4
  <2> QED BY ONLY <2>5, <2>6
<1>28. IsFiniteSet(L1)
  <2>0. IsFiniteSet(D1) /\ L1 = {0} \cup {v1[t] : t \in D1} BY <1>16, <1>22
  <2>1. LiveAre(D1, L1) BY ONLY <1>24, <2>0, LiveCount
  <2> QED BY <2>1 DEF LiveAre
<1>29. IsFiniteSet(O) /\ Cardinality(O) = Cardinality(req)
  <2>1. IsFiniteSet(req)
    <3>1. req \subseteq 1..R BY <1>6, <1>11
    <3>2. IsFiniteSet(1..R) BY <1>0, FS_Interval
    <3> QED BY <3>1, <3>2, FS_Subset
  <2> DEFINE F == [i \in req |-> out[i]]
  <2>2. F \in [req -> O] BY <1>26
  <2>3. F \in Injection(req, O) BY <1>23, <2>2 DEF Injection, IsInjective
  <2>4. F \in Surjection(req, O) BY <1>26, <2>2 DEF Surjection
  <2>5. ExistsBijection(req, O) BY <2>3, <2>4 DEF Bijection, ExistsBijection
  <2> QED BY <2>1, <2>5, FS_Bijection
<1>30. IsFiniteSet(L1 \cup O) /\ Cardinality(L1 \cup O) = Cardinality(L1) + Cardinality(req)
  <2>1. L1 \cap O = {} BY <1>23, <1>26
  <2>2. /\ IsFiniteSet(L1 \cup O)
        /\ Cardinality(L1 \cup O) = Cardinality(L1) + Cardinality(O) - Cardinality(L1 \cap O)
    BY ONLY <1>28, <1>29, FS_Union
  <2>3. Cardinality({}) = 0 BY FS_EmptySet
  <2>4. Cardinality(L1) \in Nat /\ Cardinality(O) \in Nat BY ONLY <1>28, <1>29, FS_CardinalityType
  <2>5. Cardinality(L1 \cap O) = 0 BY <2>1, <2>3
  <2> QED BY ONLY <1>29, <2>2, <2>4, <2>5
<1> QED BY <1>5, <1>9, <1>10, <1>11, <1>21, <1>25, <1>26, <1>27, <1>28, <1>30 DEF RenamedAll, R

-----------------------------------------------------------------------------
(* The registers the committed state uses.                                   *)

Committed(r, c) == {0} \cup {r[a] : a \in c}

\* Without micro-ops in flight, only the committed registers live.
LEMMA NoneInFlight ==
  ASSUME NEW N \in Nat, NEW h \in [1..N -> Uop], \A k \in 1..N : ~h[k].valid,
         NEW r, NEW c, Commits(r, c)
  PROVE  /\ Live(h, r, c) = Committed(r, c) /\ Linked(h, r, c)
         /\ \A a : Held(h, r, a, N + 1) = r[a] /\ (Known(h, c, a, N + 1) <=> a \in c)
<1>1. PICK D : D = Tokens(h, c) OBVIOUS
<1>2. PICK v : v = Val(h, r, c) OBVIOUS
<1>3. /\ D \subseteq Int
      /\ \A t \in D : t <= 0 => t < 0 /\ -t \in c /\ v[t] = r[-t]
      /\ \A t \in D : t > 0 => t \in 1..N /\ h[t].valid
      /\ \A a \in c : a # 0 => -a \in D
  <2>1. TokensAre(h, r, c, N, D, Reg(h, c), v) BY <1>1, <1>2, TokenFacts
  <2> QED BY <2>1 DEF TokensAre
<1>4. \A t \in D : -t \in c /\ v[t] = r[-t]
  <2> TAKE t \in D
  <2>1. t \in Int /\ ~(t > 0) BY <1>3
  <2>2. t <= 0 BY <2>1
  <2> QED BY <1>3, <2>2
<1>5. \A a \in c : a # 0 => -a \in D /\ v[-a] = r[a]
  <2> SUFFICES ASSUME NEW a \in c, a # 0 PROVE -a \in D /\ v[-a] = r[a] OBVIOUS
  <2>1. -a \in D BY <1>3
  <2>2. a \in Int /\ -(-a) = a BY ArfFacts DEF Commits
  <2> QED BY <1>4, <2>1, <2>2
<1>6. r[0] = 0 BY DEF Commits
<1>7. Live(h, r, c) = {0} \cup {v[t] : t \in D} BY <1>1, <1>2 DEF Live
<1>8. Live(h, r, c) = Committed(r, c)
  <2>1. \A t \in D : \E a \in c : v[t] = r[a] BY <1>4
  <2>2. \A a \in c : r[a] = 0 \/ \E t \in D : v[t] = r[a] BY <1>5, <1>6
  <2> QED BY <1>7, <2>1, <2>2 DEF Committed
<1>9. Linked(h, r, c)
  <2>1. DOMAIN h = 1..N OBVIOUS
  <2> QED BY <2>1 DEF Linked
<1>10. \A a : Behind(h, a, N + 1) = {}
  <2>1. 1..((N + 1) - 1) = 1..N OBVIOUS
  <2> QED BY <2>1 DEF Behind, Writes
<1> QED BY <1>8, <1>9, <1>10 DEF Held, Known

\* The counter of the free registers does not wrap.
LEMMA CountFree ==
  ASSUME NEW S, S \subseteq Prf, 0 \in S, NEW n, n = PRF_INT_SIZE - Cardinality(S)
  PROVE  IsFiniteSet(S) /\ Cardinality(Prf \ S) = n /\ n \in 0..(PRF_INT_SIZE - 1) /\ n % PRF_INT_SIZE = n
<1>1. IsFiniteSet(S) BY ArfFacts, FS_Subset
<1>2. Cardinality(Prf \ S) = Cardinality(Prf) - Cardinality(Prf \cap S) /\ IsFiniteSet(Prf \ S)
  BY ArfFacts, FS_Difference
<1>3. Prf \cap S = S OBVIOUS
<1>4. Cardinality(Prf \ S) = n BY <1>2, <1>3, ArfFacts
<1>5. Cardinality(S) \in Nat /\ n \in Nat BY <1>1, <1>2, <1>4, FS_CardinalityType
<1>6. Cardinality(S) # 0 BY <1>1, FS_EmptySet
<1>7. PRF_INT_SIZE \in Nat \ {0} BY SizeAssumption
<1>8. n \in 0..(PRF_INT_SIZE - 1) BY <1>5, <1>6, <1>7
<1>9. (PRF_INT_SIZE * 0 + n) % PRF_INT_SIZE = n BY <1>7, <1>8, Modulo
<1>10. PRF_INT_SIZE * 0 + n = n BY <1>7, <1>5
<1> QED BY <1>1, <1>4, <1>8, <1>9, <1>10

\* Live registers are physical registers, and p0 is one.
LEMMA LiveRange ==
  ASSUME NEW N \in Nat, NEW h \in [1..N -> Uop], NEW r, NEW c, Commits(r, c)
  PROVE  Live(h, r, c) \subseteq Prf /\ 0 \in Live(h, r, c)
<1>1. PICK D : D = Tokens(h, c) OBVIOUS
<1>2. PICK v : v = Val(h, r, c) OBVIOUS
<1>3. v \in [D -> Prf]
  <2>1. TokensAre(h, r, c, N, D, Reg(h, c), v) BY <1>1, <1>2, TokenFacts
  <2> QED BY <2>1 DEF TokensAre
<1>4. Live(h, r, c) = {0} \cup {v[t] : t \in D} BY <1>1, <1>2 DEF Live
<1> QED BY <1>3, <1>4, ArfFacts

\* What is committed, and the registers h has besides.
CommitOK(h, r, c, busy, num) ==
  /\ Commits(r, c) /\ Linked(h, r, c) /\ Unaliased(h, r, c)
  /\ busy = Committed(r, c) /\ num = PRF_INT_SIZE - Cardinality(busy)

RecoverKept(U, r2, c2) ==
  /\ prf_recover_next(U) = Committed(r2, c2)
  /\ prf_recover_num_next(U) = PRF_INT_SIZE - Cardinality(Committed(r2, c2))

\* The committed copies of the free list and of its counter stay exact.
LEMMA RecoverKeeps ==
  ASSUME NEW U \in [1..COMMIT_WIDTH -> Uop],
         CommitOK(U, r_rat, arf_recover, prf_recover, prf_recover_num),
         NEW r2, r2 = r_rat_next(U), NEW c2, c2 = arf_recover_next(U)
  PROVE  RecoverKept(U, r2, c2)
<1> DEFINE C == COMMIT_WIDTH
<1>0. C \in Nat BY SizeAssumption
<1>1. /\ Commits(r_rat, arf_recover) /\ Linked(U, r_rat, arf_recover) /\ Unaliased(U, r_rat, arf_recover)
      /\ prf_recover = Committed(r_rat, arf_recover) /\ prf_recover_num = PRF_INT_SIZE - Cardinality(prf_recover)
  BY DEF CommitOK
<1>2. Begins(U, C, U) BY <1>0 DEF Begins
<1>3. PICK rest : rest = Rest(U, C) OBVIOUS
<1>4. PICK L : L = Live(U, r_rat, arf_recover) OBVIOUS
<1>5. PICK F : F = Freed(U, C) OBVIOUS
<1>6. PICK L2 : L2 = Live(rest, r2, c2) OBVIOUS
<1>7. PICK D : D = Tokens(U, arf_recover) OBVIOUS
<1>8. PICK v : v = Val(U, r_rat, arf_recover) OBVIOUS
<1>9. /\ IsFiniteSet(F) /\ IsFiniteSet(L)
      /\ L2 = L \ {U[i].prev : i \in F}
      /\ Cardinality(L2) = Cardinality(L) - Cardinality(F)
      /\ \A i \in F : U[i].prev # 0
      /\ \A i \in F, t \in D : U[i].prev = v[t] => t < i
  <2>1. CommitDone(U, r_rat, arf_recover, rest, r2, c2, L, L2, F)
    BY <1>1, <1>2, <1>3, <1>4, <1>5, <1>6, Commit
  <2> QED BY <1>7, <1>8, <2>1 DEF CommitDone
<1>10. Commits(r2, c2) /\ rest \in [1..C -> Uop] BY <1>1, <1>2, <1>3, CommitKeeps
<1>11. \A k \in 1..C : ~rest[k].valid BY <1>3, NoUopFacts DEF Rest
<1>12. L2 = Committed(r2, c2) BY <1>0, <1>6, <1>10, <1>11, NoneInFlight
<1>13. PICK P : P = prf_recover OBVIOUS
<1>14. PICK W : W = Slots(U, Writes) OBVIOUS
<1>15. W = {k \in 1..C : U[k].valid /\ U[k].rd # 0} BY <1>0, <1>14, WritersOf
<1>16. /\ D \subseteq Int /\ IsFiniteSet(D)
       /\ \A t \in D : t <= 0 => t < 0 /\ -t \in arf_recover /\ v[t] = r_rat[-t]
       /\ \A t \in D : t > 0 => t \in 1..C /\ U[t].valid /\ U[t].rd # 0 /\ v[t] = U[t].prd
       /\ \A t \in 1..C : U[t].valid /\ U[t].rd # 0 => t \in D
       /\ \A a \in arf_recover : a # 0 => -a \in D
  <2>1. TokensAre(U, r_rat, arf_recover, C, D, Reg(U, arf_recover), v)
    BY <1>0, <1>1, <1>7, <1>8, TokenFacts
  <2> QED BY <2>1 DEF TokensAre
<1>17. PICK Neg : Neg = {t \in D : t <= 0} OBVIOUS
<1>18. D = Neg \cup W /\ Neg \cap W = {} /\ \A t \in W : v[t] = U[t].prd
  <2>1. \A t \in D : t \in Int /\ (t <= 0 \/ t > 0) BY <1>16
  <2>2. \A t \in D : t > 0 => t \in W BY <1>15, <1>16
  <2>3. \A t \in W : t \in D BY <1>15, <1>16
  <2>4. \A t \in W : t > 0 /\ ~(t <= 0)
    <3> TAKE t \in W
    <3>1. t \in 1..C BY <1>15
    <3> QED BY <1>0, <3>1
  <2> QED BY <1>16, <1>17, <2>1, <2>2, <2>3, <2>4
<1>19. P = {0} \cup {v[t] : t \in Neg}
  <2>1. \A t \in Neg : \E a \in arf_recover : v[t] = r_rat[a] BY <1>16, <1>17
  <2>2. \A a \in arf_recover : r_rat[a] = 0 \/ \E t \in Neg : v[t] = r_rat[a]
    <3> TAKE a \in arf_recover
    <3>1. CASE a = 0 BY <1>1, <3>1 DEF Commits
    <3>2. CASE a # 0
      <4>1. a \in Nat BY <1>1, ArfFacts DEF Commits
      <4>2. -a \in D /\ -a <= 0 /\ -(-a) = a BY <1>16, <3>2, <4>1
      <4>3. -a \in Neg /\ v[-a] = r_rat[a] BY <1>16, <1>17, <4>2
      <4> QED BY <4>3
    <3> QED BY <3>1, <3>2
  <2> QED BY <1>1, <1>13, <2>1, <2>2 DEF Committed
<1>20. /\ \A t \in D : v[t] # 0
       /\ \A t, u \in D : v[t] = v[u] => t = u
  BY <1>1, <1>7, <1>8 DEF Unaliased
<1>21. L = {0} \cup {v[t] : t \in D} BY <1>4, <1>7, <1>8 DEF Live
<1>22. Cardinality(L) = Cardinality(P) + Cardinality(W)
  <2>1. IsFiniteSet(Neg) /\ IsFiniteSet(W)
    <3>1. Neg \subseteq D /\ W \subseteq D /\ IsFiniteSet(D) BY <1>16, <1>18
    <3>2. IsFiniteSet(Neg) BY ONLY <3>1, FS_Subset
    <3>3. IsFiniteSet(W) BY ONLY <3>1, FS_Subset
    <3> QED BY <3>2, <3>3
  <2>2. LiveAre(D, L)
    <3>1. IsFiniteSet(D) BY <1>16
    <3> QED BY ONLY <3>1, <1>20, <1>21, LiveCount
  <2>3. \A t \in Neg : v[t] # 0 BY <1>18, <1>20
  <2>4. \A t, u \in Neg : v[t] = v[u] => t = u BY <1>18, <1>20
  <2>5. LiveAre(Neg, P) BY ONLY <2>1, <2>3, <2>4, <1>19, LiveCount
  <2>6. Cardinality(Neg \cup W) = Cardinality(Neg) + Cardinality(W) - Cardinality(Neg \cap W)
    BY ONLY <2>1, FS_Union
  <2>7. Cardinality(Neg \cap W) = 0 BY <1>18, FS_EmptySet
  <2>8. Cardinality(Neg) \in Nat /\ Cardinality(W) \in Nat BY ONLY <2>1, FS_CardinalityType
  <2>9. Cardinality(D) = Cardinality(Neg) + Cardinality(W) BY <1>18, <2>6, <2>7, <2>8
  <2> QED BY ONLY <2>2, <2>5, <2>8, <2>9 DEF LiveAre
<1>23. L2 \subseteq Prf /\ 0 \in L2 /\ P \subseteq Prf /\ 0 \in P
  <2>1. L2 \subseteq Prf /\ 0 \in L2 BY <1>0, <1>6, <1>10, LiveRange
  <2>2. L \subseteq Prf BY <1>0, <1>1, <1>4, LiveRange
  <2>3. \A t \in Neg : v[t] \in L BY <1>18, <1>21
  <2>4. P \subseteq L BY <1>19, <1>21, <2>3
  <2> QED BY <1>19, <2>1, <2>2, <2>4
<1>24. F = Slots(U, Releases)
  <2>1. \A k \in Slots(U, Releases) : k <= C BY <1>0, WritersOf
  <2> QED BY <1>5, <2>1 DEF Freed
<1>25. prf_recover_num_next(U) = PRF_INT_SIZE - Cardinality(L2)
  <2>1. PICK n : n = PRF_INT_SIZE - Cardinality(L2) OBVIOUS
  <2>2. n % PRF_INT_SIZE = n BY <1>23, <2>1, CountFree
  <2>3. Cardinality(P) \in Nat /\ Cardinality(W) \in Nat /\ Cardinality(F) \in Nat
    <3>1. IsFiniteSet(P) BY <1>23, CountFree
    <3>2. IsFiniteSet(W) BY <1>16, <1>18, FS_Subset
    <3> QED BY <1>9, <3>1, <3>2, FS_CardinalityType
  <2>4. PRF_INT_SIZE \in Nat BY SizeAssumption
  <2>5. PRF_INT_SIZE - Cardinality(P) + Cardinality(F) - Cardinality(W) = n
    BY <1>9, <1>22, <2>1, <2>3, <2>4
  <2>6. prf_recover_num_next(U) = (PRF_INT_SIZE - Cardinality(P) + Cardinality(F) - Cardinality(W)) % PRF_INT_SIZE
    BY <1>1, <1>13, <1>14, <1>24 DEF prf_recover_num_next
  <2> QED BY <2>1, <2>2, <2>5, <2>6
<1>26. prf_recover_next(U) = L2
  <2>1. F \subseteq 1..C BY <1>0, <1>24, WritersOf
  <2>2. \A i \in W : (\A j \in F : j > i => U[j].prev # U[i].prd) <=> U[i].prd \in L2
    <3> TAKE i \in W
    <3>1. i \in D /\ v[i] = U[i].prd /\ i \in Int BY <1>16, <1>18
    <3>2. v[i] \in L BY <1>21, <3>1
    <3>3. \A j \in F : U[j].prev = U[i].prd => j > i BY <1>9, <2>1, <3>1
    <3>4. U[i].prd \in L2 <=> \A j \in F : U[j].prev # U[i].prd BY <1>9, <3>1, <3>2
    <3> QED BY <3>3, <3>4
  <2>3. \A p \in P : (\A j \in F : j > 0 => U[j].prev # p) <=> p \in L2
    <3> TAKE p \in P
    <3>1. \A j \in F : j > 0 BY <2>1
    <3>2. p \in L BY <1>18, <1>19, <1>21
    <3> QED BY <1>9, <3>1, <3>2
  <2>4. L2 \subseteq P \cup {U[i].prd : i \in W}
    <3>1. L2 \subseteq L BY <1>9
    <3>2. \A t \in D : v[t] \in P \cup {U[i].prd : i \in W} BY <1>18, <1>19
    <3> QED BY <1>19, <1>21, <3>1, <3>2
  <2>5. prf_recover_next(U) =
          {U[i].prd : i \in {k \in W : \A j \in F : j > k => U[j].prev # U[k].prd}}
             \cup {p \in P : \A j \in F : j > 0 => U[j].prev # p}
    BY <1>13, <1>14, <1>24 DEF prf_recover_next
  <2> QED BY <2>2, <2>3, <2>4, <2>5
<1> QED BY <1>12, <1>25, <1>26 DEF RecoverKept

-----------------------------------------------------------------------------
(* One clock edge of the rename table.                                       *)

\* The speculative state, for the micro-ops h.
SpecOK(h, N, r, c, tb, av, busy, num) ==
  /\ Maps(h, N, r, c, tb, av)
  /\ busy = Live(h, r, c) /\ num = PRF_INT_SIZE - Cardinality(busy)

Idle(f, N) == \A k \in (COMMIT_WIDTH + 1)..N : ~f[k].valid

RatStepped(g, N, A) ==
  /\ g \in [1..(N + RENAME_WIDTH) -> Uop] /\ A \in [1..RENAME_WIDTH -> Uop]
  /\ CommitOK(g, r_rat', arf_recover', prf_recover', prf_recover_num')
  /\ SpecOK(g, N + RENAME_WIDTH, r_rat', arf_recover', mp_tb', arf_valid', free_list', free_num')

BubbleGroup(A) == A \in [1..RENAME_WIDTH -> Uop] /\ \A i \in 1..RENAME_WIDTH : ~A[i].valid

\* A bubble behind the others moves nothing.
LEMMA AppendBubble ==
  ASSUME NEW N \in Nat, NEW g \in [1..N -> Uop], NEW A, BubbleGroup(A),
         NEW h, h = Appended(g, N, A), NEW place, place = [k \in 1..N |-> k]
  PROVE  Moved(g, N, h, N + RENAME_WIDTH, N, place)
<1>0. RENAME_WIDTH \in Nat /\ A \in [1..RENAME_WIDTH -> Uop] /\ \A i \in 1..RENAME_WIDTH : ~A[i].valid
  BY SizeAssumption DEF BubbleGroup
<1>1. \A k \in 1..N : h[k] = g[k] /\ k \in 1..(N + RENAME_WIDTH) BY <1>0 DEF Appended
<1>2. ASSUME NEW k \in 1..(N + RENAME_WIDTH), ~(k \in 1..N) PROVE h[k] \in Uop /\ ~h[k].valid
  <2>1. ~(k <= N) /\ k - N \in 1..RENAME_WIDTH BY <1>0, <1>2
  <2>2. h[k] = A[k - N] BY <2>1 DEF Appended
  <2> QED BY <1>0, <2>1, <2>2
<1>3. h \in [1..(N + RENAME_WIDTH) -> Uop]
  <2>1. \A k \in 1..(N + RENAME_WIDTH) : h[k] \in Uop BY <1>1, <1>2
  <2> QED BY <2>1 DEF Appended
<1>4. \A k \in 1..(N + RENAME_WIDTH) : h[k].valid => k \in 1..N /\ place[k] = k BY <1>2
<1>5. \A k \in 1..N : Alike(h[k], g[k]) /\ k <= N /\ place[k] = k BY <1>1 DEF Alike
<1>6. N + RENAME_WIDTH \in Nat /\ N \in 0..N BY <1>0
<1>7. \A k \in 1..(N + RENAME_WIDTH) : h[k].valid =>
        place[k] \in 1..N /\ place[k] <= N /\ Alike(h[k], g[place[k]])
  BY <1>4, <1>5
<1>8. \A j, k \in 1..(N + RENAME_WIDTH) : h[j].valid /\ h[k].valid /\ j < k => place[j] < place[k]
  BY <1>4
<1>9. \A p \in 1..N : g[p].valid /\ p <= N => \E k \in 1..(N + RENAME_WIDTH) : h[k].valid /\ place[k] = p
  BY <1>1, <1>5
<1> QED BY <1>3, <1>6, <1>7, <1>8, <1>9 DEF Moved

\* Moving all the micro-ops keeps the speculative state exact too.
LEMMA SpecMoves ==
  ASSUME NEW g, NEW N, NEW h, NEW M, NEW place, Moved(g, N, h, M, N, place),
         NEW r, NEW c, NEW tb, NEW av, NEW busy, NEW num, NEW pr, NEW pn,
         CommitOK(g, r, c, pr, pn)
  PROVE  /\ CommitOK(h, r, c, pr, pn)
         /\ SpecOK(g, N, r, c, tb, av, busy, num) => SpecOK(h, M, r, c, tb, av, busy, num)
<1>1. Commits(r, c) /\ Linked(g, r, c) /\ Unaliased(g, r, c) BY DEF CommitOK
<1>2. MoveKept(g, N, h, M, N, r, c) BY <1>1, MoveKeeps
<1>3. CommitOK(h, r, c, pr, pn) BY <1>2 DEF CommitOK, MoveKept
<1>4. ASSUME SpecOK(g, N, r, c, tb, av, busy, num) PROVE SpecOK(h, M, r, c, tb, av, busy, num)
  <2>1. Live(h, r, c) = Live(g, r, c) /\ \A a \in Arf : SameHeld(h, M + 1, g, N + 1, r, c, a)
    BY <1>2 DEF MoveKept
  <2>2. Maps(h, M, r, c, tb, av) BY <1>4, <2>1 DEF SpecOK, Maps, SameHeld
  <2> QED BY <1>4, <2>1, <2>2 DEF SpecOK
<1> QED BY <1>3, <1>4

\* The free list hands out registers, p0 if nothing else.
LEMMA OutFacts ==
  ASSUME NEW retire, NEW req, NEW out, out = prf_out(retire, req)
  PROVE  out \in [1..RENAME_WIDTH -> Prf]
<1>1. PICK busy : busy = busy_after_retire(retire) OBVIOUS
<1>2. out = [i \in 1..RENAME_WIDTH |->
               IF i \in req /\ allocatable(retire, req)
               THEN NthFree(busy, Cardinality({j \in req : j <= i})) ELSE 0]
  BY <1>1 DEF prf_out
<1>3. \A n : NthFree(busy, n) \in Prf BY NthFreeType
<1>4. 0 \in Prf BY ArfFacts
<1> QED BY <1>2, <1>3, <1>4

\* The retired group is the beginning of the micro-ops in flight.
LEMMA Prefix ==
  ASSUME NEW N, NEW f, NEW U, Begins(f, N, U), NEW place, place = [k \in 1..COMMIT_WIDTH |-> k]
  PROVE  Moved(f, N, U, COMMIT_WIDTH, COMMIT_WIDTH, place)
<1>1. /\ N \in Nat /\ COMMIT_WIDTH \in Nat /\ COMMIT_WIDTH <= N
      /\ f \in [1..N -> Uop] /\ U \in [1..COMMIT_WIDTH -> Uop]
      /\ \A j \in 1..COMMIT_WIDTH : f[j] = U[j]
  BY DEF Begins
<1>2. COMMIT_WIDTH \in 0..N BY <1>1
<1>3. \A k \in 1..COMMIT_WIDTH : place[k] = k /\ k \in 1..N /\ k <= COMMIT_WIDTH /\ Alike(U[k], f[k])
  BY <1>1 DEF Alike
<1>4. \A p \in 1..N : p <= COMMIT_WIDTH => p \in 1..COMMIT_WIDTH /\ f[p] = U[p] BY <1>1
<1>5. \A k \in 1..COMMIT_WIDTH : U[k].valid =>
        place[k] \in 1..N /\ place[k] <= COMMIT_WIDTH /\ Alike(U[k], f[place[k]])
  BY <1>3
<1>6. \A j, k \in 1..COMMIT_WIDTH : U[j].valid /\ U[k].valid /\ j < k => place[j] < place[k] BY <1>3
<1>7. \A p \in 1..N : f[p].valid /\ p <= COMMIT_WIDTH => \E k \in 1..COMMIT_WIDTH : U[k].valid /\ place[k] = p
  <2> SUFFICES ASSUME NEW p \in 1..N, f[p].valid, p <= COMMIT_WIDTH
               PROVE \E k \in 1..COMMIT_WIDTH : U[k].valid /\ place[k] = p
    OBVIOUS
  <2>1. p \in 1..COMMIT_WIDTH /\ f[p] = U[p] BY <1>4
  <2> QED BY <1>3, <2>1
<1> QED BY <1>1, <1>2, <1>5, <1>6, <1>7 DEF Moved

\* After the retirement and before the renaming of a cycle.
LEMMA Retires ==
  ASSUME NEW N, NEW f, NEW U, Begins(f, N, U),
         CommitOK(f, r_rat, arf_recover, prf_recover, prf_recover_num),
         NEW rest, rest = Rest(f, N), NEW r2, r2 = r_rat_next(U), NEW c2, c2 = arf_recover_next(U)
  PROVE  /\ rest \in [1..N -> Uop]
         /\ CommitOK(rest, r2, c2, prf_recover_next(U), prf_recover_num_next(U))
         /\ SpecOK(f, N, r_rat, arf_recover, mp_tb, arf_valid, free_list, free_num)
              => SpecOK(rest, N, r2, c2, mp_tb, arf_valid, busy_after_retire(U), num_after_retire(U))
<1>0. /\ N \in Nat /\ COMMIT_WIDTH \in Nat /\ COMMIT_WIDTH <= N
      /\ f \in [1..N -> Uop] /\ U \in [1..COMMIT_WIDTH -> Uop]
      /\ \A j \in 1..COMMIT_WIDTH : f[j] = U[j]
  BY DEF Begins
<1>1. /\ Commits(r_rat, arf_recover) /\ Linked(f, r_rat, arf_recover) /\ Unaliased(f, r_rat, arf_recover)
      /\ prf_recover = Committed(r_rat, arf_recover) /\ prf_recover_num = PRF_INT_SIZE - Cardinality(prf_recover)
  BY DEF CommitOK
<1>2. CommitOK(U, r_rat, arf_recover, prf_recover, prf_recover_num)
  <2>1. PICK place : place = [k \in 1..COMMIT_WIDTH |-> k] OBVIOUS
  <2>2. Moved(f, N, U, COMMIT_WIDTH, COMMIT_WIDTH, place) BY <2>1, Prefix
  <2>3. MoveKept(f, N, U, COMMIT_WIDTH, COMMIT_WIDTH, r_rat, arf_recover) BY <1>1, <2>2, MoveKeeps
  <2> QED BY <1>1, <2>3 DEF CommitOK, MoveKept
<1>3. RecoverKept(U, r2, c2) BY <1>0, <1>2, RecoverKeeps
<1>4. PICK L : L = Live(f, r_rat, arf_recover) OBVIOUS
<1>5. PICK L2 : L2 = Live(rest, r2, c2) OBVIOUS
<1>6. PICK F : F = Freed(f, COMMIT_WIDTH) OBVIOUS
<1>7. CommitDone(f, r_rat, arf_recover, rest, r2, c2, L, L2, F)
  BY <1>1, <1>4, <1>5, <1>6, Commit
<1>8. /\ Linked(rest, r2, c2) /\ Unaliased(rest, r2, c2)
      /\ IsFiniteSet(F) /\ L2 = L \ {f[i].prev : i \in F}
      /\ Cardinality(L2) = Cardinality(L) - Cardinality(F)
  BY <1>7 DEF CommitDone
<1>9. /\ Commits(r2, c2) /\ rest \in [1..N -> Uop]
      /\ \A a \in Arf, k \in (COMMIT_WIDTH + 1)..(N + 1) :
           /\ Held(rest, r2, a, k) = Held(f, r_rat, a, k)
           /\ a # 0 => (Known(rest, c2, a, k) <=> Known(f, arf_recover, a, k))
  BY <1>1, CommitKeeps
<1>10. CommitOK(rest, r2, c2, prf_recover_next(U), prf_recover_num_next(U))
  BY <1>3, <1>8, <1>9 DEF CommitOK, RecoverKept
<1>11. ASSUME SpecOK(f, N, r_rat, arf_recover, mp_tb, arf_valid, free_list, free_num)
       PROVE SpecOK(rest, N, r2, c2, mp_tb, arf_valid, busy_after_retire(U), num_after_retire(U))
  <2>1. free_list = L /\ free_num = PRF_INT_SIZE - Cardinality(L) BY <1>4, <1>11 DEF SpecOK
  <2>2. Maps(rest, N, r2, c2, mp_tb, arf_valid)
    <3>1. N + 1 \in (COMMIT_WIDTH + 1)..(N + 1) BY <1>0
    <3> QED BY <1>9, <1>11, <3>1 DEF SpecOK, Maps
  <2>3. F = Slots(U, Releases) /\ \A i \in F : f[i].prev = U[i].prev
    <3>1. F = {k \in 1..N : k <= COMMIT_WIDTH /\ f[k].valid /\ f[k].prev_valid}
      BY <1>0, <1>6, WritersOf DEF Freed
    <3>2. Slots(U, Releases) = {k \in 1..COMMIT_WIDTH : U[k].valid /\ U[k].prev_valid}
      BY <1>0, WritersOf
    <3>3. \A k : k \in 1..N /\ k <= COMMIT_WIDTH <=> k \in 1..COMMIT_WIDTH BY <1>0
    <3> QED BY <1>0, <3>1, <3>2, <3>3
  <2>4. busy_after_retire(U) = L2
    <3>1. Released(U) = {f[i].prev : i \in F} BY <2>3 DEF Released
    <3> QED BY <1>8, <2>1, <3>1 DEF busy_after_retire
  <2>5. num_after_retire(U) = PRF_INT_SIZE - Cardinality(L2)
    <3>1. PICK n : n = PRF_INT_SIZE - Cardinality(L2) OBVIOUS
    <3>2. L2 \subseteq Prf /\ 0 \in L2 BY <1>0, <1>5, <1>9, LiveRange
    <3>3. n % PRF_INT_SIZE = n BY <3>1, <3>2, CountFree
    <3>4. L \subseteq Prf /\ 0 \in L BY <1>0, <1>1, <1>4, LiveRange
    <3>5. IsFiniteSet(L) BY <3>4, CountFree
    <3>6. Cardinality(L) \in Nat /\ Cardinality(F) \in Nat BY <1>8, <3>5, FS_CardinalityType
    <3>7. PRF_INT_SIZE \in Nat BY SizeAssumption
    <3>8. PRF_INT_SIZE - Cardinality(L) + Cardinality(F) = n BY <1>8, <3>1, <3>6, <3>7
    <3> QED BY <2>1, <2>3, <3>1, <3>3, <3>8 DEF num_after_retire
  <2> QED BY <1>5, <2>2, <2>4, <2>5 DEF SpecOK
<1> QED BY <1>9, <1>10, <1>11

\* A group that the free list serves gets different free registers.
LEMMA Allocates ==
  ASSUME NEW N \in Nat, NEW g \in [1..N -> Uop], NEW r, NEW c, Commits(r, c),
         NEW retire, NEW group \in [1..RENAME_WIDTH -> Uop], NEW req, req = Slots(group, Writes),
         busy_after_retire(retire) = Live(g, r, c),
         num_after_retire(retire) = PRF_INT_SIZE - Cardinality(Live(g, r, c)),
         allocatable(retire, req), NEW out, out = prf_out(retire, req)
  PROVE  Allots(out, req, Live(g, r, c))
<1>1. PICK busy : busy = Live(g, r, c) OBVIOUS
<1>2. busy \subseteq Prf /\ 0 \in busy BY <1>1, LiveRange
<1>3. Cardinality(Prf \ busy) = PRF_INT_SIZE - Cardinality(busy) BY <1>2, CountFree
<1>4. RENAME_WIDTH \in Nat BY SizeAssumption
<1>5. req \subseteq 1..RENAME_WIDTH BY <1>4, WritersOf
<1>6. Cardinality(req) <= Cardinality(Prf \ busy) BY <1>1, <1>3 DEF allocatable
<1>7. \A i \in req : out[i] = NthFree(busy, Cardinality({j \in req : j <= i}))
  BY <1>1, <1>5 DEF prf_out
<1>8. Allots(out, req, busy) BY <1>2, <1>5, <1>6, <1>7, Allocation
<1> QED BY <1>1, <1>8

\* One step of the rename table and the free list keeps all of it, with the
\* retired group gone and the renamed one behind the rest.
LEMMA RatSteps ==
  ASSUME NEW N, NEW f, NEW U, Begins(f, N, U),
         CommitOK(f, r_rat, arf_recover, prf_recover, prf_recover_num),
         recover => Idle(f, N),
         ~recover => SpecOK(f, N, r_rat, arf_recover, mp_tb, arf_valid, free_list, free_num),
         NEW group \in [1..RENAME_WIDTH -> Uop], NEW out, out = prf_out(U, Slots(group, Writes)),
         RatNext(recover, U, group, out),
         NEW A, A = rr_uops_out(recover, U, group, out), NEW g, g = Appended(Rest(f, N), N, A)
  PROVE  RatStepped(g, N, A)
<1>0. /\ N \in Nat /\ COMMIT_WIDTH \in Nat /\ COMMIT_WIDTH <= N /\ RENAME_WIDTH \in Nat
      /\ f \in [1..N -> Uop] /\ U \in [1..COMMIT_WIDTH -> Uop]
  BY SizeAssumption DEF Begins
<1>1. PICK r2 : r2 = r_rat_next(U) OBVIOUS
<1>2. PICK c2 : c2 = arf_recover_next(U) OBVIOUS
<1>3. PICK rest : rest = Rest(f, N) OBVIOUS
<1>4. PICK req : req = Slots(group, Writes) OBVIOUS
<1>5. /\ r_rat' = r2 /\ arf_recover' = c2
      /\ prf_recover' = prf_recover_next(U) /\ prf_recover_num' = prf_recover_num_next(U)
  BY <1>1, <1>2 DEF RatNext, MapNext, FLNext
<1>6. /\ mp_tb' = IF recover THEN r2 ELSE mp_tb_next(U, group, out)
      /\ arf_valid' = IF recover THEN c2 ELSE arf_valid_next(U, group)
  BY <1>1, <1>2 DEF RatNext, MapNext
<1>7. LET got == IF allocatable(U, req) THEN req ELSE {} IN
      /\ free_list' = IF recover THEN prf_recover_next(U)
                      ELSE busy_after_retire(U) \cup {out[i] : i \in got}
      /\ free_num' = IF recover THEN prf_recover_num_next(U)
                     ELSE num_after_retire(U) - Cardinality(got)
  BY <1>4 DEF RatNext, FLNext
<1>8. /\ rest \in [1..N -> Uop]
      /\ CommitOK(rest, r2, c2, prf_recover', prf_recover_num')
      /\ ~recover => SpecOK(rest, N, r2, c2, mp_tb, arf_valid, busy_after_retire(U), num_after_retire(U))
  BY <1>1, <1>2, <1>3, <1>5, Retires
<1>9. out \in [1..RENAME_WIDTH -> Prf] BY OutFacts
<1>10. BubbleGroup(Bubble) BY NoUopFacts DEF BubbleGroup, Bubble
<1>11. PICK place : place = [k \in 1..N |-> k] OBVIOUS
<1>12. ASSUME A = Bubble
       PROVE  /\ g \in [1..(N + RENAME_WIDTH) -> Uop] /\ A \in [1..RENAME_WIDTH -> Uop]
              /\ CommitOK(g, r2, c2, prf_recover', prf_recover_num')
              /\ \A tb, av, busy, num :
                   SpecOK(rest, N, r2, c2, tb, av, busy, num)
                     => SpecOK(g, N + RENAME_WIDTH, r2, c2, tb, av, busy, num)
  <2>1. Moved(rest, N, g, N + RENAME_WIDTH, N, place)
    BY <1>0, <1>3, <1>8, <1>10, <1>11, <1>12, AppendBubble
  <2>2. CommitOK(g, r2, c2, prf_recover', prf_recover_num') BY <1>8, <2>1, SpecMoves
  <2>3. ASSUME NEW tb, NEW av, NEW busy, NEW num, SpecOK(rest, N, r2, c2, tb, av, busy, num)
        PROVE SpecOK(g, N + RENAME_WIDTH, r2, c2, tb, av, busy, num)
    BY <1>8, <2>1, <2>3, SpecMoves
  <2>4. g \in [1..(N + RENAME_WIDTH) -> Uop] BY <2>1 DEF Moved
  <2>5. A \in [1..RENAME_WIDTH -> Uop] BY <1>10, <1>12 DEF BubbleGroup
  <2> QED BY <2>2, <2>3, <2>4, <2>5
<1>13. CASE recover
  <2>1. A = Bubble BY <1>13 DEF rr_uops_out
  <2>2. \A k \in 1..N : ~rest[k].valid
    <3> TAKE k \in 1..N
    <3>1. rest[k] = IF k <= COMMIT_WIDTH THEN NoUop ELSE f[k] BY <1>3 DEF Rest
    <3>2. ~(k <= COMMIT_WIDTH) => ~f[k].valid BY <1>0, <1>13 DEF Idle
    <3> QED BY <3>1, <3>2, NoUopFacts
  <2>3. Commits(r2, c2) BY <1>8 DEF CommitOK
  <2>4. Live(rest, r2, c2) = Committed(r2, c2)
        /\ \A a : Held(rest, r2, a, N + 1) = r2[a] /\ (Known(rest, c2, a, N + 1) <=> a \in c2)
    BY <1>0, <1>8, <2>2, <2>3, NoneInFlight
  <2>5. prf_recover' = Committed(r2, c2) /\ prf_recover_num' = PRF_INT_SIZE - Cardinality(prf_recover')
    BY <1>8 DEF CommitOK
  <2>6. Maps(rest, N, r2, c2, r2, c2) BY <2>3, <2>4 DEF Maps, Commits
  <2>7. mp_tb' = r2 /\ arf_valid' = c2 /\ free_list' = prf_recover' /\ free_num' = prf_recover_num'
    BY <1>5, <1>6, <1>7, <1>13
  <2>8. SpecOK(rest, N, r2, c2, mp_tb', arf_valid', free_list', free_num')
    BY <2>4, <2>5, <2>6, <2>7 DEF SpecOK
  <2>9. SpecOK(g, N + RENAME_WIDTH, r2, c2, mp_tb', arf_valid', free_list', free_num')
    BY <1>12, <2>1, <2>8
  <2> QED BY <1>5, <1>12, <2>1, <2>9 DEF RatStepped
<1>14. CASE ~recover /\ ~allocatable(U, req)
  <2>1. A = Bubble BY <1>4, <1>14 DEF rr_uops_out, rr_allocatable
  <2>2. mp_tb' = mp_tb /\ arf_valid' = arf_valid
    BY <1>4, <1>6, <1>14 DEF mp_tb_next, arf_valid_next, rr_allocatable
  <2>3. SpecOK(rest, N, r2, c2, mp_tb, arf_valid, busy_after_retire(U), num_after_retire(U)) BY <1>8, <1>14
  <2>4. free_list' = busy_after_retire(U)
    <3>1. free_list' = busy_after_retire(U) \cup {out[i] : i \in {}} BY <1>7, <1>14
    <3> QED BY <3>1
  <2>5. free_num' = num_after_retire(U)
    <3>1. free_num' = num_after_retire(U) - Cardinality({}) BY <1>7, <1>14
    <3>2. Cardinality({}) = 0 BY FS_EmptySet
    <3>3. num_after_retire(U) \in Int
      <4>1. PICK L2 : L2 = Live(rest, r2, c2) OBVIOUS
      <4>2. L2 \subseteq Prf /\ 0 \in L2 BY <1>0, <1>8, <4>1, LiveRange DEF CommitOK
      <4>3. num_after_retire(U) = PRF_INT_SIZE - Cardinality(L2) BY <2>3, <4>1 DEF SpecOK
      <4>4. num_after_retire(U) \in 0..(PRF_INT_SIZE - 1) BY <4>2, <4>3, CountFree
      <4> QED BY <4>4
    <3> QED BY <3>1, <3>2, <3>3
  <2>6. SpecOK(g, N + RENAME_WIDTH, r2, c2, mp_tb', arf_valid', free_list', free_num')
    BY <1>12, <2>1, <2>2, <2>3, <2>4, <2>5
  <2> QED BY <1>5, <1>12, <2>1, <2>6 DEF RatStepped
<1>15. CASE ~recover /\ allocatable(U, req)
  <2>1. A = Rename(group, out) BY <1>4, <1>15 DEF rr_uops_out, rr_allocatable
  <2>2. PICK L2 : L2 = Live(rest, r2, c2) OBVIOUS
  <2>3. /\ Maps(rest, N, r2, c2, mp_tb, arf_valid)
        /\ busy_after_retire(U) = L2 /\ num_after_retire(U) = PRF_INT_SIZE - Cardinality(L2)
    BY <1>8, <1>15, <2>2 DEF SpecOK
  <2>4. /\ Commits(r2, c2) /\ Linked(rest, r2, c2) /\ Unaliased(rest, r2, c2)
        /\ prf_recover' = Committed(r2, c2) /\ prf_recover_num' = PRF_INT_SIZE - Cardinality(prf_recover')
    BY <1>8 DEF CommitOK
  <2>5. Allots(out, req, L2)
    BY <1>0, <1>4, <1>8, <1>15, <2>2, <2>3, <2>4, Allocates
  <2>6. PICK tb2 : tb2 = [a \in Arf |-> mapped(group, out, a, RENAME_WIDTH + 1)] OBVIOUS
  <2>7. PICK av2 : av2 = arf_valid \cup {group[i].rd : i \in Slots(group, Writes)} OBVIOUS
  <2>8. RenamedAll(rest, N, r2, c2, g, group, out, tb2, av2)
    BY <1>0, <1>3, <1>4, <1>8, <1>9, <2>1, <2>2, <2>3, <2>4, <2>5, <2>6, <2>7, Renames
  <2>9. /\ g \in [1..(N + RENAME_WIDTH) -> Uop]
        /\ Linked(g, r2, c2) /\ Unaliased(g, r2, c2)
        /\ Maps(g, N + RENAME_WIDTH, r2, c2, tb2, av2)
        /\ Live(g, r2, c2) = L2 \cup {out[i] : i \in req}
        /\ Cardinality(Live(g, r2, c2)) = Cardinality(L2) + Cardinality(req)
    BY <1>4, <2>2, <2>8 DEF RenamedAll
  <2>10. mp_tb' = tb2 /\ arf_valid' = av2
    BY <1>4, <1>6, <1>15, <2>6, <2>7 DEF mp_tb_next, arf_valid_next, rr_allocatable
  <2>11. free_list' = Live(g, r2, c2)
    BY <1>7, <1>15, <2>3, <2>9
  <2>12. free_num' = PRF_INT_SIZE - Cardinality(free_list')
    <3>1. free_num' = PRF_INT_SIZE - Cardinality(L2) - Cardinality(req) BY <1>7, <1>15, <2>3
    <3>2. IsFiniteSet(L2)
      <4>1. L2 \subseteq Prf /\ 0 \in L2 BY <1>0, <1>8, <2>2, <2>4, LiveRange
      <4> QED BY <4>1, CountFree
    <3>3. IsFiniteSet(req)
      <4>1. req \subseteq 1..RENAME_WIDTH BY <1>0, <1>4, WritersOf
      <4>2. IsFiniteSet(1..RENAME_WIDTH) BY <1>0, FS_Interval
      <4> QED BY <4>1, <4>2, FS_Subset
    <3>4. Cardinality(L2) \in Nat /\ Cardinality(req) \in Nat BY <3>2, <3>3, FS_CardinalityType
    <3>5. PRF_INT_SIZE \in Nat BY SizeAssumption
    <3> QED BY <2>9, <2>11, <3>1, <3>4, <3>5
  <2>13. A \in [1..RENAME_WIDTH -> Uop]
    <3>1. mp_tb \in [Arf -> Prf] BY <2>3 DEF Maps
    <3>2. Renaming(A, group, out) BY <1>9, <2>1, <3>1, RenameFields
    <3> QED BY <3>2 DEF Renaming
  <2>14. CommitOK(g, r2, c2, prf_recover', prf_recover_num') BY <2>4, <2>9 DEF CommitOK
  <2>15. SpecOK(g, N + RENAME_WIDTH, r2, c2, mp_tb', arf_valid', free_list', free_num')
    BY <2>9, <2>10, <2>11, <2>12 DEF SpecOK
  <2> QED BY <1>5, <2>9, <2>13, <2>14, <2>15 DEF RatStepped
<1> QED BY <1>13, <1>14, <1>15

-----------------------------------------------------------------------------
(* The micro-ops in flight, place by place.                                  *)

JoinedAre(s, p, q, a, b) ==
  /\ s \in [1..(p + q) -> Uop]
  /\ \A k \in 1..p : s[k] = a[k]
  /\ \A k \in 1..q : s[p + k] = b[k]

\* Concatenation, by place.
LEMMA Joined ==
  ASSUME NEW p \in Nat, NEW q \in Nat, NEW a \in [1..p -> Uop], NEW b \in [1..q -> Uop]
  PROVE  JoinedAre(a \o b, p, q, a, b)
<1>1. a \in Seq(Uop) /\ Len(a) = p /\ b \in Seq(Uop) /\ Len(b) = q OBVIOUS
<1>2. PICK s : s = a \o b OBVIOUS
<1>3. /\ s \in Seq(Uop) /\ Len(s) = p + q
      /\ \A i \in 1..(p + q) : s[i] = IF i <= p THEN a[i] ELSE b[i - p]
  BY <1>1, <1>2, ConcatProperties
<1>4. s \in [1..(p + q) -> Uop] BY <1>3
<1>5. \A k \in 1..p : k \in 1..(p + q) /\ k <= p OBVIOUS
<1>6. \A k \in 1..q : p + k \in 1..(p + q) /\ ~(p + k <= p) /\ (p + k) - p = k OBVIOUS
<1> QED BY <1>2, <1>3, <1>4, <1>5, <1>6 DEF JoinedAre

Groups(U, z, in, tmp) ==
  /\ U \in [1..COMMIT_WIDTH -> Uop] /\ z \in Nat
  /\ in \in [1..RENAME_WIDTH -> Uop] /\ tmp \in [1..RENAME_WIDTH -> Uop]

Line(s, U, z, ring, in, tmp) ==
  /\ s \in [1..(COMMIT_WIDTH + z + 2 * RENAME_WIDTH) -> Uop]
  /\ \A k \in 1..COMMIT_WIDTH : s[k] = U[k]
  /\ \A k \in 1..z : s[COMMIT_WIDTH + k] = ring[k]
  /\ \A i \in 1..RENAME_WIDTH : s[COMMIT_WIDTH + z + i] = in[i]
  /\ \A i \in 1..RENAME_WIDTH : s[COMMIT_WIDTH + z + RENAME_WIDTH + i] = tmp[i]

\* The micro-ops in flight, by place.
LEMMA Lines ==
  ASSUME NEW U, NEW z, NEW in, NEW tmp, Groups(U, z, in, tmp), NEW ring \in [1..z -> Uop],
         NEW s, s = U \o ring \o in \o tmp
  PROVE  Line(s, U, z, ring, in, tmp)
<1>0. COMMIT_WIDTH \in Nat /\ RENAME_WIDTH \in Nat BY SizeAssumption
<1> DEFINE C == COMMIT_WIDTH
           R == RENAME_WIDTH
<1>1. /\ U \in [1..C -> Uop] /\ z \in Nat /\ C \in Nat /\ R \in Nat
      /\ in \in [1..R -> Uop] /\ tmp \in [1..R -> Uop]
  BY <1>0 DEF Groups
<1> HIDE DEF C, R
<1>2. PICK a : a = U \o ring OBVIOUS
<1>3. /\ a \in [1..(C + z) -> Uop]
      /\ \A k \in 1..C : a[k] = U[k]
      /\ \A k \in 1..z : a[C + k] = ring[k]
  <2>1. JoinedAre(a, C, z, U, ring) BY <1>1, <1>2, Joined
  <2> QED BY <2>1 DEF JoinedAre
<1>4. PICK b : b = a \o in OBVIOUS
<1>5. /\ b \in [1..(C + z + R) -> Uop]
      /\ \A k \in 1..(C + z) : b[k] = a[k]
      /\ \A i \in 1..R : b[C + z + i] = in[i]
  <2>0. C + z \in Nat BY <1>1
  <2>1. JoinedAre(b, C + z, R, a, in) BY <1>1, <1>3, <1>4, <2>0, Joined
  <2> QED BY <2>1 DEF JoinedAre
<1>6. /\ s \in [1..(C + z + R + R) -> Uop]
      /\ \A k \in 1..(C + z + R) : s[k] = b[k]
      /\ \A i \in 1..R : s[C + z + R + i] = tmp[i]
  <2>0. C + z + R \in Nat /\ s = b \o tmp BY <1>1, <1>2, <1>4
  <2>1. JoinedAre(s, C + z + R, R, b, tmp) BY <1>1, <1>5, <2>0, Joined
  <2> QED BY <2>1 DEF JoinedAre
<1>7. C + z + R + R = C + z + 2 * R BY <1>1
<1>8. \A k \in 1..C : s[k] = U[k]
  <2>1. \A k \in 1..C : k \in 1..(C + z) /\ k \in 1..(C + z + R) BY <1>1
  <2> QED BY <1>3, <1>5, <1>6, <2>1
<1>9. \A k \in 1..z : s[C + k] = ring[k]
  <2>1. \A k \in 1..z : C + k \in 1..(C + z) /\ C + k \in 1..(C + z + R) BY <1>1
  <2> QED BY <1>3, <1>5, <1>6, <2>1
<1>10. \A i \in 1..R : s[C + z + i] = in[i]
  <2>1. \A i \in 1..R : C + z + i \in 1..(C + z + R) BY <1>1
  <2> QED BY <1>5, <1>6, <2>1
<1> QED BY <1>6, <1>7, <1>8, <1>9, <1>10 DEF Line, C, R

-----------------------------------------------------------------------------
(* Where each micro-op goes.                                                 *)

\* n retire and left stay in the ring, m of the next group enter behind them,
\* from its slots ent; what follows moves by `shift'.
Shifting(C, R, z, n, left, m, ent, shift, g, h) ==
  /\ C \in Nat /\ R \in Nat /\ z \in Nat /\ n \in 0..C /\ left \in Nat /\ n + left = z
  /\ m \in Nat /\ ent \in [1..m -> 1..R] /\ shift \in {-R, 0, R}
  /\ \A j, k \in 1..m : j < k => ent[j] < ent[k]
  /\ g \in [1..(C + z + 3 * R) -> Uop] /\ h \in [1..(C + left + m + 2 * R) -> Uop]
  /\ \A k \in 1..C : ~g[k].valid /\ (h[k].valid => k <= n)
  /\ \A k \in 1..n : Alike(h[k], g[C + k])
  /\ \A k \in 1..left : Alike(h[C + k], g[C + n + k])
  /\ \A k \in 1..m : Alike(h[C + left + k], g[C + z + ent[k]])
  /\ \A i \in 1..R : g[C + z + i].valid => \E k \in 1..m : ent[k] = i
  /\ \A i \in 1..(2 * R) : h[C + left + m + i].valid =>
       i + shift \in 1..(2 * R) /\ Alike(h[C + left + m + i], g[C + z + R + (i + shift)])
  /\ \A j \in 1..(2 * R) : g[C + z + R + j].valid =>
       j - shift \in 1..(2 * R) /\ h[C + left + m + (j - shift)].valid

Place(C, R, z, n, left, m, ent, shift) ==
  [k \in 1..(C + left + m + 2 * R) |->
     IF k <= C THEN C + k
     ELSE IF k <= C + left THEN n + k
     ELSE IF k <= C + left + m THEN C + z + ent[k - C - left]
     ELSE C + z + R + ((k - C - left - m) + shift)]

\* What retires, stays, enters and shifts keeps its order.
LEMMA Shifts ==
  ASSUME NEW C, NEW R, NEW z, NEW n, NEW left, NEW m, NEW ent, NEW shift, NEW g, NEW h,
         Shifting(C, R, z, n, left, m, ent, shift, g, h),
         NEW N, N = C + z + 3 * R, NEW M, M = C + left + m + 2 * R,
         NEW place, place = Place(C, R, z, n, left, m, ent, shift)
  PROVE  Moved(g, N, h, M, N, place)
<1>1. /\ C \in Nat /\ R \in Nat /\ z \in Nat /\ n \in 0..C /\ left \in Nat /\ n + left = z
      /\ m \in Nat /\ ent \in [1..m -> 1..R] /\ shift \in {-R, 0, R} /\ shift \in Int
  BY DEF Shifting
<1>2. \A j, k \in 1..m : j < k => ent[j] < ent[k] BY DEF Shifting
<1>3. g \in [1..N -> Uop] /\ h \in [1..M -> Uop] BY DEF Shifting
<1>4. \A k \in 1..C : ~g[k].valid /\ (h[k].valid => k <= n) BY DEF Shifting
<1>5. /\ \A k \in 1..n : Alike(h[k], g[C + k])
      /\ \A k \in 1..left : Alike(h[C + k], g[C + n + k])
      /\ \A k \in 1..m : Alike(h[C + left + k], g[C + z + ent[k]])
  BY DEF Shifting
<1>6. \A i \in 1..R : g[C + z + i].valid => \E k \in 1..m : ent[k] = i BY DEF Shifting
<1>7. \A i \in 1..(2 * R) : h[C + left + m + i].valid =>
        i + shift \in 1..(2 * R) /\ Alike(h[C + left + m + i], g[C + z + R + (i + shift)])
  BY DEF Shifting
<1>8. \A j \in 1..(2 * R) : g[C + z + R + j].valid =>
        j - shift \in 1..(2 * R) /\ h[C + left + m + (j - shift)].valid
  BY DEF Shifting
<1>9. \A k \in 1..M : place[k] =
        IF k <= C THEN C + k
        ELSE IF k <= C + left THEN n + k
        ELSE IF k <= C + left + m THEN C + z + ent[k - C - left]
        ELSE C + z + R + ((k - C - left - m) + shift)
  BY DEF Place
<1>10. N \in Nat /\ M \in Nat /\ N \in 0..N BY <1>1
\* The four ranges of the new places.
<1>11. ASSUME NEW k \in 1..M, h[k].valid
       PROVE  \/ k \in 1..n /\ place[k] = C + k
              \/ \E i \in 1..left : k = C + i /\ place[k] = C + n + i
              \/ \E i \in 1..m : k = C + left + i /\ place[k] = C + z + ent[i]
              \/ \E i \in 1..(2 * R) : /\ k = C + left + m + i /\ i + shift \in 1..(2 * R)
                                       /\ place[k] = C + z + R + (i + shift)
  <2>1. CASE k <= C
    <3>1. k \in 1..C BY <1>1, <1>10, <2>1
    <3>2. k <= n BY <1>4, <1>11, <3>1
    <3>3. k \in 1..n /\ place[k] = C + k BY <1>1, <1>9, <2>1, <3>1, <3>2
    <3> QED BY <3>3
  <2>2. CASE ~(k <= C) /\ k <= C + left
    <3>1. k - C \in 1..left /\ k = C + (k - C) BY <1>1, <1>10, <2>2
    <3>2. place[k] = C + n + (k - C) BY <1>1, <1>9, <1>10, <2>2
    <3> QED BY <3>1, <3>2
  <2>3. CASE ~(k <= C + left) /\ k <= C + left + m
    <3>1. k - C - left \in 1..m /\ k = C + left + (k - C - left) /\ ~(k <= C) BY <1>1, <1>10, <2>3
    <3>2. place[k] = C + z + ent[k - C - left] BY <1>9, <2>3, <3>1
    <3> QED BY <3>1, <3>2
  <2>4. CASE ~(k <= C + left + m)
    <3>1. PICK i : i = k - C - left - m OBVIOUS
    <3>2. i \in 1..(2 * R) /\ k = C + left + m + i /\ ~(k <= C) /\ ~(k <= C + left)
      BY <1>1, <1>10, <2>4, <3>1
    <3>3. place[k] = C + z + R + (i + shift) BY <1>9, <2>4, <3>1, <3>2
    <3>4. i + shift \in 1..(2 * R) BY <1>7, <1>11, <3>2
    <3> QED BY <3>2, <3>3, <3>4
  <2> QED BY <2>1, <2>2, <2>3, <2>4
<1>12. ASSUME NEW k \in 1..M, h[k].valid
       PROVE  place[k] \in 1..N /\ place[k] <= N /\ Alike(h[k], g[place[k]])
  <2>1. CASE k \in 1..n /\ place[k] = C + k
    <3>1. C + k \in 1..N BY <1>1, <2>1
    <3> QED BY <1>5, <1>10, <2>1, <3>1
  <2>2. CASE \E i \in 1..left : k = C + i /\ place[k] = C + n + i
    <3>1. PICK i \in 1..left : k = C + i /\ place[k] = C + n + i BY <2>2
    <3>2. C + n + i \in 1..N BY <1>1
    <3> QED BY <1>5, <1>10, <3>1, <3>2
  <2>3. CASE \E i \in 1..m : k = C + left + i /\ place[k] = C + z + ent[i]
    <3>1. PICK i \in 1..m : k = C + left + i /\ place[k] = C + z + ent[i] BY <2>3
    <3>2. ent[i] \in 1..R BY <1>1
    <3>3. C + z + ent[i] \in 1..N BY <1>1, <3>2
    <3> QED BY <1>5, <1>10, <3>1, <3>3
  <2>4. CASE \E i \in 1..(2 * R) : /\ k = C + left + m + i /\ i + shift \in 1..(2 * R)
                                   /\ place[k] = C + z + R + (i + shift)
    <3>1. PICK i \in 1..(2 * R) : /\ k = C + left + m + i /\ i + shift \in 1..(2 * R)
                                  /\ place[k] = C + z + R + (i + shift)
      BY <2>4
    <3>2. C + z + R + (i + shift) \in 1..N BY <1>1, <3>1
    <3> QED BY <1>7, <1>10, <1>12, <3>1, <3>2
  <2> QED BY <1>11, <1>12, <2>1, <2>2, <2>3, <2>4
<1>13. ASSUME NEW j \in 1..M, NEW k \in 1..M, h[j].valid, h[k].valid, j < k
       PROVE place[j] < place[k]
  <2>0. \A i \in 1..m : ent[i] \in 1..R BY <1>1
  <2>1. CASE j \in 1..n /\ place[j] = C + j
    <3>1. CASE k \in 1..n /\ place[k] = C + k BY <1>1, <1>13, <2>1, <3>1
    <3>2. CASE \E i \in 1..left : k = C + i /\ place[k] = C + n + i BY <1>1, <2>1, <3>2
    <3>3. CASE \E i \in 1..m : k = C + left + i /\ place[k] = C + z + ent[i]
      BY <1>1, <2>0, <2>1, <3>3
    <3>4. CASE \E i \in 1..(2 * R) : /\ k = C + left + m + i /\ i + shift \in 1..(2 * R)
                                     /\ place[k] = C + z + R + (i + shift)
      BY <1>1, <2>1, <3>4
    <3> QED BY <1>11, <1>13, <3>1, <3>2, <3>3, <3>4
  <2>2. CASE \E i \in 1..left : j = C + i /\ place[j] = C + n + i
    <3>1. CASE k \in 1..n /\ place[k] = C + k BY <1>1, <1>13, <2>2, <3>1
    <3>2. CASE \E i \in 1..left : k = C + i /\ place[k] = C + n + i BY <1>1, <1>13, <2>2, <3>2
    <3>3. CASE \E i \in 1..m : k = C + left + i /\ place[k] = C + z + ent[i]
      <4>0. C \in Nat /\ z \in Nat /\ n + left = z /\ n \in Nat /\ left \in Nat BY <1>1
      <4>1. PICK i \in 1..left : j = C + i /\ place[j] = C + n + i BY <2>2
      <4>2. PICK p \in 1..m : k = C + left + p /\ place[k] = C + z + ent[p] BY <3>3
      <4>3. ent[p] \in Int /\ ent[p] > 0 BY <1>1, <2>0, <4>2
      <4>4. C + n + i < C + z + ent[p] BY ONLY <4>0, <4>1, <4>3
      <4> QED BY <4>1, <4>2, <4>4
    <3>4. CASE \E i \in 1..(2 * R) : /\ k = C + left + m + i /\ i + shift \in 1..(2 * R)
                                     /\ place[k] = C + z + R + (i + shift)
      <4>1. PICK i \in 1..left : j = C + i /\ place[j] = C + n + i BY <2>2
      <4>2. PICK p \in 1..(2 * R) : /\ k = C + left + m + p /\ p + shift \in 1..(2 * R)
                                    /\ place[k] = C + z + R + (p + shift)
        BY <3>4
      <4> QED BY <1>1, <4>1, <4>2
    <3> QED BY <1>11, <1>13, <3>1, <3>2, <3>3, <3>4
  <2>3. CASE \E i \in 1..m : j = C + left + i /\ place[j] = C + z + ent[i]
    <3>0. PICK i \in 1..m : j = C + left + i /\ place[j] = C + z + ent[i] BY <2>3
    <3>1. CASE k \in 1..n /\ place[k] = C + k BY <1>1, <1>13, <3>0, <3>1
    <3>2. CASE \E p \in 1..left : k = C + p /\ place[k] = C + n + p BY <1>1, <1>13, <3>0, <3>2
    <3>3. CASE \E p \in 1..m : k = C + left + p /\ place[k] = C + z + ent[p]
      <4>1. PICK p \in 1..m : k = C + left + p /\ place[k] = C + z + ent[p] BY <3>3
      <4>2. i < p BY <1>1, <1>13, <3>0, <4>1
      <4>3. ent[i] < ent[p] /\ ent[i] \in 1..R /\ ent[p] \in 1..R BY <1>2, <2>0, <4>2
      <4> QED BY <1>1, <3>0, <4>1, <4>3
    <3>4. CASE \E p \in 1..(2 * R) : /\ k = C + left + m + p /\ p + shift \in 1..(2 * R)
                                     /\ place[k] = C + z + R + (p + shift)
      <4>1. ent[i] \in 1..R BY <2>0
      <4> QED BY <1>1, <3>0, <3>4, <4>1
    <3> QED BY <1>11, <1>13, <3>1, <3>2, <3>3, <3>4
  <2>4. CASE \E i \in 1..(2 * R) : /\ j = C + left + m + i /\ i + shift \in 1..(2 * R)
                                   /\ place[j] = C + z + R + (i + shift)
    <3>0. PICK i \in 1..(2 * R) : /\ j = C + left + m + i /\ i + shift \in 1..(2 * R)
                                  /\ place[j] = C + z + R + (i + shift)
      BY <2>4
    <3>1. CASE k \in 1..n /\ place[k] = C + k BY <1>1, <1>13, <3>0, <3>1
    <3>2. CASE \E p \in 1..left : k = C + p /\ place[k] = C + n + p BY <1>1, <1>13, <3>0, <3>2
    <3>3. CASE \E p \in 1..m : k = C + left + p /\ place[k] = C + z + ent[p]
      BY <1>1, <1>13, <3>0, <3>3
    <3>4. CASE \E p \in 1..(2 * R) : /\ k = C + left + m + p /\ p + shift \in 1..(2 * R)
                                     /\ place[k] = C + z + R + (p + shift)
      BY <1>1, <1>13, <3>0, <3>4
    <3> QED BY <1>11, <1>13, <3>1, <3>2, <3>3, <3>4
  <2> QED BY <1>11, <1>13, <2>1, <2>2, <2>3, <2>4
<1>14. ASSUME NEW p \in 1..N, g[p].valid PROVE \E k \in 1..M : h[k].valid /\ place[k] = p
  <2>1. CASE p <= C
    <3>1. p \in 1..C BY <1>1, <1>10, <2>1
    <3> QED BY <1>4, <1>14, <3>1
  <2>2. CASE ~(p <= C) /\ p <= C + n
    <3>1. PICK k : k = p - C OBVIOUS
    <3>2. k \in 1..n /\ p = C + k /\ k \in 1..M /\ k <= C BY <1>1, <1>10, <2>2, <3>1
    <3>3. h[k].valid BY <1>5, <1>14, <3>2 DEF Alike
    <3> QED BY <1>9, <3>2, <3>3
  <2>3. CASE ~(p <= C + n) /\ p <= C + z
    <3>1. PICK i : i = p - C - n OBVIOUS
    <3>2. i \in 1..left /\ p = C + n + i /\ C + i \in 1..M /\ ~(C + i <= C) /\ C + i <= C + left
      BY <1>1, <1>10, <2>3, <3>1
    <3>3. h[C + i].valid BY <1>5, <1>14, <3>2 DEF Alike
    <3>4. place[C + i] = n + (C + i) BY <1>9, <3>2
    <3>5. place[C + i] = p BY <1>1, <3>2, <3>4
    <3> QED BY <3>2, <3>3, <3>5
  <2>4. CASE ~(p <= C + z) /\ p <= C + z + R
    <3>1. PICK i : i = p - C - z OBVIOUS
    <3>2. i \in 1..R /\ p = C + z + i BY <1>1, <1>10, <2>4, <3>1
    <3>3. PICK k \in 1..m : ent[k] = i BY <1>6, <1>14, <3>2
    <3>4. PICK q : q = C + left + k OBVIOUS
    <3>5. q \in 1..M /\ ~(q <= C) /\ ~(q <= C + left) /\ q <= C + left + m /\ q - C - left = k
      BY <1>1, <3>4
    <3>6. place[q] = C + z + ent[k] BY <1>9, <3>5
    <3>7. h[q].valid BY <1>5, <1>14, <3>2, <3>3, <3>4 DEF Alike
    <3> QED BY <3>2, <3>3, <3>5, <3>6, <3>7
  <2>5. CASE ~(p <= C + z + R)
    <3>1. PICK i : i = p - C - z - R OBVIOUS
    <3>2. i \in 1..(2 * R) /\ p = C + z + R + i BY <1>1, <1>10, <2>5, <3>1
    <3>3. PICK j : j = i - shift OBVIOUS
    <3>4. j \in 1..(2 * R) /\ h[C + left + m + j].valid BY <1>8, <1>14, <3>2, <3>3
    <3>5. PICK q : q = C + left + m + j OBVIOUS
    <3>6. q \in 1..M /\ ~(q <= C) /\ ~(q <= C + left) /\ ~(q <= C + left + m) /\ q - C - left - m = j
      BY <1>1, <3>4, <3>5
    <3>7. place[q] = C + z + R + (j + shift) BY <1>9, <3>6
    <3>8. j + shift = i BY <1>1, <3>2, <3>3
    <3> QED BY <3>2, <3>4, <3>5, <3>6, <3>7, <3>8
  <2> QED BY <2>1, <2>2, <2>3, <2>4, <2>5
<1> QED BY <1>3, <1>10, <1>12, <1>13, <1>14 DEF Moved

-----------------------------------------------------------------------------
(* The pipeline register between renaming and dispatch.                      *)

Rear(x, y) == [i \in 1..(2 * RENAME_WIDTH) |-> IF i <= RENAME_WIDTH THEN x[i] ELSE y[i - RENAME_WIDTH]]

ShiftsBy(T, T2, shift) ==
  /\ shift \in {-RENAME_WIDTH, 0, RENAME_WIDTH}
  /\ \A i \in 1..(2 * RENAME_WIDTH) : T2[i].valid =>
       i + shift \in 1..(2 * RENAME_WIDTH) /\ T2[i] = T[i + shift]
  /\ \A j \in 1..(2 * RENAME_WIDTH) : T[j].valid =>
       j - shift \in 1..(2 * RENAME_WIDTH) /\ T2[j - shift].valid

\* The register and its skid agree with the flag.
SkidOK(s) == s \in Stage([1..RENAME_WIDTH -> Uop]) /\ (~s.stall_prev => s.tmp = Bubble)

\* A bubble is a group of micro-ops that are not valid.
LEMMA BubbleFacts == Bubble \in [1..RENAME_WIDTH -> Uop] /\ \A i \in 1..RENAME_WIDTH : ~Bubble[i].valid
BY NoUopFacts DEF Bubble

\* A skid keeps its groups in order and saves a second one never.
LEMMA Skids ==
  ASSUME NEW s, SkidOK(s), NEW A \in [1..RENAME_WIDTH -> Uop], NEW clear \in BOOLEAN, NEW full \in BOOLEAN,
         NEW t, t = SkidNext(s, clear, full, A, Bubble)
  PROVE  /\ SkidOK(t) /\ (t.stall_prev => ~clear /\ full) /\ (clear => t = SkidReset(Bubble))
         /\ ~clear /\ (s.stall_prev => BubbleGroup(A)) =>
              \E shift : ShiftsBy(Rear(s.tmp, A), Rear(t.in, t.tmp), shift)
<1> DEFINE R == RENAME_WIDTH
<1>0. R \in Nat BY SizeAssumption
<1>1. /\ s.in \in [1..R -> Uop] /\ s.tmp \in [1..R -> Uop] /\ s.stall_prev \in BOOLEAN
      /\ s = [in |-> s.in, tmp |-> s.tmp, stall_prev |-> s.stall_prev]
      /\ ~s.stall_prev => s.tmp = Bubble
  BY DEF SkidOK, Stage, R
<1>2. Bubble \in [1..R -> Uop] /\ \A i \in 1..R : ~Bubble[i].valid BY BubbleFacts
<1>3. PICK B : B = Bubble OBVIOUS
<1>4. CASE clear
  <2>1. t = [in |-> B, tmp |-> B, stall_prev |-> FALSE] /\ t = SkidReset(Bubble)
    BY <1>3, <1>4 DEF SkidNext, SkidReset
  <2>2. SkidOK(t) BY <1>2, <1>3, <2>1 DEF SkidOK, Stage, R
  <2>3. ~t.stall_prev BY <2>1
  <2> QED BY <1>4, <2>1, <2>2, <2>3
<1> DEFINE T == Rear(s.tmp, A)
           T2 == Rear(t.in, t.tmp)
<1>5. /\ \A i \in 1..(2 * R) : T[i] = IF i <= R THEN s.tmp[i] ELSE A[i - R]
      /\ \A i \in 1..(2 * R) : T2[i] = IF i <= R THEN t.in[i] ELSE t.tmp[i - R]
  BY DEF Rear
<1>10. /\ ShiftsBy(T, T2, 0) \/ ShiftsBy(T, T2, R) \/ ShiftsBy(T, T2, -R)
            => \E shift : ShiftsBy(Rear(s.tmp, A), Rear(t.in, t.tmp), shift)
  OBVIOUS
<1> HIDE DEF T, T2, R
<1>6. CASE ~clear /\ full /\ ~s.stall_prev
  <2>1. t = [in |-> B, tmp |-> A, stall_prev |-> TRUE] BY <1>3, <1>6 DEF SkidNext
  <2>2. SkidOK(t) BY <1>2, <1>3, <2>1 DEF SkidOK, Stage, R
  <2>3. t.in = B /\ t.tmp = A /\ s.tmp = B
    <3>1. t.in = B /\ t.tmp = A BY ONLY <2>1
    <3>2. ~s.stall_prev BY <1>6
    <3>3. s.tmp = B BY <1>1, <1>3, <3>2
    <3> QED BY <3>1, <3>3
  <2>4. \A i \in 1..(2 * R) : T2[i] = T[i]
    <3>1. \A i \in 1..(2 * R) : i <= R => T[i] = B[i] /\ T2[i] = B[i] BY <1>5, <2>3
    <3>2. \A i \in 1..(2 * R) : ~(i <= R) => T[i] = A[i - R] /\ T2[i] = A[i - R] BY <1>5, <2>3
    <3> QED BY <3>1, <3>2
  <2>5. \A i \in 1..(2 * R) : i + 0 = i /\ i - 0 = i BY <1>0
  <2>6. ShiftsBy(T, T2, 0) BY <1>0, <2>4, <2>5 DEF ShiftsBy, R
  <2> QED BY <1>6, <1>10, <2>1, <2>2, <2>6
<1>7. CASE ~clear /\ ~full /\ s.stall_prev
  <2>1. t = [in |-> s.tmp, tmp |-> B, stall_prev |-> FALSE] BY <1>3, <1>7 DEF SkidNext
  <2>2. SkidOK(t) BY <1>1, <1>2, <1>3, <2>1 DEF SkidOK, Stage, R
  <2>3. ASSUME BubbleGroup(A) PROVE ShiftsBy(T, T2, 0)
    <3>1. \A i \in 1..(2 * R) : i <= R => T2[i] = T[i]
      <4>1. t.in = s.tmp /\ t.tmp = B BY <2>1
      <4> QED BY <1>5, <4>1
    <3>2. \A i \in 1..(2 * R) : ~(i <= R) => ~T2[i].valid /\ ~T[i].valid
      <4> SUFFICES ASSUME NEW i \in 1..(2 * R), ~(i <= R) PROVE ~T2[i].valid /\ ~T[i].valid OBVIOUS
      <4>1. T2[i] = B[i - R] /\ T[i] = A[i - R] /\ i - R \in 1..R BY <1>0, <1>5, <2>1
      <4> QED BY <1>2, <1>3, <2>3, <4>1 DEF BubbleGroup, R
    <3>3. \A i \in 1..(2 * R) : i + 0 = i /\ i - 0 = i BY <1>0
    <3> QED BY <1>0, <3>1, <3>2, <3>3 DEF ShiftsBy, R
  <2> QED BY <1>7, <1>10, <2>1, <2>2, <2>3
<1>8. CASE ~clear /\ full /\ s.stall_prev
  <2>1. t = [in |-> B, tmp |-> s.tmp, stall_prev |-> TRUE]
    <3>1. t = [s EXCEPT !.in = B] BY <1>3, <1>8 DEF SkidNext
    <3> QED BY <1>1, <1>8, <3>1
  <2>2. SkidOK(t) BY <1>1, <1>2, <1>3, <2>1 DEF SkidOK, Stage, R
  <2>3. ASSUME BubbleGroup(A) PROVE ShiftsBy(T, T2, -R)
    <3>1. \A i \in 1..(2 * R) : T2[i].valid => i + (-R) \in 1..(2 * R) /\ T2[i] = T[i + (-R)]
      <4> SUFFICES ASSUME NEW i \in 1..(2 * R), T2[i].valid
                   PROVE i + (-R) \in 1..(2 * R) /\ T2[i] = T[i + (-R)]
        OBVIOUS
      <4>1. ~(i <= R)
        <5> SUFFICES ASSUME i <= R PROVE FALSE OBVIOUS
        <5>1. T2[i] = B[i] /\ i \in 1..R BY <1>0, <1>5, <2>1
        <5> QED BY <1>2, <1>3, <5>1
      <4>2. T2[i] = s.tmp[i - R] /\ i - R \in 1..R BY <1>0, <1>5, <2>1, <4>1
      <4>3. i + (-R) = i - R /\ i - R \in 1..(2 * R) /\ i - R <= R BY <1>0, <4>2
      <4> QED BY <1>5, <4>2, <4>3
    <3>2. \A j \in 1..(2 * R) : T[j].valid => j - (-R) \in 1..(2 * R) /\ T2[j - (-R)].valid
      <4> SUFFICES ASSUME NEW j \in 1..(2 * R), T[j].valid
                   PROVE j - (-R) \in 1..(2 * R) /\ T2[j - (-R)].valid
        OBVIOUS
      <4>1. j <= R
        <5> SUFFICES ASSUME ~(j <= R) PROVE FALSE OBVIOUS
        <5>1. T[j] = A[j - R] /\ j - R \in 1..R BY <1>0, <1>5
        <5> QED BY <2>3, <5>1 DEF BubbleGroup, R
      <4>2. T[j] = s.tmp[j] BY <1>5, <4>1
      <4>3. j - (-R) = j + R /\ j + R \in 1..(2 * R) /\ ~(j + R <= R) /\ (j + R) - R = j BY <1>0, <4>1
      <4>4. T2[j + R] = s.tmp[j] BY <1>5, <2>1, <4>3
      <4> QED BY <4>2, <4>3, <4>4
    <3> QED BY <1>0, <3>1, <3>2 DEF ShiftsBy, R
  <2> QED BY <1>8, <1>10, <2>1, <2>2, <2>3
<1>9. CASE ~clear /\ ~full /\ ~s.stall_prev
  <2>1. t = [in |-> A, tmp |-> B, stall_prev |-> FALSE]
    <3>1. t = [s EXCEPT !.in = A] BY <1>9 DEF SkidNext
    <3> QED BY <1>1, <1>3, <1>9, <3>1
  <2>2. SkidOK(t) BY <1>2, <1>3, <2>1 DEF SkidOK, Stage, R
  <2>3. ShiftsBy(T, T2, R)
    <3>0. s.tmp = B /\ t.in = A /\ t.tmp = B BY <1>1, <1>3, <1>9, <2>1
    <3>1. \A i \in 1..(2 * R) : T2[i].valid => i + R \in 1..(2 * R) /\ T2[i] = T[i + R]
      <4> SUFFICES ASSUME NEW i \in 1..(2 * R), T2[i].valid
                   PROVE i + R \in 1..(2 * R) /\ T2[i] = T[i + R]
        OBVIOUS
      <4>1. i <= R
        <5> SUFFICES ASSUME ~(i <= R) PROVE FALSE OBVIOUS
        <5>1. T2[i] = B[i - R] /\ i - R \in 1..R BY <1>0, <1>5, <3>0
        <5> QED BY <1>2, <1>3, <5>1
      <4>2. T2[i] = A[i] BY <1>5, <3>0, <4>1
      <4>3. i + R \in 1..(2 * R) /\ ~(i + R <= R) /\ (i + R) - R = i BY <1>0, <4>1
      <4> QED BY <1>5, <4>2, <4>3
    <3>2. \A j \in 1..(2 * R) : T[j].valid => j - R \in 1..(2 * R) /\ T2[j - R].valid
      <4> SUFFICES ASSUME NEW j \in 1..(2 * R), T[j].valid
                   PROVE j - R \in 1..(2 * R) /\ T2[j - R].valid
        OBVIOUS
      <4>1. ~(j <= R)
        <5> SUFFICES ASSUME j <= R PROVE FALSE OBVIOUS
        <5>1. T[j] = B[j] /\ j \in 1..R BY <1>0, <1>5, <3>0
        <5> QED BY <1>2, <1>3, <5>1
      <4>2. T[j] = A[j - R] BY <1>5, <4>1
      <4>3. j - R \in 1..(2 * R) /\ j - R <= R BY <1>0, <4>1
      <4>4. T2[j - R] = A[j - R] BY <1>5, <3>0, <4>3
      <4> QED BY <4>2, <4>3, <4>4
    <3> QED BY <1>0, <3>1, <3>2 DEF ShiftsBy, R
  <2> QED BY <1>9, <1>10, <2>1, <2>2, <2>3
<1> QED BY <1>1, <1>4, <1>6, <1>7, <1>8, <1>9

-----------------------------------------------------------------------------
(* One clock edge moves the micro-ops in flight.                             *)

\* Completion changes nothing that renaming looks at.
LEMMA MayBeAlike ==
  ASSUME NEW u \in Uop, NEW v, MayBe(u, v)
  PROVE  Alike(v, u)
BY DEF MayBe, Alike, Uop

\* Before the movement: nothing where the retired group was, and the renamed
\* group behind the others.
Follows(g, C, R, z, ring, in, tmp, A) ==
  /\ g \in [1..(C + z + 3 * R) -> Uop]
  /\ \A k \in 1..C : ~g[k].valid
  /\ \A k \in 1..z : g[C + k] = ring[k]
  /\ \A i \in 1..R : g[C + z + i] = in[i]
  /\ \A i \in 1..(2 * R) : g[C + z + R + i] = Rear(tmp, A)[i]

LEMMA Before ==
  ASSUME NEW U, NEW z, NEW in, NEW tmp, Groups(U, z, in, tmp), NEW ring \in [1..z -> Uop],
         NEW s, Line(s, U, z, ring, in, tmp), NEW A \in [1..RENAME_WIDTH -> Uop],
         NEW C, C = COMMIT_WIDTH, NEW R, R = RENAME_WIDTH,
         NEW N, N = C + z + 2 * R, NEW g, g = Appended(Rest(s, N), N, A)
  PROVE  Follows(g, C, R, z, ring, in, tmp, A)
<1>0. C \in Nat /\ R \in Nat /\ z \in Nat /\ N \in Nat BY SizeAssumption DEF Groups
<1>1. /\ s \in [1..N -> Uop]
      /\ \A k \in 1..z : s[C + k] = ring[k]
      /\ \A i \in 1..R : s[C + z + i] = in[i]
      /\ \A i \in 1..R : s[C + z + R + i] = tmp[i]
  BY DEF Line
<1>2. \A k \in 1..(N + R) : g[k] = IF k <= N THEN Rest(s, N)[k] ELSE A[k - N] BY DEF Appended
<1>3. \A k \in 1..N : Rest(s, N)[k] = IF k <= C THEN NoUop ELSE s[k] BY DEF Rest
<1>4. \A k \in 1..N : k \in 1..(N + R) /\ k <= N BY <1>0
<1>5. \A k \in 1..N : k <= C => g[k] = NoUop BY <1>2, <1>3, <1>4
<1>6. \A k \in 1..N : ~(k <= C) => g[k] = s[k] BY <1>2, <1>3, <1>4
<1>7. \A k \in (N + 1)..(N + R) : g[k] = A[k - N] /\ k - N \in 1..R
  <2> TAKE k \in (N + 1)..(N + R)
  <2>1. k \in 1..(N + R) /\ ~(k <= N) /\ k - N \in 1..R BY <1>0
  <2> QED BY <1>2, <2>1
<1>8. g \in [1..(C + z + 3 * R) -> Uop]
  <2>1. \A k \in 1..(N + R) : g[k] \in Uop
    <3> TAKE k \in 1..(N + R)
    <3>1. k \in 1..N \/ k \in (N + 1)..(N + R) BY <1>0
    <3>2. CASE k \in 1..N BY <1>1, <1>5, <1>6, <3>2, NoUopFacts
    <3>3. CASE k \in (N + 1)..(N + R) BY <1>7, <3>3
    <3> QED BY <3>1, <3>2, <3>3
  <2>2. N + R = C + z + 3 * R BY <1>0
  <2>3. g \in [1..(N + R) -> Uop] BY <2>1 DEF Appended
  <2> QED BY <2>2, <2>3
<1>9. \A k \in 1..C : ~g[k].valid
  <2> TAKE k \in 1..C
  <2>1. k \in 1..N /\ k <= C BY <1>0
  <2> QED BY <1>5, <2>1, NoUopFacts
<1>10. \A k \in 1..z : g[C + k] = ring[k]
  <2> TAKE k \in 1..z
  <2>1. C + k \in 1..N /\ ~(C + k <= C) BY <1>0
  <2> QED BY <1>1, <1>6, <2>1
<1>11. \A i \in 1..R : g[C + z + i] = in[i]
  <2> TAKE i \in 1..R
  <2>1. C + z + i \in 1..N /\ ~(C + z + i <= C) BY <1>0
  <2> QED BY <1>1, <1>6, <2>1
<1>12. \A i \in 1..(2 * R) : g[C + z + R + i] = Rear(tmp, A)[i]
  <2> TAKE i \in 1..(2 * R)
  <2>1. Rear(tmp, A)[i] = IF i <= R THEN tmp[i] ELSE A[i - R] BY DEF Rear
  <2>2. CASE i <= R
    <3>1. i \in 1..R /\ C + z + R + i \in 1..N /\ ~(C + z + R + i <= C) BY <1>0, <2>2
    <3> QED BY <1>1, <1>6, <2>1, <2>2, <3>1
  <2>3. CASE ~(i <= R)
    <3>1. C + z + R + i \in (N + 1)..(N + R) /\ (C + z + R + i) - N = i - R BY <1>0, <2>3
    <3> QED BY <1>7, <2>1, <2>3, <3>1
  <2> QED BY <2>2, <2>3
<1> QED BY <1>8, <1>9, <1>10, <1>11, <1>12 DEF Follows

\* The part of a cycle that the movement depends on.
Edge(done, ops, n, retired, clear, left, A, full) ==
  /\ RingOK /\ SkidOK(dp) /\ uop_retire \in [1..COMMIT_WIDTH -> Uop]
  /\ done \in Completions /\ ops = Completed(done) /\ n = NumRetired(ops)
  /\ retired = cm_uop_retire(ops, n) /\ clear = cm_recover(retired)
  /\ left = size_left(n, clear)
  /\ RobNext(ops, dp.in, head_left(n, clear), left, Entering(dp.in, left, clear))
  /\ A \in [1..RENAME_WIDTH -> Uop] /\ (dp.stall_prev => BubbleGroup(A))
  /\ full \in BOOLEAN /\ dp' = SkidNext(dp, clear, full, A, Bubble)
  /\ uop_retire' = retired

EdgeFacts(ops, n, retired, clear) ==
  /\ clear \in BOOLEAN
  /\ ops \in [RobIndex -> Uop]
  /\ \A s \in RobIndex : ops[s].valid = op_list[s].valid /\ Alike(ops[s], op_list[s])
  /\ n \in 0..COMMIT_WIDTH /\ n <= rob_size
  /\ retired \in [1..COMMIT_WIDTH -> Uop] /\ Slots(retired, Valid) = 1..n
  /\ \A k \in 1..n : /\ retired[k] = ops[At(rob_head, k - 1)] /\ retired[k].complete
                     /\ retired[k].mispredict => k = n
  /\ clear <=> n > 0 /\ retired[n].mispredict
  /\ \A k \in 1..COMMIT_WIDTH : retired[k].valid <=> k <= n
  /\ dp.in \in [1..RENAME_WIDTH -> Uop] /\ dp.tmp \in [1..RENAME_WIDTH -> Uop]
  /\ dp'.in \in [1..RENAME_WIDTH -> Uop] /\ dp'.tmp \in [1..RENAME_WIDTH -> Uop]
  /\ SkidOK(dp)' /\ (dp'.stall_prev => ~clear)

\* The signals of a clock edge.
LEMMA Edges ==
  ASSUME NEW done, NEW ops, NEW n, NEW retired, NEW clear, NEW left, NEW A, NEW full,
         Edge(done, ops, n, retired, clear, left, A, full)
  PROVE  EdgeFacts(ops, n, retired, clear)
<1>1. /\ RingOK /\ SkidOK(dp) /\ done \in Completions /\ ops = Completed(done) /\ n = NumRetired(ops)
      /\ retired = cm_uop_retire(ops, n) /\ clear = cm_recover(retired)
      /\ A \in [1..RENAME_WIDTH -> Uop] /\ full \in BOOLEAN
      /\ dp' = SkidNext(dp, clear, full, A, Bubble)
  BY DEF Edge
<1>2. /\ ops \in [RobIndex -> Uop]
      /\ \A s \in RobIndex : ops[s].valid = op_list[s].valid /\ MayBe(op_list[s], ops[s])
  BY <1>1, CompletedFacts
<1>3. \A s \in RobIndex : Alike(ops[s], op_list[s])
  <2>1. \A s \in RobIndex : op_list[s] \in Uop BY <1>1 DEF RingOK
  <2> QED BY <1>2, <2>1, MayBeAlike
<1>4. /\ n \in 0..COMMIT_WIDTH /\ n <= rob_size
      /\ retired \in [1..COMMIT_WIDTH -> Uop] /\ Slots(retired, Valid) = 1..n
      /\ \A k \in 1..n : /\ retired[k] = ops[At(rob_head, k - 1)] /\ retired[k].complete
                         /\ retired[k].mispredict => k = n
      /\ clear <=> n > 0 /\ retired[n].mispredict
  BY <1>1, <1>2, RetiredFacts
<1>5. clear \in BOOLEAN BY <1>1 DEF cm_recover
<1>6. \A k \in 1..COMMIT_WIDTH : retired[k].valid <=> k <= n
  <2>1. COMMIT_WIDTH \in Nat BY SizeAssumption
  <2>2. Slots(retired, Valid) = {k \in 1..COMMIT_WIDTH : retired[k].valid} BY <1>4, <2>1, WritersOf
  <2>3. \A k \in 1..COMMIT_WIDTH : k \in 1..n <=> k <= n BY <1>4, <2>1
  <2> QED BY <1>4, <2>2, <2>3
<1>7. SkidOK(dp)' /\ (dp'.stall_prev => ~clear)
  <2>1. PICK t : t = dp' OBVIOUS
  <2>2. SkidOK(t) /\ (t.stall_prev => ~clear) BY <1>1, <1>5, <2>1, Skids
  <2> QED BY <2>1, <2>2 DEF SkidOK
<1>8. /\ dp.in \in [1..RENAME_WIDTH -> Uop] /\ dp.tmp \in [1..RENAME_WIDTH -> Uop]
      /\ dp'.in \in [1..RENAME_WIDTH -> Uop] /\ dp'.tmp \in [1..RENAME_WIDTH -> Uop]
  BY <1>1, <1>7 DEF SkidOK, Stage
<1> QED BY <1>2, <1>3, <1>4, <1>5, <1>6, <1>7, <1>8 DEF EdgeFacts

\* Which slot of a group enters the ring at which place.
Entrance(g, new, m, ent) ==
  /\ m \in Nat /\ ent \in [1..m -> 1..RENAME_WIDTH]
  /\ \A k \in 1..m : ent[k] \in new /\ RankBefore(g, ent[k]) = k - 1
  /\ \A j, k \in 1..m : j < k => ent[j] < ent[k]
  /\ \A i \in new : \E k \in 1..m : ent[k] = i

\* The valid micro-ops of a group enter in order, each once.
LEMMA Entrants ==
  ASSUME NEW g, NEW left, NEW new, NEW m, Places(g, left, new, m),
         NEW ent, ent = [k \in 1..m |-> CHOOSE i \in new : RankBefore(g, i) = k - 1]
  PROVE  Entrance(g, new, m, ent)
<1>1. /\ m \in 0..RENAME_WIDTH /\ new \subseteq 1..RENAME_WIDTH /\ RENAME_WIDTH \in Nat
      /\ \A i \in new : RankBefore(g, i) \in 0..(m - 1)
      /\ \A i, j \in new : i < j => RankBefore(g, i) < RankBefore(g, j)
      /\ \A r \in 0..(m - 1) : \E i \in new : RankBefore(g, i) = r
  BY SizeAssumption DEF Places
<1>2. \A k \in 1..m : ent[k] \in new /\ RankBefore(g, ent[k]) = k - 1
  <2> TAKE k \in 1..m
  <2>1. k - 1 \in 0..(m - 1) BY <1>1
  <2>2. \E i \in new : RankBefore(g, i) = k - 1 BY <1>1, <2>1
  <2> QED BY <2>2
<1>3. \A j, k \in 1..m : j < k => ent[j] < ent[k]
  <2> SUFFICES ASSUME NEW j \in 1..m, NEW k \in 1..m, j < k PROVE ent[j] < ent[k] OBVIOUS
  <2>1. ent[j] \in new /\ ent[k] \in new /\ RankBefore(g, ent[j]) = j - 1 /\ RankBefore(g, ent[k]) = k - 1
    BY <1>2
  <2>2. ent[j] \in 1..RENAME_WIDTH /\ ent[k] \in 1..RENAME_WIDTH BY <1>1, <2>1
  <2>3. ent[j] # ent[k] BY <1>1, <2>1
  <2>4. ~(ent[k] < ent[j])
    <3> SUFFICES ASSUME ent[k] < ent[j] PROVE FALSE OBVIOUS
    <3>1. k - 1 < j - 1 BY <1>1, <2>1
    <3> QED BY <1>1, <3>1
  <2>5. ent[j] \in Int /\ ent[k] \in Int BY <1>1, <2>2
  <2> QED BY ONLY <2>3, <2>4, <2>5
<1>4. \A i \in new : \E k \in 1..m : ent[k] = i
  <2> TAKE i \in new
  <2>1. PICK k : k = RankBefore(g, i) + 1 OBVIOUS
  <2>2. RankBefore(g, i) \in 0..(m - 1) BY <1>1
  <2>3. k \in 1..m /\ k - 1 = RankBefore(g, i) BY <1>1, <2>1, <2>2
  <2>4. ent[k] \in new /\ RankBefore(g, ent[k]) = RankBefore(g, i) BY <1>2, <2>3
  <2>5. ent[k] \in 1..RENAME_WIDTH /\ i \in 1..RENAME_WIDTH BY <1>1, <2>4
  <2>6. ~(ent[k] < i) /\ ~(i < ent[k])
    <3>1. RankBefore(g, i) \in Int BY <1>1, <2>2
    <3>2. ent[k] < i => RankBefore(g, ent[k]) < RankBefore(g, i) BY <1>1, <2>4
    <3>3. i < ent[k] => RankBefore(g, i) < RankBefore(g, ent[k]) BY <1>1, <2>4
    <3> QED BY ONLY <2>4, <3>1, <3>2, <3>3
  <2>7. ent[k] \in Int /\ i \in Int BY <1>1, <2>5
  <2>8. ent[k] = i BY ONLY <2>6, <2>7
  <2> QED BY <2>3, <2>8
<1>5. \A k \in 1..m : ent[k] \in 1..RENAME_WIDTH BY <1>1, <1>2
<1> QED BY <1>1, <1>2, <1>3, <1>4, <1>5 DEF Entrance

RingPart == [k \in 1..rob_size |-> op_list[At(rob_head, k - 1)]]

\* Without a recovery, all micro-ops move and keep their order.
LEMMA Moves ==
  ASSUME NEW done, NEW ops, NEW n, NEW retired, NEW clear, NEW left, NEW A, NEW full,
         Edge(done, ops, n, retired, clear, left, A, full), ~clear,
         Entering(dp.in, left, clear) = Slots(dp.in, Valid),
         NEW N, N = COMMIT_WIDTH + rob_size + 2 * RENAME_WIDTH,
         NEW g, g = Appended(Rest(InFlight, N), N, A),
         NEW M, M = COMMIT_WIDTH + rob_size' + 2 * RENAME_WIDTH
  PROVE  RingOK' /\ \E place : Moved(g, N + RENAME_WIDTH, InFlight', M, N + RENAME_WIDTH, place)
<1> DEFINE C == COMMIT_WIDTH
           R == RENAME_WIDTH
           z == rob_size
           z2 == rob_size'
<1>0. C \in Nat /\ R \in Nat /\ R > 0 /\ ROB_SIZE \in Nat BY SizeAssumption, RobSizeAssumption
<1>1. /\ RingOK /\ SkidOK(dp) /\ uop_retire \in [1..C -> Uop]
      /\ RobNext(ops, dp.in, head_left(n, clear), left, Entering(dp.in, left, clear))
      /\ left = size_left(n, clear)
      /\ A \in [1..R -> Uop] /\ (dp.stall_prev => BubbleGroup(A))
      /\ full \in BOOLEAN /\ dp' = SkidNext(dp, clear, full, A, Bubble) /\ uop_retire' = retired
  BY DEF Edge
<1>2. EdgeFacts(ops, n, retired, clear) BY Edges
<1>3. /\ clear \in BOOLEAN /\ ops \in [RobIndex -> Uop]
      /\ \A s \in RobIndex : ops[s].valid = op_list[s].valid /\ Alike(ops[s], op_list[s])
      /\ n \in 0..C /\ n <= z /\ retired \in [1..C -> Uop]
      /\ \A k \in 1..n : retired[k] = ops[At(rob_head, k - 1)]
      /\ \A k \in 1..C : retired[k].valid <=> k <= n
      /\ dp.in \in [1..R -> Uop] /\ dp.tmp \in [1..R -> Uop]
      /\ dp'.in \in [1..R -> Uop] /\ dp'.tmp \in [1..R -> Uop]
  BY <1>2 DEF EdgeFacts
<1>4. z \in 0..ROB_SIZE /\ rob_head \in RobIndex /\ op_list \in [RobIndex -> Uop] /\ z \in Nat
  BY <1>0, <1>1 DEF RingOK
<1>5. left = z - n /\ left \in 0..ROB_SIZE /\ left \in Nat /\ n + left = z
  BY <1>0, <1>1, <1>3, <1>4 DEF size_left
<1>no. clear = FALSE BY <1>3
<1>6. PICK new : new = Entering(dp.in, left, FALSE) OBVIOUS
<1>7. new = Fitting(dp.in, left) /\ new = Slots(dp.in, Valid) BY <1>no, <1>6 DEF Fitting
<1>8. PICK m : m = Cardinality(new) OBVIOUS
<1>9. RobNext(ops, dp.in, At(rob_head, n), left, new) BY <1>no, <1>1, <1>6 DEF head_left
<1>10. Advancing(ops, dp.in, n, left, new, m)
  <2>1. \A s \in RobIndex : ops[s].valid = op_list[s].valid BY <1>3
  <2> QED BY <1>1, <1>3, <1>5, <1>7, <1>8, <1>9, <2>1, RingAdvanced
<1>11. /\ RingOK' /\ z2 = left + m /\ Places(dp.in, left, new, m)
       /\ \A k \in 0..(left - 1) : op_list'[At(rob_head', k)] = ops[At(rob_head, n + k)]
       /\ \A i \in new : op_list'[At(rob_head', left + RankBefore(dp.in, i))] = dp.in[i]
  BY <1>10 DEF Advancing
<1>12. PICK ent : ent = [k \in 1..m |-> CHOOSE i \in new : RankBefore(dp.in, i) = k - 1] OBVIOUS
<1>13. /\ m \in Nat /\ ent \in [1..m -> 1..R]
       /\ \A k \in 1..m : ent[k] \in new /\ RankBefore(dp.in, ent[k]) = k - 1
       /\ \A j, k \in 1..m : j < k => ent[j] < ent[k]
       /\ \A i \in new : \E k \in 1..m : ent[k] = i
  <2>1. Entrance(dp.in, new, m, ent) BY <1>11, <1>12, Entrants
  <2> QED BY <2>1 DEF Entrance
\* The places before.
<1>14. PICK ring : ring = RingPart OBVIOUS
<1>15. ring \in [1..z -> Uop] /\ \A k \in 1..z : ring[k] = op_list[At(rob_head, k - 1)] /\ At(rob_head, k - 1) \in RobIndex
  <2>1. \A k \in 1..z : At(rob_head, k - 1) \in RobIndex BY <1>4, SlotsOf
  <2> QED BY <1>4, <1>14, <2>1 DEF RingPart
<1>16. /\ g \in [1..(C + z + 3 * R) -> Uop]
       /\ \A k \in 1..C : ~g[k].valid
       /\ \A k \in 1..z : g[C + k] = ring[k]
       /\ \A i \in 1..R : g[C + z + i] = dp.in[i]
       /\ \A i \in 1..(2 * R) : g[C + z + R + i] = Rear(dp.tmp, A)[i]
  <2>1. InFlight = uop_retire \o ring \o dp.in \o dp.tmp BY <1>14 DEF InFlight, RingPart
  <2>2. Groups(uop_retire, z, dp.in, dp.tmp) BY <1>1, <1>3, <1>4 DEF Groups
  <2>3. Line(InFlight, uop_retire, z, ring, dp.in, dp.tmp) BY <1>15, <2>1, <2>2, Lines
  <2>4. PICK C0 : C0 = COMMIT_WIDTH OBVIOUS
  <2>5. PICK R0 : R0 = RENAME_WIDTH OBVIOUS
  <2>6. Follows(g, C0, R0, z, ring, dp.in, dp.tmp, A)
    <3>1. N = C0 + z + 2 * R0 BY <2>4, <2>5
    <3>2. A \in [1..RENAME_WIDTH -> Uop] BY <1>1
    <3> QED BY ONLY <1>15, <2>2, <2>3, <2>4, <2>5, <3>1, <3>2, Before, g = Appended(Rest(InFlight, N), N, A)
  <2> QED BY <2>4, <2>5, <2>6 DEF Follows
\* The places after.
<1>17. PICK h : h = InFlight' OBVIOUS
<1>18. PICK ring2 : ring2 = RingPart' OBVIOUS
<1>19. ring2 \in [1..z2 -> Uop] /\ z2 \in Nat
       /\ \A k \in 1..z2 : ring2[k] = op_list'[At(rob_head', k - 1)] /\ At(rob_head', k - 1) \in RobIndex
  <2>1. z2 \in 0..ROB_SIZE /\ rob_head' \in RobIndex /\ op_list' \in [RobIndex -> Uop] BY <1>11 DEF RingOK
  <2>2. z2 \in Nat /\ \A k \in 1..z2 : At(rob_head', k - 1) \in RobIndex BY <2>1, SlotsOf
  <2>3. ring2 = [k \in 1..z2 |-> op_list'[At(rob_head', k - 1)]] BY <1>18 DEF RingPart
  <2> QED BY <2>1, <2>2, <2>3
<1>20. /\ h \in [1..M -> Uop]
       /\ \A k \in 1..C : h[k] = retired[k]
       /\ \A k \in 1..z2 : h[C + k] = ring2[k]
       /\ \A i \in 1..R : h[C + z2 + i] = dp'.in[i]
       /\ \A i \in 1..R : h[C + z2 + R + i] = dp'.tmp[i]
  <2>1. h = retired \o ring2 \o dp'.in \o dp'.tmp
    <3>1. InFlight' = uop_retire' \o RingPart' \o dp'.in \o dp'.tmp BY DEF InFlight, RingPart
    <3> QED BY <1>1, <1>17, <1>18, <3>1
  <2>2. Groups(retired, z2, dp'.in, dp'.tmp) BY <1>3, <1>19 DEF Groups
  <2>3. Line(h, retired, z2, ring2, dp'.in, dp'.tmp) BY <1>19, <2>1, <2>2, Lines
  <2> QED BY <2>3 DEF Line
<1>21. PICK shift : ShiftsBy(Rear(dp.tmp, A), Rear(dp'.in, dp'.tmp), shift)
  <2>1. PICK t : t = dp' OBVIOUS
  <2>2. t = SkidNext(dp, clear, full, A, Bubble) BY <1>1, <2>1
  <2>3. \E shift : ShiftsBy(Rear(dp.tmp, A), Rear(t.in, t.tmp), shift)
    BY <1>1, <1>3, <2>2, Skids
  <2> QED BY <2>1, <2>3
<1>22. PICK T : T = Rear(dp.tmp, A) OBVIOUS
<1>23. PICK T2 : T2 = Rear(dp'.in, dp'.tmp) OBVIOUS
<1>24. /\ shift \in {-R, 0, R}
       /\ \A i \in 1..(2 * R) : T2[i].valid => i + shift \in 1..(2 * R) /\ T2[i] = T[i + shift]
       /\ \A j \in 1..(2 * R) : T[j].valid => j - shift \in 1..(2 * R) /\ T2[j - shift].valid
  BY <1>21, <1>22, <1>23 DEF ShiftsBy
<1>25. \A i \in 1..(2 * R) : h[C + left + m + i] = T2[i]
  <2> TAKE i \in 1..(2 * R)
  <2>1. T2[i] = IF i <= R THEN dp'.in[i] ELSE dp'.tmp[i - R] BY <1>23 DEF Rear
  <2>2. C + left + m = C + z2 BY <1>0, <1>5, <1>11, <1>13
  <2>3. CASE i <= R
    <3>1. i \in 1..R BY <1>0, <2>3
    <3> QED BY <1>20, <2>1, <2>2, <2>3, <3>1
  <2>4. CASE ~(i <= R)
    <3>1. i - R \in 1..R /\ C + z2 + R + (i - R) = C + z2 + i BY <1>0, <1>19, <2>4
    <3>2. h[C + z2 + R + (i - R)] = dp'.tmp[i - R] BY <1>20, <3>1
    <3> QED BY <2>1, <2>2, <2>4, <3>1, <3>2
  <2> QED BY <2>3, <2>4
<1>26. \A k \in 1..z : At(rob_head, k - 1) \in RobIndex /\ Alike(ops[At(rob_head, k - 1)], g[C + k])
  BY <1>3, <1>15, <1>16
<1>27. \A k \in 1..n : Alike(h[k], g[C + k])
  <2> TAKE k \in 1..n
  <2>1. k \in 1..C /\ k \in 1..z BY <1>0, <1>3, <1>4
  <2>2. h[k] = ops[At(rob_head, k - 1)] BY <1>3, <1>20, <2>1
  <2> QED BY <1>26, <2>1, <2>2
<1>28. \A k \in 1..left : Alike(h[C + k], g[C + n + k])
  <2> TAKE k \in 1..left
  <2>1. k \in 1..z2 /\ k - 1 \in 0..(left - 1) /\ n + k \in 1..z /\ n + (k - 1) = (n + k) - 1 /\ C + (n + k) = C + n + k
    BY <1>0, <1>3, <1>4, <1>5, <1>11, <1>13
  <2>2. h[C + k] = op_list'[At(rob_head', k - 1)] BY <1>19, <1>20, <2>1
  <2>3. op_list'[At(rob_head', k - 1)] = ops[At(rob_head, n + (k - 1))] BY <1>11, <2>1
  <2>4. Alike(ops[At(rob_head, (n + k) - 1)], g[C + (n + k)]) BY <1>26, <2>1
  <2> QED BY <2>1, <2>2, <2>3, <2>4
<1>29. \A k \in 1..m : Alike(h[C + left + k], g[C + z + ent[k]])
  <2> TAKE k \in 1..m
  <2>1. ent[k] \in new /\ RankBefore(dp.in, ent[k]) = k - 1 /\ ent[k] \in 1..R BY <1>13
  <2>2. op_list'[At(rob_head', left + (k - 1))] = dp.in[ent[k]] BY <1>11, <2>1
  <2>3. left + k \in 1..z2 /\ (left + k) - 1 = left + (k - 1) /\ C + (left + k) = C + left + k
    <3>0. left \in Nat /\ m \in Nat /\ C \in Nat /\ k \in 1..m BY <1>0, <1>5, <1>13
    <3>1. left + k \in 1..(left + m) BY ONLY <3>0
    <3>2. (left + k) - 1 = left + (k - 1) /\ C + (left + k) = C + left + k BY ONLY <3>0
    <3> QED BY <1>11, <3>1, <3>2
  <2>4. h[C + (left + k)] = op_list'[At(rob_head', (left + k) - 1)] BY <1>19, <1>20, <2>3
  <2>5. h[C + left + k] = dp.in[ent[k]] BY <2>2, <2>3, <2>4
  <2>6. g[C + z + ent[k]] = dp.in[ent[k]] BY <1>16, <2>1
  <2> QED BY <2>5, <2>6 DEF Alike
<1>30. \A i \in 1..R : g[C + z + i].valid => \E k \in 1..m : ent[k] = i
  <2> SUFFICES ASSUME NEW i \in 1..R, g[C + z + i].valid PROVE \E k \in 1..m : ent[k] = i OBVIOUS
  <2>1. dp.in[i].valid BY <1>16
  <2>2. Slots(dp.in, Valid) = {k \in 1..R : dp.in[k].valid} BY <1>0, <1>3, WritersOf
  <2>3. i \in new BY <1>7, <2>1, <2>2
  <2> QED BY <1>13, <2>3
<1>31. \A i \in 1..(2 * R) : h[C + left + m + i].valid =>
         i + shift \in 1..(2 * R) /\ Alike(h[C + left + m + i], g[C + z + R + (i + shift)])
  <2> SUFFICES ASSUME NEW i \in 1..(2 * R), h[C + left + m + i].valid
               PROVE i + shift \in 1..(2 * R) /\ Alike(h[C + left + m + i], g[C + z + R + (i + shift)])
    OBVIOUS
  <2>1. T2[i].valid /\ h[C + left + m + i] = T2[i] BY <1>25
  <2>2. i + shift \in 1..(2 * R) /\ T2[i] = T[i + shift] BY <1>24, <2>1
  <2>3. g[C + z + R + (i + shift)] = T[i + shift] BY <1>16, <1>22, <2>2
  <2> QED BY <2>1, <2>2, <2>3 DEF Alike
<1>32. \A j \in 1..(2 * R) : g[C + z + R + j].valid =>
         j - shift \in 1..(2 * R) /\ h[C + left + m + (j - shift)].valid
  <2> SUFFICES ASSUME NEW j \in 1..(2 * R), g[C + z + R + j].valid
               PROVE j - shift \in 1..(2 * R) /\ h[C + left + m + (j - shift)].valid
    OBVIOUS
  <2>1. T[j].valid BY <1>16, <1>22
  <2>2. j - shift \in 1..(2 * R) /\ T2[j - shift].valid BY <1>24, <2>1
  <2> QED BY <1>25, <2>2
<1>33. h \in [1..(C + left + m + 2 * R) -> Uop] /\ M = C + left + m + 2 * R
  <2>1. M = C + (left + m) + 2 * R BY <1>11
  <2>2. C + (left + m) + 2 * R = C + left + m + 2 * R BY <1>0, <1>5, <1>13
  <2> QED BY <1>20, <2>1, <2>2
<1>34. \A k \in 1..C : ~g[k].valid /\ (h[k].valid => k <= n)
  BY <1>3, <1>16, <1>20
<1>35. C \in Nat /\ R \in Nat /\ z \in Nat /\ n \in 0..C /\ left \in Nat /\ n + left = z
  BY <1>0, <1>3, <1>4, <1>5
<1> HIDE DEF C, R, z, z2
<1>36. Shifting(C, R, z, n, left, m, ent, shift, g, h)
  BY <1>13, <1>16, <1>24, <1>27, <1>28, <1>29, <1>30, <1>31, <1>32, <1>33, <1>34, <1>35
  DEF Shifting
<1>37. PICK N2 : N2 = C + z + 3 * R OBVIOUS
<1>38. N2 = N + R BY <1>0, <1>4, <1>37 DEF C, R, z
<1>39. PICK place : place = Place(C, R, z, n, left, m, ent, shift) OBVIOUS
<1>40. Moved(g, N2, h, M, N2, place) BY <1>33, <1>36, <1>37, <1>39, Shifts
<1> QED BY <1>11, <1>17, <1>38, <1>40 DEF R

\* A mispredicted branch retires: nothing younger stays.
LEMMA Recovers ==
  ASSUME NEW done, NEW ops, NEW n, NEW retired, NEW clear, NEW left, NEW A, NEW full,
         Edge(done, ops, n, retired, clear, left, A, full), clear,
         NEW N, N = COMMIT_WIDTH + rob_size + 2 * RENAME_WIDTH,
         NEW g, g = Appended(Rest(InFlight, N), N, A),
         NEW M, M = COMMIT_WIDTH + rob_size' + 2 * RENAME_WIDTH
  PROVE  /\ RingOK' /\ rob_size' = 0 /\ rob_head' = 0 /\ dp' = SkidReset(Bubble)
         /\ \E lim, place : Moved(g, N + RENAME_WIDTH, InFlight', M, lim, place)
<1>0. PICK C : C = COMMIT_WIDTH OBVIOUS
<1>1. PICK R : R = RENAME_WIDTH OBVIOUS
<1>2. PICK z : z = rob_size OBVIOUS
<1>3. C \in Nat /\ R \in Nat /\ R > 0 /\ ROB_SIZE \in Nat
  BY <1>0, <1>1, SizeAssumption, RobSizeAssumption
<1>4. EdgeFacts(ops, n, retired, clear) BY Edges
<1>5. /\ clear \in BOOLEAN /\ ops \in [RobIndex -> Uop]
      /\ \A s \in RobIndex : ops[s].valid = op_list[s].valid /\ Alike(ops[s], op_list[s])
      /\ n \in 0..C /\ n <= z /\ retired \in [1..C -> Uop]
      /\ \A k \in 1..n : retired[k] = ops[At(rob_head, k - 1)]
      /\ \A k \in 1..C : retired[k].valid <=> k <= n
      /\ dp.in \in [1..R -> Uop] /\ dp.tmp \in [1..R -> Uop]
  BY <1>0, <1>1, <1>2, <1>4 DEF EdgeFacts
<1>6. /\ RingOK /\ SkidOK(dp) /\ uop_retire \in [1..C -> Uop]
      /\ RobNext(ops, dp.in, head_left(n, clear), left, Entering(dp.in, left, clear))
      /\ left = size_left(n, clear)
      /\ A \in [1..RENAME_WIDTH -> Uop] /\ dp' = SkidNext(dp, clear, full, A, Bubble) /\ uop_retire' = retired
  BY <1>0 DEF Edge
<1>7. RobNext(ops, dp.in, 0, 0, {})
  <2>1. left = 0 /\ head_left(n, clear) = 0 BY <1>6 DEF size_left, head_left
  <2>2. Entering(dp.in, left, clear) = {} BY DEF Entering
  <2> QED BY <1>6, <2>1, <2>2
<1>8. RingOK' /\ rob_size' = 0 /\ rob_head' = 0 BY <1>7, RingRecovered
<1>9. dp' = SkidReset(Bubble) BY <1>6 DEF SkidNext
<1>10. z \in 0..ROB_SIZE /\ rob_head \in RobIndex /\ op_list \in [RobIndex -> Uop] /\ z \in Nat
  BY <1>2, <1>3, <1>6 DEF RingOK
<1>11. PICK ring : ring = RingPart OBVIOUS
<1>12. ring \in [1..z -> Uop] /\ \A k \in 1..z : ring[k] = op_list[At(rob_head, k - 1)] /\ At(rob_head, k - 1) \in RobIndex
  <2>1. \A k \in 1..z : At(rob_head, k - 1) \in RobIndex BY <1>10, SlotsOf
  <2> QED BY <1>2, <1>10, <1>11, <2>1 DEF RingPart
<1>13. Follows(g, C, R, z, ring, dp.in, dp.tmp, A)
  <2>1. InFlight = uop_retire \o ring \o dp.in \o dp.tmp BY <1>11 DEF InFlight, RingPart
  <2>2. Groups(uop_retire, z, dp.in, dp.tmp) BY <1>0, <1>1, <1>5, <1>6, <1>10 DEF Groups
  <2>3. Line(InFlight, uop_retire, z, ring, dp.in, dp.tmp) BY <1>12, <2>1, <2>2, Lines
  <2>4. N = C + z + 2 * R BY <1>0, <1>1, <1>2
  <2>5. A \in [1..RENAME_WIDTH -> Uop] BY <1>6
  <2> QED BY ONLY <1>0, <1>1, <1>12, <2>2, <2>3, <2>4, <2>5, Before, g = Appended(Rest(InFlight, N), N, A)
<1>14. /\ g \in [1..(C + z + 3 * R) -> Uop]
       /\ \A k \in 1..C : ~g[k].valid
       /\ \A k \in 1..z : g[C + k] = ring[k]
  BY <1>13 DEF Follows
\* The places after: the retired group, and bubbles.
<1>15. PICK h : h = InFlight' OBVIOUS
<1>16. PICK ring2 : ring2 = RingPart' OBVIOUS
<1>17. ring2 \in [1..0 -> Uop]
  <2>1. ring2 = [k \in 1..0 |-> op_list'[At(rob_head', k - 1)]] BY <1>8, <1>16 DEF RingPart
  <2>2. \A k \in 1..0 : op_list'[At(rob_head', k - 1)] \in Uop OBVIOUS
  <2> QED BY <2>1, <2>2
<1>18. dp'.in = Bubble /\ dp'.tmp = Bubble BY <1>9 DEF SkidReset
<1>19. M = C + 2 * R /\ M \in Nat BY <1>0, <1>1, <1>3, <1>8
<1>20. /\ h \in [1..M -> Uop]
       /\ \A k \in 1..C : h[k] = retired[k]
       /\ \A k \in 1..M : k > C => ~h[k].valid
  <2>1. h = retired \o ring2 \o Bubble \o Bubble
    <3>1. InFlight' = uop_retire' \o RingPart' \o dp'.in \o dp'.tmp BY DEF InFlight, RingPart
    <3> QED BY <1>6, <1>15, <1>16, <1>18, <3>1
  <2>2. Groups(retired, 0, Bubble, Bubble) BY <1>0, <1>5, BubbleFacts DEF Groups
  <2>3. Line(h, retired, 0, ring2, Bubble, Bubble) BY <1>17, <2>1, <2>2, Lines
  <2>4. /\ h \in [1..(C + 0 + 2 * R) -> Uop]
        /\ \A k \in 1..C : h[k] = retired[k]
        /\ \A i \in 1..R : h[C + 0 + i] = Bubble[i]
        /\ \A i \in 1..R : h[C + 0 + R + i] = Bubble[i]
    BY <1>0, <1>1, <2>3 DEF Line
  <2>5. C + 0 + 2 * R = M BY <1>3, <1>19
  <2>6. \A k \in 1..M : k > C => ~h[k].valid
    <3> SUFFICES ASSUME NEW k \in 1..M, k > C PROVE ~h[k].valid OBVIOUS
    <3>1. (k - C \in 1..R /\ C + 0 + (k - C) = k) \/ (k - C - R \in 1..R /\ C + 0 + R + (k - C - R) = k)
      BY <1>3, <1>19
    <3>2. CASE k - C \in 1..R /\ C + 0 + (k - C) = k
      <4>1. h[k] = Bubble[k - C] BY <2>4, <3>2
      <4> QED BY <1>1, <3>2, <4>1, BubbleFacts
    <3>3. CASE k - C - R \in 1..R /\ C + 0 + R + (k - C - R) = k
      <4>1. h[k] = Bubble[k - C - R] BY <2>4, <3>3
      <4> QED BY <1>1, <3>3, <4>1, BubbleFacts
    <3> QED BY <3>1, <3>2, <3>3
  <2> QED BY <2>4, <2>5, <2>6
<1>21. PICK N2 : N2 = C + z + 3 * R OBVIOUS
<1>22. N2 = N + RENAME_WIDTH /\ N2 \in Nat BY <1>0, <1>1, <1>2, <1>3, <1>10, <1>21
<1>23. PICK lim : lim = C + n OBVIOUS
<1>24. PICK place : place = [k \in 1..M |-> C + k] OBVIOUS
<1>25. lim \in 0..N2 BY <1>3, <1>5, <1>10, <1>21, <1>23
<1>26. \A k \in 1..M : h[k].valid => k \in 1..n /\ k \in 1..C /\ k \in 1..z
  <2> SUFFICES ASSUME NEW k \in 1..M, h[k].valid PROVE k \in 1..n /\ k \in 1..C /\ k \in 1..z OBVIOUS
  <2>1. ~(k > C) BY <1>20
  <2>2. k \in 1..C BY <1>3, <1>19, <2>1
  <2>3. k <= n BY <1>5, <1>20, <2>2
  <2> QED BY <1>5, <1>10, <2>2, <2>3
<1>27. \A k \in 1..M : h[k].valid =>
         place[k] \in 1..N2 /\ place[k] <= lim /\ Alike(h[k], g[place[k]])
  <2> SUFFICES ASSUME NEW k \in 1..M, h[k].valid
               PROVE place[k] \in 1..N2 /\ place[k] <= lim /\ Alike(h[k], g[place[k]])
    OBVIOUS
  <2>1. k \in 1..n /\ k \in 1..C /\ k \in 1..z BY <1>26
  <2>2. place[k] = C + k /\ C + k \in 1..N2 /\ C + k <= lim
    BY <1>3, <1>5, <1>10, <1>21, <1>23, <1>24, <2>1
  <2>3. h[k] = ops[At(rob_head, k - 1)] BY <1>5, <1>20, <2>1
  <2>4. g[C + k] = op_list[At(rob_head, k - 1)] /\ At(rob_head, k - 1) \in RobIndex BY <1>12, <1>14, <2>1
  <2> QED BY <1>5, <2>2, <2>3, <2>4
<1>28. \A j, k \in 1..M : h[j].valid /\ h[k].valid /\ j < k => place[j] < place[k]
  BY <1>3, <1>19, <1>24
<1>29. \A p \in 1..N2 : g[p].valid /\ p <= lim => \E k \in 1..M : h[k].valid /\ place[k] = p
  <2> SUFFICES ASSUME NEW p \in 1..N2, g[p].valid, p <= lim
               PROVE \E k \in 1..M : h[k].valid /\ place[k] = p
    OBVIOUS
  <2>1. ~(p \in 1..C) BY <1>14
  <2>2. p - C \in 1..n /\ p - C \in 1..C /\ p - C \in 1..M /\ C + (p - C) = p
    BY <1>3, <1>5, <1>19, <1>21, <1>22, <1>23, <2>1
  <2>3. h[p - C].valid BY <1>5, <1>20, <2>2
  <2> QED BY <1>24, <2>2, <2>3
<1>30. g \in [1..N2 -> Uop] BY <1>14, <1>21
<1>31. Moved(g, N2, h, M, lim, place)
  BY <1>19, <1>20, <1>22, <1>25, <1>27, <1>28, <1>29, <1>30 DEF Moved
<1> QED BY <1>8, <1>9, <1>15, <1>22, <1>31

-----------------------------------------------------------------------------
(* The invariant.                                                            *)

Length == COMMIT_WIDTH + rob_size + 2 * RENAME_WIDTH

Typed ==
  /\ RingOK /\ SkidOK(dp) /\ uop_retire \in [1..COMMIT_WIDTH -> Uop]
  /\ mp_tb \in [Arf -> Prf] /\ r_rat \in [Arf -> Prf]
  /\ recover \in BOOLEAN /\ rr_full_prev \in BOOLEAN /\ rob_lost \in BOOLEAN
  /\ dp.stall_prev => rr_full_prev
  /\ NothingPastMispredict

Counted ==
  ~rob_lost =>
    /\ CommitOK(InFlight, r_rat, arf_recover, prf_recover, prf_recover_num)
    /\ ~recover => SpecOK(InFlight, Length, r_rat, arf_recover, mp_tb, arf_valid, free_list, free_num)

IInv == Typed /\ Counted

\* The signals of a cycle.
Cycle(done, ops, n, retired, clear, left, group, out, A, full) ==
  /\ Edge(done, ops, n, retired, clear, left, A, full)
  /\ group \in [1..RENAME_WIDTH -> Uop] /\ out = prf_out(uop_retire, Slots(group, Writes))
  /\ RatNext(recover, uop_retire, group, out)
  /\ A = rr_uops_out(recover, uop_retire, group, out)
  /\ recover' = clear
  /\ rr_full_prev' \in BOOLEAN /\ (~clear /\ full => rr_full_prev')
  /\ rob_lost' = (rob_lost \/ (~clear /\ Entering(dp.in, left, clear) # Slots(dp.in, Valid)))

\* A renamed bubble is a bubble.
LEMMA RenamedBubble ==
  ASSUME NEW U, NEW group \in [1..RENAME_WIDTH -> Uop], mp_tb \in [Arf -> Prf],
         NEW out, out = prf_out(U, Slots(group, Writes)),
         NEW A, A = rr_uops_out(recover, U, group, out)
  PROVE  /\ A \in [1..RENAME_WIDTH -> Uop] /\ out \in [1..RENAME_WIDTH -> Prf]
         /\ group = Bubble => BubbleGroup(A)
<1>1. out \in [1..RENAME_WIDTH -> Prf] BY OutFacts
<1>2. A = Bubble \/ A = Rename(group, out) BY DEF rr_uops_out
<1>3. CASE A = Bubble BY <1>1, <1>3, BubbleFacts DEF BubbleGroup
<1>4. CASE A = Rename(group, out)
  <2>1. Renaming(A, group, out) BY <1>1, <1>4, RenameFields
  <2>2. A \in [1..RENAME_WIDTH -> Uop] /\ \A i \in 1..RENAME_WIDTH : A[i].valid = group[i].valid
    BY <2>1 DEF Renaming, SlotRenamed
  <2> QED BY <1>1, <2>2, BubbleFacts DEF BubbleGroup
<1> QED BY <1>2, <1>3, <1>4

\* Every step of the specification is a cycle.
LEMMA Cycles ==
  ASSUME Typed, NEW done \in Completions, NEW group \in RrInput, NEW iq_full \in BOOLEAN,
         Completing(done, group, iq_full)
  PROVE  \E ops, n, retired, clear, left, out, A, full :
           Cycle(done, ops, n, retired, clear, left, group, out, A, full)
<1>1. PICK ops : ops = Completed(done) OBVIOUS
<1>2. PICK n : n = NumRetired(ops) OBVIOUS
<1>3. PICK retired : retired = cm_uop_retire(ops, n) OBVIOUS
<1>4. PICK clear : clear = cm_recover(retired) OBVIOUS
<1>5. PICK left : left = size_left(n, clear) OBVIOUS
<1>6. PICK full : full = (iq_full \/ ~cm_allocatable(dp.in, left, clear)) OBVIOUS
<1>7. PICK out : out = prf_out(uop_retire, Slots(group, Writes)) OBVIOUS
<1>8. PICK A : A = rr_uops_out(recover, uop_retire, group, out) OBVIOUS
<1>9. /\ RingOK /\ SkidOK(dp) /\ uop_retire \in [1..COMMIT_WIDTH -> Uop] /\ mp_tb \in [Arf -> Prf]
      /\ dp.stall_prev => rr_full_prev
  BY DEF Typed
<1>10. Cardinality(Slots(retired, Valid)) = n
  <2>1. /\ ops \in [RobIndex -> Uop]
        /\ \A s \in RobIndex : ops[s].valid = op_list[s].valid /\ MayBe(op_list[s], ops[s])
    BY <1>1, <1>9, CompletedFacts
  <2>2. n \in 0..COMMIT_WIDTH /\ Slots(retired, Valid) = 1..n BY <1>2, <1>3, <1>9, <2>1, RetiredFacts
  <2>3. n \in Nat BY <2>2
  <2>4. Cardinality(1..n) = IF 1 > n THEN 0 ELSE n - 1 + 1 BY <2>3, FS_Interval
  <2> QED BY <2>2, <2>3, <2>4
<1>11. /\ RatNext(recover, uop_retire, group, out)
       /\ RobNext(ops, dp.in, head_left(n, clear), left, Entering(dp.in, left, clear))
       /\ dp' = SkidNext(dp, clear, full, A, Bubble)
       /\ rr_full_prev' = (~clear /\ (full \/ ~rr_allocatable(uop_retire, group)))
       /\ recover' = clear
       /\ uop_retire' = retired
       /\ rob_lost' = (rob_lost \/ (~clear /\ Entering(dp.in, left, clear) # Slots(dp.in, Valid)))
  <2>1. Clock(ops, retired, group, iq_full) BY <1>1, <1>2, <1>3 DEF Completing
  <2> QED BY <1>4, <1>5, <1>6, <1>7, <1>8, <1>10, <2>1 DEF Clock
<1>12. group \in [1..RENAME_WIDTH -> Uop] /\ (dp.stall_prev => group = Bubble)
  BY <1>9, BubbleFacts, DecodedAssumption DEF RrInput
<1>13. A \in [1..RENAME_WIDTH -> Uop] /\ (dp.stall_prev => BubbleGroup(A))
  BY <1>7, <1>8, <1>9, <1>12, RenamedBubble
<1>14. full \in BOOLEAN BY <1>6
<1>15. Edge(done, ops, n, retired, clear, left, A, full)
  BY <1>1, <1>2, <1>3, <1>4, <1>5, <1>9, <1>11, <1>13, <1>14 DEF Edge
<1>16. rr_full_prev' \in BOOLEAN /\ (~clear /\ full => rr_full_prev') BY <1>11
<1> QED BY <1>7, <1>8, <1>11, <1>12, <1>15, <1>16 DEF Cycle

\* Both maps go on naming physical registers.
LEMMA MapTypes ==
  ASSUME mp_tb \in [Arf -> Prf], r_rat \in [Arf -> Prf], NEW U \in [1..COMMIT_WIDTH -> Uop],
         NEW group \in [1..RENAME_WIDTH -> Uop], NEW out \in [1..RENAME_WIDTH -> Prf],
         RatNext(recover, U, group, out)
  PROVE  mp_tb' \in [Arf -> Prf] /\ r_rat' \in [Arf -> Prf]
<1>0. RENAME_WIDTH \in Nat /\ COMMIT_WIDTH \in Nat BY SizeAssumption
<1>1. r_rat_next(U) \in [Arf -> Prf]
  <2>1. \A a \in Arf : r_rat_next(U)[a] \in Prf
    <3> TAKE a \in Arf
    <3>1. PICK w : w = Writers(U, a, COMMIT_WIDTH + 1) OBVIOUS
    <3>2. r_rat_next(U)[a] = IF w = {} THEN r_rat[a] ELSE U[Max(w)].prd BY <3>1 DEF r_rat_next
    <3>3. w \subseteq 1..COMMIT_WIDTH BY <3>1 DEF Writers, Slots
    <3>4. w # {} => Max(w) \in w BY <1>0, <3>3, MaxIs
    <3>5. w # {} => U[Max(w)] \in Uop BY <3>3, <3>4
    <3> QED BY <3>2, <3>5 DEF Uop
  <2> QED BY <2>1 DEF r_rat_next
<1>2. [a \in Arf |-> mapped(group, out, a, RENAME_WIDTH + 1)] \in [Arf -> Prf]
  <2>1. \A a \in Arf : mapped(group, out, a, RENAME_WIDTH + 1) \in Prf
    <3> TAKE a \in Arf
    <3>1. PICK w : w = Writers(group, a, RENAME_WIDTH + 1) OBVIOUS
    <3>2. mapped(group, out, a, RENAME_WIDTH + 1) = IF w = {} THEN mp_tb[a] ELSE out[Max(w)]
      BY <3>1 DEF mapped
    <3>3. w \subseteq 1..RENAME_WIDTH BY <3>1 DEF Writers, Slots
    <3>4. w # {} => Max(w) \in w BY <1>0, <3>3, MaxIs
    <3> QED BY <3>2, <3>3, <3>4
  <2> QED BY <2>1
<1>3. mp_tb_next(U, group, out) \in [Arf -> Prf] BY <1>2 DEF mp_tb_next
<1> QED BY <1>1, <1>3 DEF RatNext, MapNext

\* The ring stays well formed, and a recovery empties the back end.
LEMMA EdgeRing ==
  ASSUME NEW done, NEW ops, NEW n, NEW retired, NEW clear, NEW left, NEW A, NEW full,
         Edge(done, ops, n, retired, clear, left, A, full)
  PROVE  RingOK' /\ (clear => rob_size' = 0 /\ rob_head' = 0 /\ dp' = SkidReset(Bubble))
<1>1. EdgeFacts(ops, n, retired, clear) BY Edges
<1>2. CASE clear
  <2>1. PICK N : N = COMMIT_WIDTH + rob_size + 2 * RENAME_WIDTH OBVIOUS
  <2>2. PICK g : g = Appended(Rest(InFlight, N), N, A) OBVIOUS
  <2>3. PICK M : M = COMMIT_WIDTH + rob_size' + 2 * RENAME_WIDTH OBVIOUS
  <2> QED BY <1>2, <2>1, <2>2, <2>3, Recovers
<1>3. CASE ~clear
  <2>1. clear = FALSE BY <1>1, <1>3 DEF EdgeFacts
  <2>2. /\ RingOK /\ left = size_left(n, clear)
        /\ RobNext(ops, dp.in, head_left(n, clear), left, Entering(dp.in, left, clear))
    BY DEF Edge
  <2>3. /\ ops \in [RobIndex -> Uop] /\ \A s \in RobIndex : ops[s].valid = op_list[s].valid
        /\ n \in 0..COMMIT_WIDTH /\ n <= rob_size /\ dp.in \in [1..RENAME_WIDTH -> Uop]
    BY <1>1 DEF EdgeFacts
  <2>4. PICK new : new = Fitting(dp.in, left) OBVIOUS
  <2>5. PICK m : m = Cardinality(new) OBVIOUS
  <2>6. left = rob_size - n BY <1>3, <2>2 DEF size_left
  <2>7. RobNext(ops, dp.in, At(rob_head, n), left, new) BY <2>1, <2>2, <2>4 DEF head_left, Fitting
  <2>8. Advancing(ops, dp.in, n, left, new, m) BY <2>2, <2>3, <2>4, <2>5, <2>6, <2>7, RingAdvanced
  <2> QED BY <1>3, <2>8 DEF Advancing
<1>4. clear \in BOOLEAN BY <1>1 DEF EdgeFacts
<1> QED BY <1>2, <1>3, <1>4

\* A cycle keeps the types, and retires nothing past a misprediction.
LEMMA TypedStep ==
  ASSUME Typed, NEW done, NEW ops, NEW n, NEW retired, NEW clear, NEW left, NEW group, NEW out, NEW A, NEW full,
         Cycle(done, ops, n, retired, clear, left, group, out, A, full)
  PROVE  Typed'
<1>1. /\ Edge(done, ops, n, retired, clear, left, A, full)
      /\ group \in [1..RENAME_WIDTH -> Uop] /\ out = prf_out(uop_retire, Slots(group, Writes))
      /\ RatNext(recover, uop_retire, group, out)
      /\ recover' = clear
      /\ rr_full_prev' \in BOOLEAN /\ (~clear /\ full => rr_full_prev')
      /\ rob_lost' = (rob_lost \/ (~clear /\ Entering(dp.in, left, clear) # Slots(dp.in, Valid)))
  BY DEF Cycle
<1>2. /\ mp_tb \in [Arf -> Prf] /\ r_rat \in [Arf -> Prf] /\ rob_lost \in BOOLEAN
  BY DEF Typed
<1>3. /\ RingOK /\ SkidOK(dp) /\ uop_retire \in [1..COMMIT_WIDTH -> Uop]
      /\ retired = cm_uop_retire(ops, n)
      /\ A \in [1..RENAME_WIDTH -> Uop] /\ full \in BOOLEAN /\ dp' = SkidNext(dp, clear, full, A, Bubble)
      /\ left = size_left(n, clear)
      /\ RobNext(ops, dp.in, head_left(n, clear), left, Entering(dp.in, left, clear))
      /\ uop_retire' = retired
  BY <1>1 DEF Edge
<1>4. EdgeFacts(ops, n, retired, clear) BY <1>1, Edges
<1>5. /\ clear \in BOOLEAN /\ retired \in [1..COMMIT_WIDTH -> Uop] /\ n \in 0..COMMIT_WIDTH
      /\ \A k \in 1..n : retired[k].complete /\ (retired[k].mispredict => k = n)
      /\ clear <=> n > 0 /\ retired[n].mispredict
      /\ \A k \in 1..COMMIT_WIDTH : retired[k].valid <=> k <= n
      /\ SkidOK(dp)'
  BY <1>4 DEF EdgeFacts
<1>6. mp_tb' \in [Arf -> Prf] /\ r_rat' \in [Arf -> Prf]
  <2>1. out \in [1..RENAME_WIDTH -> Prf] BY <1>1, OutFacts
  <2> QED BY <1>1, <1>2, <1>3, <2>1, MapTypes
<1>7. dp'.stall_prev => rr_full_prev'
  <2>1. PICK t : t = dp' OBVIOUS
  <2>2. t.stall_prev => ~clear /\ full BY <1>3, <1>5, <2>1, Skids
  <2> QED BY <1>1, <2>1, <2>2
<1>8. RingOK' /\ (clear => rob_size' = 0 /\ rob_head' = 0 /\ dp' = SkidReset(Bubble)) BY <1>1, EdgeRing
<1>9. \A k \in 1..COMMIT_WIDTH : ~(k <= n) => ~retired[k].mispredict
  <2>1. \A k \in 1..COMMIT_WIDTH : ~(k <= n) => retired[k] = NoUop BY <1>3 DEF cm_uop_retire
  <2> QED BY <2>1, NoUopFacts
<1>10. \A i \in 1..COMMIT_WIDTH :
         /\ retired[i].mispredict => clear /\ \A j \in (i + 1)..COMMIT_WIDTH : ~retired[j].valid
         /\ retired[i].valid => retired[i].complete
  <2> TAKE i \in 1..COMMIT_WIDTH
  <2>0. COMMIT_WIDTH \in Nat /\ n \in Nat /\ i \in Int BY <1>5, SizeAssumption
  <2>1. i <= n => i \in 1..n BY <1>5
  <2>2. CASE retired[i].mispredict
    <3>1. i <= n BY <1>9, <2>2
    <3>2. i = n /\ n > 0 /\ clear BY <1>5, <2>0, <2>1, <2>2, <3>1
    <3>3. \A j \in (i + 1)..COMMIT_WIDTH : j \in 1..COMMIT_WIDTH /\ ~(j <= n) BY <2>0, <3>2
    <3> QED BY <1>5, <2>1, <3>1, <3>2, <3>3
  <2>3. retired[i].valid => retired[i].complete BY <1>5, <2>1
  <2> QED BY <2>2, <2>3
<1>11. NothingPastMispredict' BY <1>1, <1>3, <1>8, <1>10 DEF NothingPastMispredict
<1>12. recover' \in BOOLEAN /\ rob_lost' \in BOOLEAN /\ uop_retire' \in [1..COMMIT_WIDTH -> Uop]
  BY <1>1, <1>2, <1>3, <1>5
<1> QED BY <1>1, <1>5, <1>6, <1>7, <1>8, <1>11, <1>12 DEF Typed

\* The micro-ops in flight: the retired group first, then, when the ROB and
\* the rename stages are empty, nothing.
LEMMA Shape ==
  ASSUME RingOK, SkidOK(dp), uop_retire \in [1..COMMIT_WIDTH -> Uop]
  PROVE  /\ Begins(InFlight, Length, uop_retire)
         /\ rob_size = 0 /\ dp = SkidReset(Bubble) => Idle(InFlight, Length)
<1>0. PICK C : C = COMMIT_WIDTH OBVIOUS
<1>1. PICK R : R = RENAME_WIDTH OBVIOUS
<1>2. PICK z : z = rob_size OBVIOUS
<1>3. C \in Nat /\ R \in Nat /\ ROB_SIZE \in Nat BY <1>0, <1>1, SizeAssumption, RobSizeAssumption
<1>4. z \in 0..ROB_SIZE /\ rob_head \in RobIndex /\ op_list \in [RobIndex -> Uop] /\ z \in Nat
  BY <1>2, <1>3 DEF RingOK
<1>5. PICK ring : ring = RingPart OBVIOUS
<1>6. ring \in [1..z -> Uop]
  <2>1. \A k \in 1..z : At(rob_head, k - 1) \in RobIndex BY <1>4, SlotsOf
  <2> QED BY <1>2, <1>4, <1>5, <2>1 DEF RingPart
<1>7. Line(InFlight, uop_retire, z, ring, dp.in, dp.tmp)
  <2>1. InFlight = uop_retire \o ring \o dp.in \o dp.tmp BY <1>5 DEF InFlight, RingPart
  <2>2. dp.in \in [1..RENAME_WIDTH -> Uop] /\ dp.tmp \in [1..RENAME_WIDTH -> Uop] BY DEF SkidOK, Stage
  <2>3. Groups(uop_retire, z, dp.in, dp.tmp) BY <1>4, <2>2 DEF Groups
  <2> QED BY <1>6, <2>1, <2>3, Lines
<1>8. /\ InFlight \in [1..(C + z + 2 * R) -> Uop]
      /\ \A k \in 1..C : InFlight[k] = uop_retire[k]
      /\ \A i \in 1..R : InFlight[C + z + i] = dp.in[i]
      /\ \A i \in 1..R : InFlight[C + z + R + i] = dp.tmp[i]
  BY <1>0, <1>1, <1>7 DEF Line
<1>9. PICK N : N = C + z + 2 * R OBVIOUS
<1>10. N = Length /\ N \in Nat /\ C <= N BY <1>0, <1>1, <1>2, <1>3, <1>4, <1>9 DEF Length
<1>11. Begins(InFlight, N, uop_retire) BY <1>0, <1>3, <1>8, <1>9, <1>10 DEF Begins
<1>12. ASSUME rob_size = 0, dp = SkidReset(Bubble) PROVE Idle(InFlight, N)
  <2>1. dp.in = Bubble /\ dp.tmp = Bubble /\ z = 0 BY <1>2, <1>12 DEF SkidReset
  <2>2. \A k \in (C + 1)..N : ~InFlight[k].valid
    <3> TAKE k \in (C + 1)..N
    <3>1. \/ k - C \in 1..R /\ C + z + (k - C) = k
          \/ k - C - R \in 1..R /\ C + z + R + (k - C - R) = k
      BY <1>3, <1>9, <2>1
    <3>2. CASE k - C \in 1..R /\ C + z + (k - C) = k
      <4>1. InFlight[k] = Bubble[k - C] BY <1>8, <2>1, <3>2
      <4> QED BY <1>1, <3>2, <4>1, BubbleFacts
    <3>3. CASE k - C - R \in 1..R /\ C + z + R + (k - C - R) = k
      <4>1. InFlight[k] = Bubble[k - C - R] BY <1>8, <2>1, <3>3
      <4> QED BY <1>1, <3>3, <4>1, BubbleFacts
    <3> QED BY <3>1, <3>2, <3>3
  <2> QED BY <1>0, <2>2 DEF Idle
<1> QED BY <1>10, <1>11, <1>12

\* A cycle keeps the links and the accounts if the ROB refuses nothing.
LEMMA CountedStep ==
  ASSUME IInv, NEW done, NEW ops, NEW n, NEW retired, NEW clear, NEW left, NEW group, NEW out, NEW A, NEW full,
         Cycle(done, ops, n, retired, clear, left, group, out, A, full), ~rob_lost'
  PROVE  /\ CommitOK(InFlight', r_rat', arf_recover', prf_recover', prf_recover_num')
         /\ ~recover' => SpecOK(InFlight', Length', r_rat', arf_recover', mp_tb', arf_valid', free_list', free_num')
<1>1. /\ Edge(done, ops, n, retired, clear, left, A, full)
      /\ group \in [1..RENAME_WIDTH -> Uop] /\ out = prf_out(uop_retire, Slots(group, Writes))
      /\ RatNext(recover, uop_retire, group, out)
      /\ A = rr_uops_out(recover, uop_retire, group, out)
      /\ recover' = clear
      /\ rob_lost' = (rob_lost \/ (~clear /\ Entering(dp.in, left, clear) # Slots(dp.in, Valid)))
  BY DEF Cycle
<1>2. ~rob_lost /\ (clear \/ Entering(dp.in, left, clear) = Slots(dp.in, Valid)) BY <1>1
<1>3. RingOK /\ SkidOK(dp) /\ uop_retire \in [1..COMMIT_WIDTH -> Uop] /\ NothingPastMispredict
  BY DEF IInv, Typed
<1>4. /\ CommitOK(InFlight, r_rat, arf_recover, prf_recover, prf_recover_num)
      /\ ~recover => SpecOK(InFlight, Length, r_rat, arf_recover, mp_tb, arf_valid, free_list, free_num)
  BY <1>2 DEF IInv, Counted
<1>5. Begins(InFlight, Length, uop_retire) /\ (recover => Idle(InFlight, Length))
  <2>1. recover => rob_size = 0 /\ dp = SkidReset(Bubble) BY <1>3 DEF NothingPastMispredict
  <2> QED BY <1>3, <2>1, Shape
<1>6. PICK N : N = Length OBVIOUS
<1>7. PICK g : g = Appended(Rest(InFlight, N), N, A) OBVIOUS
<1>8. RatStepped(g, N, A) BY <1>1, <1>4, <1>5, <1>6, <1>7, RatSteps
<1>9. /\ CommitOK(g, r_rat', arf_recover', prf_recover', prf_recover_num')
      /\ SpecOK(g, N + RENAME_WIDTH, r_rat', arf_recover', mp_tb', arf_valid', free_list', free_num')
  BY <1>8 DEF RatStepped
<1>10. PICK h : h = InFlight' OBVIOUS
<1>11. PICK M : M = COMMIT_WIDTH + rob_size' + 2 * RENAME_WIDTH OBVIOUS
<1>12. M = Length' BY <1>11 DEF Length
<1>13. N = COMMIT_WIDTH + rob_size + 2 * RENAME_WIDTH BY <1>6 DEF Length
<1>14. clear \in BOOLEAN
  <2>1. EdgeFacts(ops, n, retired, clear) BY <1>1, Edges
  <2> QED BY <2>1 DEF EdgeFacts
<1>15. PICK r : r = r_rat' OBVIOUS
<1>16. PICK c : c = arf_recover' OBVIOUS
<1>17. CASE clear
  <2>1. PICK lim, place : Moved(g, N + RENAME_WIDTH, InFlight', M, lim, place)
    BY <1>1, <1>7, <1>11, <1>13, <1>17, Recovers
  <2>2. Moved(g, N + RENAME_WIDTH, h, M, lim, place) BY <1>10, <2>1
  <2>3. Commits(r, c) /\ Linked(g, r, c) /\ Unaliased(g, r, c) BY <1>9, <1>15, <1>16 DEF CommitOK
  <2>4. MoveKept(g, N + RENAME_WIDTH, h, M, lim, r, c) BY <2>2, <2>3, MoveKeeps
  <2>5. Linked(h, r, c) /\ Unaliased(h, r, c) BY <2>4 DEF MoveKept
  <2>6. CommitOK(h, r_rat', arf_recover', prf_recover', prf_recover_num')
    BY <1>9, <1>15, <1>16, <2>3, <2>5 DEF CommitOK
  <2> QED BY <1>1, <1>10, <1>17, <2>6
<1>18. CASE ~clear
  <2>1. \E place : Moved(g, N + RENAME_WIDTH, InFlight', M, N + RENAME_WIDTH, place)
    BY <1>1, <1>2, <1>7, <1>11, <1>13, <1>18, Moves
  <2>2. PICK place : Moved(g, N + RENAME_WIDTH, h, M, N + RENAME_WIDTH, place) BY <1>10, <2>1
  <2>3. PICK N2 : N2 = N + RENAME_WIDTH OBVIOUS
  <2>4. /\ Moved(g, N2, h, M, N2, place)
        /\ CommitOK(g, r_rat', arf_recover', prf_recover', prf_recover_num')
        /\ SpecOK(g, N2, r_rat', arf_recover', mp_tb', arf_valid', free_list', free_num')
    BY <1>9, <2>2, <2>3
  <2>5. /\ CommitOK(h, r_rat', arf_recover', prf_recover', prf_recover_num')
        /\ SpecOK(h, M, r_rat', arf_recover', mp_tb', arf_valid', free_list', free_num')
    BY <2>4, SpecMoves
  <2> QED BY <1>10, <1>12, <2>5
<1> QED BY <1>14, <1>17, <1>18

\* The invariant holds after reset.
LEMMA IInvInit ==
  ASSUME Init
  PROVE  IInv
<1>1. /\ RobInit /\ dp = SkidReset(Bubble) /\ rr_full_prev = FALSE /\ recover = FALSE
      /\ uop_retire = NoRetire /\ rob_lost = FALSE
      /\ mp_tb = [a \in Arf |-> 0] /\ r_rat = [a \in Arf |-> 0] /\ arf_valid = {0} /\ arf_recover = {0}
      /\ free_list = {0} /\ free_num = PRF_INT_SIZE - 1
      /\ prf_recover = {0} /\ prf_recover_num = PRF_INT_SIZE - 1
  BY DEF Init, RatInit, MapInit, FLInit
<1>2. RingOK /\ rob_size = 0 /\ rob_head = 0 BY <1>1, RingInit DEF RobInit
<1>3. SkidOK(dp) /\ dp.stall_prev = FALSE BY <1>1, BubbleFacts DEF SkidOK, SkidReset, Stage
<1>4. uop_retire \in [1..COMMIT_WIDTH -> Uop] /\ \A i \in 1..COMMIT_WIDTH : uop_retire[i] = NoUop
  BY <1>1, NoUopFacts DEF NoRetire
<1>5. 0 \in Prf /\ 0 \in Arf BY ArfFacts
<1>6. mp_tb \in [Arf -> Prf] /\ r_rat \in [Arf -> Prf] BY <1>1, <1>5
<1>7. NothingPastMispredict BY <1>1, <1>4, NoUopFacts DEF NothingPastMispredict
<1>8. Typed BY <1>1, <1>2, <1>3, <1>4, <1>6, <1>7 DEF Typed
<1>9. PICK h : h = InFlight OBVIOUS
<1>10. PICK N : N = Length OBVIOUS
<1>11. Begins(h, N, uop_retire) /\ Idle(h, N) BY <1>1, <1>2, <1>3, <1>4, <1>9, <1>10, Shape
<1>12. N \in Nat /\ h \in [1..N -> Uop] /\ \A k \in 1..N : ~h[k].valid
  <2>1. N \in Nat /\ h \in [1..N -> Uop] /\ COMMIT_WIDTH \in Nat
        /\ \A k \in 1..COMMIT_WIDTH : h[k] = uop_retire[k]
    BY <1>11 DEF Begins
  <2>2. \A k \in 1..N : k \in 1..COMMIT_WIDTH \/ k \in (COMMIT_WIDTH + 1)..N BY <2>1
  <2>3. \A k \in 1..N : ~h[k].valid BY <1>4, <1>11, <2>1, <2>2, NoUopFacts DEF Idle
  <2> QED BY <2>1, <2>3
<1>13. PICK r : r = r_rat OBVIOUS
<1>14. PICK c : c = arf_recover OBVIOUS
<1>15. Commits(r, c) BY <1>1, <1>5, <1>6, <1>13, <1>14 DEF Commits
<1>16. /\ Live(h, r, c) = Committed(r, c) /\ Linked(h, r, c)
       /\ \A a : Held(h, r, a, N + 1) = r[a] /\ (Known(h, c, a, N + 1) <=> a \in c)
  BY <1>12, <1>15, NoneInFlight
<1>17. Committed(r, c) = {0} /\ Cardinality({0}) = 1
  <2>1. r[0] = 0 BY <1>1, <1>5, <1>13
  <2>2. Committed(r, c) = {0} BY <1>1, <1>14, <2>1 DEF Committed
  <2> QED BY <2>2, FS_Singleton
<1>18. Unaliased(h, r, c)
  <2>1. Slots(h, Writes) = {k \in 1..N : h[k].valid /\ h[k].rd # 0} BY <1>12, WritersOf
  <2>2. c \ {0} = {} BY <1>1, <1>14
  <2>3. Tokens(h, c) = {} BY <1>12, <2>1, <2>2 DEF Tokens
  <2> QED BY <2>3 DEF Unaliased
<1>19. CommitOK(h, r, c, prf_recover, prf_recover_num) BY <1>1, <1>15, <1>16, <1>17, <1>18 DEF CommitOK
<1>20. SpecOK(h, N, r, c, mp_tb, arf_valid, free_list, free_num)
  <2>1. Maps(h, N, r, c, mp_tb, arf_valid) BY <1>1, <1>5, <1>6, <1>13, <1>14, <1>16 DEF Maps
  <2> QED BY <1>1, <1>16, <1>17, <2>1 DEF SpecOK
<1> QED BY <1>8, <1>9, <1>10, <1>13, <1>14, <1>19, <1>20 DEF IInv, Counted

\* Every step keeps it.
LEMMA IInvStep ==
  ASSUME IInv, [Next]_vars
  PROVE  IInv'
<1>1. CASE Next
  <2>1. PICK done \in Completions, group \in RrInput, iq_full \in BOOLEAN : Completing(done, group, iq_full)
    BY <1>1 DEF Next
  <2>2. Typed BY DEF IInv
  <2>3. PICK ops, n, retired, clear, left, out, A, full :
          Cycle(done, ops, n, retired, clear, left, group, out, A, full)
    BY <2>1, <2>2, Cycles
  <2>4. Typed' BY <2>2, <2>3, TypedStep
  <2>5. Counted'
    <3>1. ASSUME ~rob_lost'
          PROVE  /\ CommitOK(InFlight', r_rat', arf_recover', prf_recover', prf_recover_num')
                 /\ ~recover' => SpecOK(InFlight', Length', r_rat', arf_recover', mp_tb', arf_valid', free_list', free_num')
      BY <2>3, <3>1, CountedStep
    <3> QED BY <3>1 DEF Counted
  <2> QED BY <2>4, <2>5 DEF IInv
<1>2. CASE UNCHANGED vars
  <2>1. /\ dp' = dp /\ rr_full_prev' = rr_full_prev /\ recover' = recover /\ uop_retire' = uop_retire
        /\ rob_lost' = rob_lost /\ UNCHANGED robVars
        /\ mp_tb' = mp_tb /\ r_rat' = r_rat /\ arf_valid' = arf_valid /\ arf_recover' = arf_recover
        /\ free_list' = free_list /\ free_num' = free_num
        /\ prf_recover' = prf_recover /\ prf_recover_num' = prf_recover_num
    BY <1>2 DEF vars, mapVars, flVars
  <2>2. op_list' = op_list /\ rob_head' = rob_head /\ rob_size' = rob_size BY <2>1 DEF robVars
  <2>3. RingOK' BY <2>1, RingStutter DEF IInv, Typed
  <2>4. NothingPastMispredict' BY <2>1, <2>2 DEF IInv, Typed, NothingPastMispredict
  <2>5. Typed' BY <2>1, <2>3, <2>4 DEF IInv, Typed, SkidOK
  <2>6. InFlight' = InFlight /\ Length' = Length BY <2>1, <2>2 DEF InFlight, Length
  <2>7. Counted' BY <2>1, <2>6 DEF IInv, Counted
  <2> QED BY <2>5, <2>7 DEF IInv
<1> QED BY <1>1, <1>2

-----------------------------------------------------------------------------
(* What the invariant says of the properties that the runs check.            *)

\* The two ways to say which register a micro-op finds.
LEMMA HoldsIsHeld ==
  ASSUME NEW s, NEW a, NEW k
  PROVE  Holds(s, a, k) = Held(s, r_rat, a, k)
BY DEF Holds, Held, Behind

Counts ==
  /\ Length \in Nat /\ InFlight \in [1..Length -> Uop]
  /\ CommitOK(InFlight, r_rat, arf_recover, prf_recover, prf_recover_num)
  /\ ~recover => SpecOK(InFlight, Length, r_rat, arf_recover, mp_tb, arf_valid, free_list, free_num)

\* The invariant while the ROB has refused nothing.
LEMMA CountsHold ==
  ASSUME IInv, ~rob_lost
  PROVE  Counts
<1>1. RingOK /\ SkidOK(dp) /\ uop_retire \in [1..COMMIT_WIDTH -> Uop] BY DEF IInv, Typed
<1>2. Begins(InFlight, Length, uop_retire) BY <1>1, Shape
<1> QED BY <1>2 DEF IInv, Counted, Counts, Begins

\* The links are the data flow.
LEMMA DataflowHolds ==
  ASSUME IInv
  PROVE  Dataflow
<1> SUFFICES ASSUME ~rob_lost
             PROVE LET s == InFlight IN
                   /\ \A k \in DOMAIN s : s[k].valid => s[k].prs1 = Holds(s, s[k].rs1, k)
                   /\ \A k \in DOMAIN s : Writes(s[k]) => s[k].prev = Holds(s, s[k].rd, k)
                   /\ ~recover => \A a \in Arf : mp_tb[a] = Holds(s, a, Len(s) + 1)
  BY DEF Dataflow
<1>1. PICK s : s = InFlight OBVIOUS
<1>2. Counts BY CountsHold
<1>3. Length \in Nat /\ s \in [1..Length -> Uop] /\ Linked(s, r_rat, arf_recover)
  BY <1>1, <1>2 DEF Counts, CommitOK
<1>4. Len(s) = Length
  <2>1. DOMAIN s = 1..Length BY <1>3
  <2>2. s \in Seq(Uop) BY <1>3
  <2> QED BY <1>3, <2>1, <2>2, LenProperties
<1>5. \A k \in DOMAIN s : s[k].valid => s[k].prs1 = Holds(s, s[k].rs1, k)
  BY <1>3, HoldsIsHeld DEF Linked
<1>6. \A k \in DOMAIN s : Writes(s[k]) => s[k].prev = Holds(s, s[k].rd, k)
  BY <1>3, HoldsIsHeld DEF Linked, Writes
<1>7. ~recover => \A a \in Arf : mp_tb[a] = Holds(s, a, Len(s) + 1)
  <2> SUFFICES ASSUME ~recover, NEW a \in Arf PROVE mp_tb[a] = Holds(s, a, Len(s) + 1) OBVIOUS
  <2>1. Maps(s, Length, r_rat, arf_recover, mp_tb, arf_valid) BY <1>1, <1>2 DEF Counts, SpecOK
  <2>2. mp_tb[a] = Held(s, r_rat, a, Length + 1) BY <2>1 DEF Maps
  <2> QED BY <1>4, <2>2, HoldsIsHeld
<1> QED BY <1>1, <1>5, <1>6, <1>7

\* Different tokens have different registers.
LEMMA NoAliasingHolds ==
  ASSUME IInv
  PROVE  NoAliasing
<1> SUFFICES ASSUME ~rob_lost
             PROVE LET s == InFlight
                       w == Slots(s, Writes)
                       c == arf_recover \ {0}
                   IN /\ \A k \in w : s[k].prd # 0 /\ \A j \in w : j # k => s[j].prd # s[k].prd
                      /\ \A a \in c : r_rat[a] # 0 /\ \A b \in c : b # a => r_rat[b] # r_rat[a]
                      /\ \A k \in w, a \in c : s[k].prd # r_rat[a]
  BY DEF NoAliasing
<1>1. PICK s : s = InFlight OBVIOUS
<1>2. PICK c : c = arf_recover OBVIOUS
<1>3. PICK r : r = r_rat OBVIOUS
<1>4. PICK N : N = Length OBVIOUS
<1>5. N \in Nat /\ s \in [1..N -> Uop] /\ Commits(r, c) /\ Unaliased(s, r, c)
  <2>1. Counts BY CountsHold
  <2> QED BY <1>1, <1>2, <1>3, <1>4, <2>1 DEF Counts, CommitOK
<1>6. PICK D : D = Tokens(s, c) OBVIOUS
<1>7. PICK reg : reg = Reg(s, c) OBVIOUS
<1>8. PICK val : val = Val(s, r, c) OBVIOUS
<1>9. TokensAre(s, r, c, N, D, reg, val) BY <1>5, <1>6, <1>7, <1>8, TokenFacts
<1>10. \A t \in D : val[t] # 0 /\ \A u \in D : val[t] = val[u] => t = u
  BY <1>5, <1>6, <1>8 DEF Unaliased
<1>11. PICK w : w = Slots(s, Writes) OBVIOUS
<1>12. w = {k \in 1..N : s[k].valid /\ s[k].rd # 0} BY <1>5, <1>11, WritersOf
<1>13. \A k \in w : k \in D /\ k > 0 /\ val[k] = s[k].prd
  <2> TAKE k \in w
  <2>1. k \in 1..N /\ k > 0 BY <1>5, <1>12
  <2>2. k \in D BY <1>9, <1>12, <2>1 DEF TokensAre
  <2> QED BY <1>9, <2>1, <2>2 DEF TokensAre
<1>14. \A a \in c \ {0} : a \in Nat /\ -a \in D /\ ~(-a > 0) /\ val[-a] = r[a]
  <2> TAKE a \in c \ {0}
  <2>1. a \in Nat /\ a # 0 BY <1>5, ArfFacts DEF Commits
  <2>2. -a <= 0 /\ ~(-a > 0) /\ -(-a) = a BY <2>1
  <2>3. -a \in D BY <1>9 DEF TokensAre
  <2>4. val[-a] = r[-(-a)] BY <1>9, <2>2, <2>3 DEF TokensAre
  <2> QED BY <2>1, <2>2, <2>3, <2>4
<1>15. \A k \in w : s[k].prd # 0 /\ \A j \in w : j # k => s[j].prd # s[k].prd
  BY <1>10, <1>13
<1>16. \A a \in c \ {0} : r[a] # 0 /\ \A b \in c \ {0} : b # a => r[b] # r[a]
  <2> TAKE a \in c \ {0}
  <2>1. r[a] # 0 BY <1>10, <1>14
  <2>2. \A b \in c \ {0} : r[b] = r[a] => b = a
    <3> SUFFICES ASSUME NEW b \in c \ {0}, r[b] = r[a] PROVE b = a OBVIOUS
    <3>1. val[-b] = val[-a] /\ -b \in D /\ -a \in D BY <1>14
    <3>2. -b = -a BY <1>10, <3>1
    <3>3. a \in Nat /\ b \in Nat BY <1>14
    <3> QED BY <3>2, <3>3
  <2> QED BY <2>1, <2>2
<1>17. \A k \in w, a \in c \ {0} : s[k].prd # r[a]
  <2> SUFFICES ASSUME NEW k \in w, NEW a \in c \ {0}, s[k].prd = r[a] PROVE FALSE OBVIOUS
  <2>1. val[k] = val[-a] /\ k \in D /\ -a \in D /\ k > 0 /\ ~(-a > 0) BY <1>13, <1>14
  <2>2. k = -a BY <1>10, <2>1
  <2> QED BY <2>1, <2>2
<1> QED BY <1>1, <1>2, <1>3, <1>11, <1>15, <1>16, <1>17

\* A busy register is mapped, or its value is overwritten and a micro-op in
\* flight will release it.
LEMMA RegisterAccountingHolds ==
  ASSUME IInv
  PROVE  RegisterAccounting
<1> SUFFICES ASSUME ~rob_lost
             PROVE /\ ~recover =>
                        /\ free_list = {0} \cup {mp_tb[a] : a \in arf_valid}
                                           \cup {InFlight[k].prev : k \in Slots(InFlight, Releases)}
                        /\ free_num = PRF_INT_SIZE - Cardinality(free_list)
                   /\ prf_recover = {0} \cup {r_rat[a] : a \in arf_recover}
                   /\ prf_recover_num = PRF_INT_SIZE - Cardinality(prf_recover)
  BY DEF RegisterAccounting
<1>1. PICK s : s = InFlight OBVIOUS
<1>2. PICK c : c = arf_recover OBVIOUS
<1>3. PICK r : r = r_rat OBVIOUS
<1>4. PICK N : N = Length OBVIOUS
<1>5. Counts BY CountsHold
<1>6. /\ N \in Nat /\ s \in [1..N -> Uop] /\ Commits(r, c) /\ Linked(s, r, c) /\ Unaliased(s, r, c)
      /\ prf_recover = Committed(r, c) /\ prf_recover_num = PRF_INT_SIZE - Cardinality(prf_recover)
  BY <1>1, <1>2, <1>3, <1>4, <1>5 DEF Counts, CommitOK
<1>7. prf_recover = {0} \cup {r_rat[a] : a \in arf_recover} BY <1>2, <1>3, <1>6 DEF Committed
<1>8. ASSUME ~recover
      PROVE  /\ free_list = {0} \cup {mp_tb[a] : a \in arf_valid}
                                \cup {s[k].prev : k \in Slots(s, Releases)}
             /\ free_num = PRF_INT_SIZE - Cardinality(free_list)
  <2>1. SpecOK(s, N, r, c, mp_tb, arf_valid, free_list, free_num)
    BY <1>1, <1>2, <1>3, <1>4, <1>5, <1>8 DEF Counts
  <2>2. /\ arf_valid \subseteq Arf /\ 0 \in arf_valid
        /\ \A a \in Arf : mp_tb[a] = Held(s, r, a, N + 1) /\ (a # 0 => (a \in arf_valid <=> Known(s, c, a, N + 1)))
        /\ free_list = Live(s, r, c) /\ free_num = PRF_INT_SIZE - Cardinality(free_list)
    BY <2>1 DEF SpecOK, Maps
  <2>3. PICK D : D = Tokens(s, c) OBVIOUS
  <2>4. PICK reg : reg = Reg(s, c) OBVIOUS
  <2>5. PICK val : val = Val(s, r, c) OBVIOUS
  <2>6. PICK G : G = Overwritten(D, reg, N) OBVIOUS
  <2>7. TokensAre(s, r, c, N, D, reg, val) BY <1>6, <2>3, <2>4, <2>5, TokenFacts
  <2>8. D \subseteq Int /\ reg \in [D -> Arf \ {0}] /\ (\A t \in D : t <= N)
    <3>1. D \subseteq Int /\ reg \in [D -> Arf \ {0}] BY <2>7 DEF TokensAre
    <3>2. \A t \in D : t > 0 => t \in 1..N BY <2>7 DEF TokensAre
    <3>3. \A t \in D : t <= N BY <1>6, <3>1, <3>2
    <3> QED BY <3>1, <3>3
  <2>9. {s[i].prev : i \in Slots(s, Releases)} = {val[t] : t \in G}
    <3>1. Accounted(s, r, c, N, D, reg, val, G)
      <4>1. N \in Int BY <1>6
      <4> QED BY <1>6, <2>3, <2>4, <2>5, <2>6, <4>1, Account
    <3>2. Freed(s, N) = Slots(s, Releases)
      <4>1. Slots(s, Releases) = {k \in 1..N : s[k].valid /\ s[k].prev_valid} BY <1>6, WritersOf
      <4>2. \A i \in Slots(s, Releases) : i <= N BY <1>6, <4>1
      <4> QED BY <4>2 DEF Freed
    <3> QED BY <3>1, <3>2 DEF Accounted
  <2>10. free_list = {0} \cup {val[t] : t \in D} BY <2>2, <2>3, <2>5 DEF Live
  <2>11. N + 1 \in 1..(N + 1) BY <1>6
  <2>12. \A a \in Arf \ {0} : HeldAt(s, r, c, D, reg, val, N + 1, a)
    BY <1>6, <2>3, <2>4, <2>5, <2>11, HeldIsNearest
  <2>13. \A t \in D : t < N + 1 BY <1>6, <2>8
  \* A register in use that nothing has overwritten is the mapped one.
  <2>14. \A t \in D \ G : \E a \in arf_valid : val[t] = mp_tb[a]
    <3> TAKE t \in D \ G
    <3>1. PICK a : a = reg[t] OBVIOUS
    <3>2. a \in Arf \ {0} /\ HeldAt(s, r, c, D, reg, val, N + 1, a) BY <2>8, <2>12, <3>1
    <3>3. \A u \in D : reg[u] = a => u <= t
      <4> SUFFICES ASSUME NEW u \in D, reg[u] = a, ~(u <= t) PROVE FALSE OBVIOUS
      <4>1. t \in Int /\ u \in Int /\ u <= N BY <2>8
      <4>2. t < u BY <4>1
      <4>3. t \in G BY <2>6, <3>1, <4>1, <4>2 DEF Overwritten
      <4> QED BY <4>3
    <3>4. Nearest(D, reg, a, t, N + 1) BY <2>13, <3>1, <3>3 DEF Nearest
    <3>5. Held(s, r, a, N + 1) = val[t] /\ Known(s, c, a, N + 1) BY <2>13, <3>1, <3>2, <3>4 DEF HeldAt
    <3> QED BY <2>2, <3>2, <3>5
  <2>15. \A a \in arf_valid : mp_tb[a] = 0 \/ \E t \in D : mp_tb[a] = val[t]
    <3> TAKE a \in arf_valid
    <3>1. CASE a = 0
      <4>1. Behind(s, 0, N + 1) = {}
        <5>1. \A j \in 1..((N + 1) - 1) : ~(Writes(s[j]) /\ s[j].rd = 0) BY DEF Writes
        <5> QED BY <5>1 DEF Behind
      <4>2. Held(s, r, 0, N + 1) = r[0] BY <4>1 DEF Held
      <4>3. r[0] = 0 BY <1>6 DEF Commits
      <4> QED BY <2>2, <3>1, <4>2, <4>3
    <3>2. CASE a # 0
      <4>1. a \in Arf \ {0} /\ Known(s, c, a, N + 1) BY <2>2, <3>2
      <4>2. HeldAt(s, r, c, D, reg, val, N + 1, a) BY <2>12, <4>1
      <4>3. PICK t \in D : Nearest(D, reg, a, t, N + 1) BY <4>1, <4>2 DEF HeldAt
      <4>4. Held(s, r, a, N + 1) = val[t] BY <4>2, <4>3 DEF HeldAt
      <4> QED BY <2>2, <4>1, <4>4
    <3> QED BY <3>1, <3>2
  <2>16. G \subseteq D BY <2>6 DEF Overwritten
  <2>17. {0} \cup {val[t] : t \in D} = {0} \cup {mp_tb[a] : a \in arf_valid} \cup {val[t] : t \in G}
    BY <2>14, <2>15, <2>16
  <2> QED BY <2>2, <2>9, <2>10, <2>17
<1> QED BY <1>1, <1>6, <1>7, <1>8

-----------------------------------------------------------------------------
(* The theorems.                                                             *)

\* The rename table, the free list, the ROB and commit keep the invariant
\* from reset on, whatever is decoded, stalls, completes and is flushed.
THEOREM Invariance == Spec => []IInv
<1>1. Init => IInv BY IInvInit
<1>2. IInv /\ [Next]_vars => IInv' BY IInvStep
<1> QED BY <1>1, <1>2, PTL DEF Spec

\* As long as the ROB has refused nothing, every micro-op in flight names the
\* registers of its nearest older writers, for every width and every number
\* of registers (rat.sv, mapping_table.sv).
THEOREM Chained == Spec => []Dataflow
<1>1. IInv => Dataflow BY DataflowHolds
<1> QED BY <1>1, Invariance, PTL

\* The free list and its counter, and their committed copies, are exact: no
\* physical register is lost and none is free while in use (free_list.sv).
THEOREM NoneLeaks == Spec => []RegisterAccounting
<1>1. IInv => RegisterAccounting BY RegisterAccountingHolds
<1> QED BY <1>1, Invariance, PTL

\* No two live values share a physical register (free_list.sv, rat.sv).
THEOREM NoneShared == Spec => []NoAliasing
<1>1. IInv => NoAliasing BY NoAliasingHolds
<1> QED BY <1>1, Invariance, PTL

\* Nothing younger than a mispredicted branch retires or stays (rob.sv:51-92,
\* core.sv).
THEOREM Squashed == Spec => []NothingPastMispredict
<1>1. IInv => NothingPastMispredict BY DEF IInv, Typed
<1> QED BY <1>1, Invariance, PTL
=============================================================================
