------------------------------ MODULE HostProofs ------------------------------
(* The host's side of the simulator and the programs: the table of           *)
(* descriptors (Syscalls), what the repository's programs compute, print and *)
(* leave in their files (Sobel, ExecLib, Harness, Programs), and their       *)
(* exchange with the host through tohost and fromhost (HostCall).            *)
EXTENDS HostCall, Programs, TLAPS, WellFoundedInduction

-----------------------------------------------------------------------------
(* Syscalls.  The table of descriptors is exact, for every host, whatever    *)
(* fails, and however long a program goes on, until it closes again what the *)
(* host has released in a close that failed.                                 *)

\* What the table and the host's descriptors are: FdsExact needs that -1 and
\* AT_FDCWD are none of the host's, that only what is open is raw, and that a
\* place with a descriptor that was released is not free.
TableOK ==
  /\ fds \in Seq(HOST \cup {-1})
  /\ DOMAIN open \subseteq HOST
  /\ raw \subseteq DOMAIN open
  /\ torn \subseteq Live
FdsInv == TableOK /\ FdsExact

\* The places of S lead to the files they were opened for, each to its own
\* descriptor, and no descriptor is without a place.
Leading(S) ==
  /\ \A d \in S : fds[d + 1] \in DOMAIN open \ raw /\ open[fds[d + 1]] = holds[d]
  /\ \A d, gd \in S : fds[d + 1] = fds[gd + 1] => d = gd
  /\ \A g \in DOMAIN open \ raw : \E d \in S : fds[d + 1] = g

\* FdsInv in these words, of a state and of the next one.
LEMMA FdsInvIs == FdsInv <=> TableOK /\ DOMAIN holds = Live /\ (~retried => Leading(Live \ torn))
BY DEF FdsInv, FdsExact, Leading
LEMMA FdsInvNext ==
  FdsInv' <=> TableOK' /\ DOMAIN holds' = Live' /\ (~retried' => Leading(Live \ torn)')
BY DEF FdsInv, FdsExact, Leading

tableVars == <<fds, open, raw, holds, torn, retried>>

\* A call that touches none of them: every one but openat, close and fcntl.
LEMMA Untouched == FdsInv /\ UNCHANGED tableVars => FdsInv'
BY DEF FdsInv, TableOK, FdsExact, Live, tableVars

\* openat: the descriptor is new, so that it is in no other place of the table.
LEMMA Opened ==
  ASSUME FdsInv, NEW h \in HOST, NEW f, h \notin DOMAIN open, alloc(h),
         open' = [g \in DOMAIN open \cup {h} |-> IF g = h THEN f ELSE open[g]],
         holds' = [d \in DOMAIN holds \cup {ret'} |-> IF d = ret' THEN f ELSE holds[d]],
         raw' = raw, torn' = torn, retried' = retried
  PROVE  FdsInv'
<1>0. /\ fds \in Seq(HOST \cup {-1}) /\ DOMAIN open \subseteq HOST /\ raw \subseteq DOMAIN open
      /\ torn \subseteq Live /\ DOMAIN holds = Live /\ (~retried => Leading(Live \ torn))
  BY FdsInvIs DEF TableOK
<1>1. PICK i \in 1..(Len(fds) + 1) :
        /\ i <= Len(fds) => fds[i] = -1
        /\ fds' = IF i > Len(fds) THEN Append(fds, h) ELSE [fds EXCEPT ![i] = h]
        /\ ret' = i - 1
  BY <1>0 DEF alloc
<1>2. h \in Nat /\ h # -1
  BY SyscallsAssumption
<1>3. /\ fds' \in Seq(HOST \cup {-1})
      /\ Len(fds') = IF i > Len(fds) THEN Len(fds) + 1 ELSE Len(fds)
      /\ \A j \in 1..Len(fds') : fds'[j] = IF j = i THEN h ELSE fds[j]
  <2> DEFINE D == HOST \cup {-1}
  <2>1. h \in D /\ fds \in Seq(D)
    BY <1>0
  <2>2. CASE i > Len(fds)
    <3>1. fds' = Append(fds, h) /\ i = Len(fds) + 1
      BY <1>1, <2>2
    <3> HIDE DEF D
    <3>2. /\ fds' \in Seq(D) /\ Len(fds') = Len(fds) + 1
          /\ \A j \in 1..(Len(fds) + 1) : fds'[j] = IF j = Len(fds) + 1 THEN h ELSE fds[j]
      BY <2>1, <3>1
    <3> QED BY <2>2, <3>1, <3>2 DEF D
  <2>3. CASE i <= Len(fds)
    <3>1. fds' = [fds EXCEPT ![i] = h] /\ i \in 1..Len(fds)
      BY <1>1, <2>3
    <3> HIDE DEF D
    <3>2. /\ fds' \in Seq(D) /\ Len(fds') = Len(fds)
          /\ \A j \in 1..Len(fds) : fds'[j] = IF j = i THEN h ELSE fds[j]
      BY <2>1, <3>1
    <3> QED BY <2>3, <3>2 DEF D
  <2> QED BY <1>1, <2>2, <2>3
<1>4. Live' = Live \cup {i - 1} /\ i - 1 \notin Live
  BY <1>0, <1>1, <1>2, <1>3 DEF Live
<1>5. DOMAIN open' = DOMAIN open \cup {h} /\ open'[h] = f
      /\ \A g \in DOMAIN open : open'[g] = open[g]
  OBVIOUS
<1>6. DOMAIN holds' = Live' /\ holds'[i - 1] = f /\ \A d \in Live : holds'[d] = holds[d]
  BY <1>0, <1>1, <1>4
<1>7. \A d \in Live' : fds'[d + 1] = IF d = i - 1 THEN h ELSE fds[d + 1]
  BY <1>0, <1>3 DEF Live
<1>8. fds'[(i - 1) + 1] = h
  BY <1>1, <1>3
<1>9. h \notin raw /\ i - 1 \notin torn /\ Live' \ torn' = (Live \ torn) \cup {i - 1}
  BY <1>0, <1>4
<1>10. ASSUME ~retried' PROVE Leading(Live \ torn)'
  <2> DEFINE S == Live \ torn
  <2>1. /\ \A d \in S : fds[d + 1] \in DOMAIN open \ raw /\ open[fds[d + 1]] = holds[d]
        /\ \A d, gd \in S : fds[d + 1] = fds[gd + 1] => d = gd
        /\ \A g \in DOMAIN open \ raw : \E d \in S : fds[d + 1] = g
    BY <1>0, <1>10 DEF Leading
  <2>2. S \subseteq Live /\ S' = S \cup {i - 1} /\ i - 1 \notin S
    BY <1>4, <1>9
  <2>3. S' \subseteq Live'
    OBVIOUS
  <2> HIDE DEF S
  <2>4. \A d \in S : fds[d + 1] # h
    BY <2>1
  <2>5. ASSUME NEW d \in S' PROVE fds'[d + 1] \in DOMAIN open' \ raw' /\ open'[fds'[d + 1]] = holds'[d]
    <3>1. CASE d = i - 1
      BY <3>1, <1>5, <1>6, <1>8, <1>9
    <3>2. CASE d # i - 1
      <4>1. d \in S /\ d \in Live /\ fds'[d + 1] = fds[d + 1]
        BY <3>2, <2>2, <2>3, <2>5, <1>7
      <4>2. fds[d + 1] \in DOMAIN open \ raw /\ open[fds[d + 1]] = holds[d]
        BY <4>1, <2>1
      <4>3. open'[fds[d + 1]] = open[fds[d + 1]] /\ holds'[d] = holds[d] /\ fds[d + 1] \in DOMAIN open'
        BY <4>1, <4>2, <1>5, <1>6
      <4> QED BY <4>1, <4>2, <4>3
    <3> QED BY <3>1, <3>2
  <2>6. ASSUME NEW d \in S', NEW gd \in S', fds'[d + 1] = fds'[gd + 1] PROVE d = gd
    <3>1. d \in Live' /\ gd \in Live'
      BY <2>3, <2>6
    <3>2. CASE d = i - 1 \/ gd = i - 1
      BY <2>6, <3>1, <3>2, <2>2, <2>4, <1>7
    <3>3. CASE d # i - 1 /\ gd # i - 1
      BY <2>6, <3>1, <3>3, <2>1, <2>2, <1>7
    <3> QED BY <3>2, <3>3
  <2>7. ASSUME NEW g \in DOMAIN open' \ raw' PROVE \E d \in S' : fds'[d + 1] = g
    <3>1. CASE g = h
      BY <3>1, <2>2, <1>8
    <3>2. CASE g # h
      <4>1. PICK d \in S : fds[d + 1] = g
        BY <2>1, <2>7, <3>2, <1>5
      <4>2. d \in S' /\ d \in Live' /\ d # i - 1
        BY <2>2, <2>3
      <4> QED BY <4>1, <4>2, <1>7
    <3> QED BY <3>1, <3>2
  <2> QED BY <2>5, <2>6, <2>7 DEF Leading, S
<1>11. DOMAIN open' \subseteq HOST /\ raw' \subseteq DOMAIN open' /\ torn' \subseteq Live'
  BY <1>0, <1>4, <1>5
<1>12. DOMAIN holds' = Live'
  BY <1>6
<1>13. TableOK'
  BY <1>3, <1>11 DEF TableOK
<1> QED BY <1>10, <1>12, <1>13, FdsInvNext

\* The host has released the descriptor of a sound place: the others lead to
\* what they led to.
LEMMA Freed ==
  ASSUME NEW S, NEW d \in S, Leading(S), Releases(fds[d + 1]),
         \A gd \in S \ {d} : fds'[gd + 1] = fds[gd + 1] /\ holds'[gd] = holds[gd]
  PROVE  Leading(S \ {d})'
<1> DEFINE h == fds[d + 1]
           T == S \ {d}
<1>1. DOMAIN open' = DOMAIN open \ {h} /\ \A g \in DOMAIN open' : open'[g] = open[g]
  BY DEF Releases
<1>2. raw' = raw \ {h}
  BY DEF Releases
<1>3. /\ \A gd \in S : fds[gd + 1] \in DOMAIN open \ raw /\ open[fds[gd + 1]] = holds[gd]
      /\ \A gd, hd \in S : fds[gd + 1] = fds[hd + 1] => gd = hd
      /\ \A g \in DOMAIN open \ raw : \E gd \in S : fds[gd + 1] = g
  BY DEF Leading
<1>4. \A gd \in T : gd \in S /\ fds'[gd + 1] = fds[gd + 1] /\ holds'[gd] = holds[gd] /\ fds[gd + 1] # h
  BY <1>3
<1> HIDE DEF h, T
<1>5. \A gd \in T : fds'[gd + 1] \in DOMAIN open' \ raw' /\ open'[fds'[gd + 1]] = holds'[gd]
  BY <1>1, <1>2, <1>3, <1>4
<1>6. \A gd, hd \in T : fds'[gd + 1] = fds'[hd + 1] => gd = hd
  BY <1>3, <1>4
<1>7. ASSUME NEW g \in DOMAIN open' \ raw' PROVE \E gd \in T : fds'[gd + 1] = g
  <2>1. g \in DOMAIN open \ raw /\ g # h
    BY <1>1, <1>2, <1>7
  <2>2. PICK gd \in S : fds[gd + 1] = g
    BY <1>3, <2>1
  <2>3. gd \in T
    BY <2>1, <2>2 DEF T, h
  <2> QED BY <1>4, <2>2, <2>3
<1>8. Leading(T)' <=> /\ \A gd \in T : fds'[gd + 1] \in DOMAIN open' \ raw' /\ open'[fds'[gd + 1]] = holds'[gd]
                      /\ \A gd, hd \in T : fds'[gd + 1] = fds'[hd + 1] => gd = hd
                      /\ \A g \in DOMAIN open' \ raw' : \E gd \in T : fds'[gd + 1] = g
  BY DEF Leading, T
<1> QED BY <1>5, <1>6, <1>7, <1>8 DEF T

\* close: it frees the one place that holds the descriptor, and only after the
\* host has closed it.
LEMMA Closed ==
  ASSUME FdsInv, NEW d, Releases(lookup(d)), dealloc(d),
         holds' = [f \in DOMAIN holds \ {d} |-> holds[f]],
         torn' = torn \ {d}, retried' = (retried \/ d \in torn)
  PROVE  FdsInv'
<1>0. /\ fds \in Seq(HOST \cup {-1}) /\ DOMAIN open \subseteq HOST /\ raw \subseteq DOMAIN open
      /\ torn \subseteq Live /\ DOMAIN holds = Live /\ (~retried => Leading(Live \ torn))
  BY FdsInvIs DEF TableOK
<1>1. lookup(d) \in Nat
  BY <1>0, SyscallsAssumption DEF Releases, IsOpen
<1>2. d \in 0..(Len(fds) - 1) /\ lookup(d) = fds[d + 1] /\ d \in Live
  BY <1>0, <1>1 DEF lookup, AT_FDCWD, Live
<1>3. /\ fds' \in Seq(HOST \cup {-1}) /\ Len(fds') = Len(fds)
      /\ \A j \in 1..Len(fds) : fds'[j] = IF j = d + 1 THEN -1 ELSE fds[j]
  <2>1. PICK n \in Nat : n = Len(fds) BY <1>0
  <2>2. PICK D : D = HOST \cup {-1} OBVIOUS
  <2>3. fds \in [1..n -> D] /\ -1 \in D BY <1>0, <2>1, <2>2
  <2>4. fds' = [fds EXCEPT ![d + 1] = -1] /\ d + 1 \in 1..n BY <1>2, <2>1 DEF dealloc
  <2>5. fds' \in [1..n -> D] BY ONLY <2>3, <2>4
  <2>6. fds' \in Seq(D) /\ Len(fds') = n BY ONLY <2>5
  <2>7. \A j \in 1..n : fds'[j] = IF j = d + 1 THEN -1 ELSE fds[j] BY ONLY <2>3, <2>4
  <2> QED BY ONLY <2>1, <2>2, <2>6, <2>7
<1>4. Live' = Live \ {d}
  BY <1>0, <1>2, <1>3 DEF Live
<1>5. \A gd \in Live' : fds'[gd + 1] = fds[gd + 1]
  BY <1>0, <1>2, <1>3, <1>4 DEF Live
<1>6. DOMAIN holds' = Live' /\ \A gd \in Live' : holds'[gd] = holds[gd]
  BY <1>0, <1>4
<1>7. DOMAIN open' \subseteq HOST /\ raw' \subseteq DOMAIN open' /\ torn' \subseteq Live'
  BY <1>0, <1>4 DEF Releases
<1>8. ASSUME ~retried' PROVE Leading(Live \ torn)'
  <2>1. ~retried /\ d \notin torn
    BY <1>8
  <2>2. PICK S : S = Live \ torn
    OBVIOUS
  <2>3. d \in S /\ Leading(S) /\ Releases(fds[d + 1]) /\ (Live \ torn)' = S \ {d}
    BY <1>0, <1>2, <1>4, <2>1, <2>2
  <2>4. \A gd \in S \ {d} : fds'[gd + 1] = fds[gd + 1] /\ holds'[gd] = holds[gd]
    BY <1>4, <1>5, <1>6, <2>2
  <2>5. Leading(S \ {d})'
    BY ONLY <2>3, <2>4, Freed
  <2> QED BY <2>3, <2>5
<1>9. TableOK'
  BY <1>3, <1>7 DEF TableOK
<1> QED BY <1>6, <1>8, <1>9, FdsInvNext

\* close, when it fails on a descriptor that the host has released: the place
\* keeps its number, and is not sound any more.
LEMMA Torn ==
  ASSUME FdsInv, NEW d, Releases(lookup(d)), fds' = fds, holds' = holds,
         torn' = torn \cup {d}, retried' = (retried \/ d \in torn)
  PROVE  FdsInv'
<1>0. /\ fds \in Seq(HOST \cup {-1}) /\ DOMAIN open \subseteq HOST /\ raw \subseteq DOMAIN open
      /\ torn \subseteq Live /\ DOMAIN holds = Live /\ (~retried => Leading(Live \ torn))
  BY FdsInvIs DEF TableOK
<1>1. lookup(d) \in Nat
  BY <1>0, SyscallsAssumption DEF Releases, IsOpen
<1>2. lookup(d) = fds[d + 1] /\ d \in Live
  BY <1>0, <1>1 DEF lookup, AT_FDCWD, Live
<1>3. Live' = Live
  BY DEF Live
<1>4. DOMAIN open' \subseteq HOST /\ raw' \subseteq DOMAIN open' /\ torn' \subseteq Live'
  BY <1>0, <1>2, <1>3 DEF Releases
<1>5. ASSUME ~retried' PROVE Leading(Live \ torn)'
  <2>1. ~retried /\ d \notin torn
    BY <1>5
  <2>2. PICK S : S = Live \ torn
    OBVIOUS
  <2>3. d \in S /\ Leading(S) /\ Releases(fds[d + 1]) /\ (Live \ torn)' = S \ {d}
    BY <1>0, <1>2, <1>3, <2>1, <2>2
  <2>4. \A gd \in S \ {d} : fds'[gd + 1] = fds[gd + 1] /\ holds'[gd] = holds[gd]
    OBVIOUS
  <2>5. Leading(S \ {d})'
    BY ONLY <2>3, <2>4, Freed
  <2> QED BY <2>3, <2>5
<1>6. TableOK'
  BY <1>0, <1>4 DEF TableOK
<1>7. DOMAIN holds' = Live'
  BY <1>0, <1>3
<1> QED BY <1>5, <1>6, <1>7, FdsInvNext

\* close, when it has released nothing.
LEMMA Refused ==
  ASSUME FdsInv, UNCHANGED <<fds, open, raw, holds, torn>>, NEW d, retried' = (retried \/ d \in torn)
  PROVE  FdsInv'
<1>1. Live' = Live BY DEF Live
<1>2. TableOK /\ DOMAIN holds = Live /\ (~retried => Leading(Live \ torn)) BY FdsInvIs
<1>3. TableOK' BY <1>1, <1>2 DEF TableOK
<1>4. Leading(Live \ torn) <=> Leading(Live \ torn)' BY <1>1 DEF Leading
<1> QED BY <1>1, <1>2, <1>3, <1>4, FdsInvNext

\* fcntl: what it duplicates is the program's own, and is in no place.
LEMMA Duplicated ==
  ASSUME FdsInv, NEW g \in HOST, NEW f, g \notin DOMAIN open, raw' = raw \cup {g},
         open' = [i \in DOMAIN open \cup {g} |-> IF i = g THEN f ELSE open[i]],
         fds' = fds, holds' = holds, torn' = torn, retried' = retried
  PROVE  FdsInv'
<1>0. TableOK /\ DOMAIN holds = Live /\ (~retried => Leading(Live \ torn))
  BY FdsInvIs
<1>1. Live' = Live BY DEF Live
<1>2. TableOK' BY <1>0, <1>1 DEF TableOK
<1>3. DOMAIN open' \ raw' = DOMAIN open \ raw OBVIOUS
<1>4. \A h \in DOMAIN open : open'[h] = open[h] OBVIOUS
<1>5. ASSUME ~retried' PROVE Leading(Live \ torn)'
  <2>1. Leading(Live \ torn) BY <1>0, <1>5
  <2> QED BY <1>1, <1>3, <1>4, <2>1 DEF Leading
<1> QED BY <1>0, <1>1, <1>2, <1>5, FdsInvNext

\* stdin and stdout, at the start.
LEMMA FdsInit == SysInit => FdsInv
<1> USE SyscallsAssumption DEF SysInit, FdsInv, TableOK, FdsExact, Live
<1> SUFFICES ASSUME SysInit PROVE FdsInv
  OBVIOUS
<1>0. \E g \in [1..3 -> HOST] :
        /\ \A i, j \in 1..3 : i < j => g[i] < g[j]
        /\ \A i \in 1..3, h \in HOST : h < g[i] => \E j \in 1..3 : h = g[j]
        /\ fds = <<g[1], g[2], g[3]>>
        /\ open = [h \in {g[1], g[2], g[3]} |-> IF h = g[1] THEN STDIN ELSE STDOUT]
        /\ offset = [h \in {g[1], g[2], g[3]} |-> 0]
  BY ONLY SysInit DEF SysInit
<1>1. PICK g \in [1..3 -> HOST] :
        /\ \A i, j \in 1..3 : i < j => g[i] < g[j]
        /\ fds = <<g[1], g[2], g[3]>>
        /\ open = [h \in {g[1], g[2], g[3]} |-> IF h = g[1] THEN STDIN ELSE STDOUT]
  BY ONLY <1>0
<1>2. g[1] \in Nat /\ g[2] \in Nat /\ g[3] \in Nat /\ g[1] < g[2] /\ g[2] < g[3] /\ g[1] < g[3]
  <2>1. 1 \in 1..3 /\ 2 \in 1..3 /\ 3 \in 1..3 /\ 1 < 2 /\ 2 < 3 /\ 1 < 3
    OBVIOUS
  <2>2. HOST \subseteq Nat
    BY ONLY SyscallsAssumption
  <2> QED BY ONLY <1>1, <2>1, <2>2
<1>3. Len(fds) = 3 /\ fds[1] = g[1] /\ fds[2] = g[2] /\ fds[3] = g[3] /\ fds \in Seq(HOST \cup {-1})
  BY <1>1
<1>4. Live = 0..2
  BY <1>2, <1>3
<1>5. \A d \in Live : d = 0 \/ d = 1 \/ d = 2
  BY <1>4
<1>6. /\ open[g[1]] = STDIN /\ open[g[2]] = STDOUT /\ open[g[3]] = STDOUT
      /\ DOMAIN open = {g[1], g[2], g[3]}
  BY <1>1, <1>2
<1>7. holds[0] = STDIN /\ holds[1] = STDOUT /\ holds[2] = STDOUT /\ DOMAIN holds = 0..2
  OBVIOUS
<1>8. \A d \in Live : fds[d + 1] \in DOMAIN open \ raw /\ open[fds[d + 1]] = holds[d]
  BY <1>3, <1>5, <1>6, <1>7
<1>9. \A d, gd \in Live : fds[d + 1] = fds[gd + 1] => d = gd
  <2>1. fds[0 + 1] = g[1] /\ fds[1 + 1] = g[2] /\ fds[2 + 1] = g[3]
    BY <1>3
  <2>2. g[1] # g[2] /\ g[2] # g[3] /\ g[1] # g[3]
    BY ONLY <1>2
  <2> QED BY ONLY <1>5, <2>1, <2>2
<1>10. \A h \in DOMAIN open \ raw : \E d \in Live : fds[d + 1] = h
  <2>1. 0 \in Live /\ 1 \in Live /\ 2 \in Live
    BY <1>4
  <2>2. fds[0 + 1] = g[1] /\ fds[1 + 1] = g[2] /\ fds[2 + 1] = g[3]
    BY <1>3
  <2>3. \A h \in DOMAIN open : h = g[1] \/ h = g[2] \/ h = g[3]
    BY <1>6
  <2> QED BY <2>1, <2>2, <2>3
<1> QED BY <1>3, <1>4, <1>6, <1>7, <1>8, <1>9, <1>10

LEMMA CloseKept == ASSUME FdsInv, NEW d, sys_close(d) PROVE FdsInv'
<1>1. retried' = (retried \/ d \in torn)
  BY DEF sys_close
<1>2. CASE /\ Releases(lookup(d)) /\ dealloc(d) /\ torn' = torn \ {d}
           /\ holds' = [f \in DOMAIN holds \ {d} |-> holds[f]]
  BY <1>1, <1>2, Closed
<1>3. CASE Releases(lookup(d)) /\ UNCHANGED <<fds, holds>> /\ torn' = torn \cup {d}
  BY <1>1, <1>3, Torn
<1>4. CASE UNCHANGED <<fds, open, raw, holds, torn>>
  BY <1>1, <1>4, Refused
<1> QED BY <1>2, <1>3, <1>4 DEF sys_close

LEMMA OpenKept == ASSUME FdsInv, NEW d, NEW m, NEW creat, sys_openat(d, m, creat) PROVE FdsInv'
<1>1. CASE UNCHANGED <<fds, open, holds>>
  BY <1>1, Untouched DEF sys_openat, tableVars
<1>2. CASE ~UNCHANGED <<fds, open, holds>>
  <2>1. PICK h \in HOST, f \in FILES :
          /\ Hands(h, 0) /\ alloc(h)
          /\ open' = [g \in DOMAIN open \cup {h} |-> IF g = h THEN f ELSE open[g]]
          /\ holds' = [gd \in DOMAIN holds \cup {ret'} |-> IF gd = ret' THEN f ELSE holds[gd]]
    BY <1>2 DEF sys_openat
  <2>2. h \notin DOMAIN open /\ raw' = raw /\ torn' = torn /\ retried' = retried
    BY <2>1 DEF sys_openat, Hands, IsOpen
  <2> QED BY <2>1, <2>2, Opened
<1> QED BY <1>1, <1>2

LEMMA FdsStep == FdsInv /\ [SysNext]_sysVars => FdsInv'
<1> SUFFICES ASSUME FdsInv, [SysNext]_sysVars PROVE FdsInv'
  OBVIOUS
<1>1. ASSUME NEW d \in FDS, sys_close(d) PROVE FdsInv'
  BY <1>1, CloseKept
<1>2. ASSUME NEW d \in DIRS, NEW m \in PATHS, NEW creat \in BOOLEAN, sys_openat(d, m, creat)
      PROVE  FdsInv'
  BY <1>2, OpenKept
<1>3. ASSUME NEW d \in FDS, NEW dup \in BOOLEAN, NEW least \in SIZES, sys_fcntl(d, dup, least)
      PROVE  FdsInv'
  <2>1. CASE UNCHANGED <<open, raw>>
    BY <1>3, <2>1, Untouched DEF sys_fcntl, tableVars
  <2>2. CASE ~UNCHANGED <<open, raw>>
    <3>1. PICK g \in HOST :
            /\ Hands(g, least) /\ raw' = raw \cup {g}
            /\ open' = [i \in DOMAIN open \cup {g} |-> IF i = g THEN open[lookup(d)] ELSE open[i]]
      BY <1>3, <2>2 DEF sys_fcntl
    <3>2. g \notin DOMAIN open /\ fds' = fds /\ holds' = holds /\ torn' = torn /\ retried' = retried
      BY <1>3, <3>1 DEF sys_fcntl, Hands, IsOpen
    <3> QED BY <3>1, <3>2, Duplicated
  <2> QED BY <2>1, <2>2
<1>4. ASSUME UNCHANGED tableVars PROVE FdsInv'
  BY <1>4, Untouched
<1>5. ASSUME UNCHANGED table PROVE UNCHANGED tableVars
  BY <1>5 DEF table, tableVars
<1>6. ASSUME NEW n \in Numbers, dispatch(n), n \notin {25, 56, 57} PROVE UNCHANGED tableVars
  <2>1. ASSUME NEW ok, NEW newdir, OnPath(ok, newdir) PROVE UNCHANGED tableVars
    BY <1>5, <2>1 DEF OnPath
  <2>2. ASSUME NEW ok, NEW f, NEW p, StatInto(ok, f, p) PROVE UNCHANGED tableVars
    BY <1>5, <2>2 DEF StatInto
  <2>3. CASE n = 17
    BY <1>6, <1>5, <2>3 DEF dispatch, sys_getcwd
  <2>4. CASE n = 34
    BY <1>6, <2>1, <2>4 DEF dispatch, sys_mkdirat
  <2>5. CASE n = 35
    BY <1>6, <2>1, <2>5 DEF dispatch, sys_unlinkat
  <2>6. CASE n = 37
    <3>1. PICK d \in DIRS, gd \in DIRS, m \in PATHS, o \in PATHS : sys_linkat(d, m, gd, o)
      BY <1>6, <2>6 DEF dispatch
    <3> QED BY <3>1, <2>1 DEF sys_linkat
  <2>7. CASE n = 38
    <3>1. PICK d \in DIRS, gd \in DIRS, m \in PATHS, o \in PATHS : sys_renameat(d, m, gd, o)
      BY <1>6, <2>7 DEF dispatch
    <3> QED BY <3>1, <2>1 DEF sys_renameat
  <2>8. CASE n = 46
    <3>1. PICK d \in FDS, size \in SIZES : sys_ftruncate(d, size)
      BY <1>6, <2>8 DEF dispatch
    <3>2. UNCHANGED table
      BY <3>1, Zenon DEF sys_ftruncate
    <3> QED BY <3>2, <1>5
  <2>9. CASE n = 48
    BY <1>6, <2>1, <2>9 DEF dispatch, sys_faccessat
  <2>10. CASE n = 49
    BY <1>6, <1>5, <2>10 DEF dispatch, sys_chdir
  <2>11. CASE n = 62
    BY <1>6, <2>11 DEF dispatch, sys_lseek, tableVars
  <2>12. CASE n = 63
    BY <1>6, <2>12 DEF dispatch, sys_read, tableVars
  <2>13. CASE n = 64
    BY <1>6, <2>13 DEF dispatch, sys_write, tableVars
  <2>14. CASE n = 67
    BY <1>6, <1>5, <2>14 DEF dispatch, sys_pread
  <2>15. CASE n = 68
    BY <1>6, <1>5, <2>15 DEF dispatch, sys_pwrite
  <2>16. CASE n = 79
    BY <1>6, <2>2, <2>16 DEF dispatch, sys_fstatat
  <2>17. CASE n = 80
    BY <1>6, <2>2, <2>17 DEF dispatch, sys_fstat
  <2>18. CASE n = 93
    BY <1>6, <1>5, <2>18 DEF dispatch, sys_exit
  <2>19. CASE n = 291
    BY <1>6, <1>5, <2>19 DEF dispatch, sys_statx
  <2>20. CASE n = 1039
    BY <1>6, <2>2, <2>20 DEF dispatch, sys_lstat
  <2>21. CASE n = 2011
    BY <1>6, <1>5, <2>21 DEF dispatch, sys_getmainvars
  <2>22. CASE n = 2012
    BY <1>6, <1>5, <2>22 DEF dispatch, sys_printstr
  <2> QED BY <1>6, <2>3, <2>4, <2>5, <2>6, <2>7, <2>8, <2>9, <2>10, <2>11, <2>12,
         <2>13, <2>14, <2>15, <2>16, <2>17, <2>18, <2>19, <2>20, <2>21, <2>22 DEF Numbers
<1>7. CASE UNCHANGED sysVars
  BY <1>4, <1>5, <1>7 DEF sysVars
<1>8. CASE SysNext
  <2>1. PICK n \in Numbers : dispatch(n)
    BY <1>8 DEF SysNext
  <2>2. CASE n = 25
    BY <2>1, <2>2, <1>3 DEF dispatch
  <2>3. CASE n = 56
    BY <2>1, <2>3, <1>2 DEF dispatch
  <2>4. CASE n = 57
    BY <2>1, <2>4, <1>1 DEF dispatch
  <2>5. CASE n \notin {25, 56, 57}
    BY <2>1, <2>5, <1>4, <1>6
  <2> QED BY <2>2, <2>3, <2>4, <2>5
<1> QED BY <1>7, <1>8

\* syscall.cc:484, syscall.h:16: whatever calls a program makes and whichever fail,
\* no descriptor is lost, left open, or leads to a file it was not opened for, but
\* for those whose close failed when the host had released them (syscall.cc:268),
\* and until the program closes one of these again.
THEOREM FdsKept == SysSpec => []FdsExact
<1>1. FdsInv => FdsExact
  BY DEF FdsInv
<1> QED BY <1>1, FdsInit, FdsStep, PTL DEF SysSpec

-----------------------------------------------------------------------------
(* Sobel.  What the edge detection computes: the square root, the convolution*)
(* and the magnitude, for every image.                                       *)

\* The least of a set of numbers.
LEMMA Least ==
  ASSUME NEW T \in SUBSET Nat, T # {}
  PROVE  \E x \in T : \A y \in T : x <= y
<1>1. PICK R : R = OpToRel(<, Nat) OBVIOUS
<1>2. IsWellFoundedOn(R, Nat) BY <1>1, NatLessThanWellFounded
<1>3. PICK x \in T : \A y \in T : <<y, x>> \notin R BY <1>2, WFMin
<1>4. \A y \in T : ~(y < x) BY <1>1, <1>3 DEF OpToRel
<1> QED BY <1>3, <1>4

\* A solution of the recursion up to k.
Solution(f, k, V, x0, step) ==
  f \in [0..k -> V] /\ f[0] = x0 /\ \A i \in 1..k : f[i] = step[i][f[i - 1]]

\* A recursion over the first numbers has a solution.
LEMMA Recursion ==
  ASSUME NEW n \in Nat, NEW V, NEW x0 \in V, NEW step \in [1..n -> [V -> V]]
  PROVE  \E f : Solution(f, n, V, x0, step)
<1>0. PICK Failing : Failing = {k \in 0..n : ~\E f : Solution(f, k, V, x0, step)} OBVIOUS
<1>1. ASSUME NEW k \in Failing, \A l \in Failing : k <= l PROVE FALSE
  <2>1. k \in 0..n BY <1>0
  <2>2. CASE k = 0
    <3>1. PICK f : f = [i \in 0..0 |-> x0] OBVIOUS
    <3>2. Solution(f, 0, V, x0, step) BY <3>1 DEF Solution
    <3> QED BY <1>0, <2>2, <3>2
  <2>3. CASE k > 0
    <3>1. k - 1 \in 0..n /\ k - 1 \notin Failing BY <1>1, <2>1, <2>3
    <3>2. PICK g : Solution(g, k - 1, V, x0, step) BY <1>0, <3>1
    <3>3. PICK f : f = [i \in 0..k |-> IF i = k THEN step[k][g[k - 1]] ELSE g[i]] OBVIOUS
    <3>4. g \in [0..(k - 1) -> V] /\ k \in 1..n BY <2>1, <2>3, <3>2 DEF Solution
    <3>5. step[k] \in [V -> V] /\ g[k - 1] \in V BY <2>1, <3>4
    <3>6. step[k][g[k - 1]] \in V BY <3>5
    <3>7. f \in [0..k -> V]
      <4>1. \A i \in 0..k : i # k => i \in 0..(k - 1) BY <2>1
      <4> QED BY <3>3, <3>4, <3>6, <4>1
    <3>8. f[0] = x0 BY <2>1, <2>3, <3>2, <3>3 DEF Solution
    <3>9. ASSUME NEW i \in 1..k PROVE f[i] = step[i][f[i - 1]]
      <4>1. i - 1 \in 0..k /\ i - 1 # k BY <2>1
      <4>2. f[i - 1] = g[i - 1] BY <3>3, <4>1
      <4>3. CASE i = k BY <2>1, <3>3, <4>2, <4>3
      <4>4. CASE i # k
        <5>1. i \in 1..(k - 1) /\ i \in 0..k BY <2>1, <4>4
        <5>2. f[i] = g[i] BY <3>3, <4>4, <5>1
        <5>3. g[i] = step[i][g[i - 1]] BY <3>2, <5>1 DEF Solution
        <5> QED BY <4>2, <5>2, <5>3
      <4> QED BY <4>3, <4>4
    <3>10. Solution(f, k, V, x0, step) BY <3>7, <3>8, <3>9 DEF Solution
    <3> QED BY <3>10, <1>0
  <2> QED BY <2>1, <2>2, <2>3
<1>2. Failing = {}
  <2> SUFFICES ASSUME Failing # {} PROVE FALSE OBVIOUS
  <2>1. Failing \in SUBSET Nat BY <1>0
  <2>2. \E x \in Failing : \A y \in Failing : x <= y BY ONLY Failing # {}, <2>1, Least
  <2> QED BY ONLY <1>1, <2>2
<1> QED BY <1>0, <1>2

\* Two solutions agree.
LEMMA Agree ==
  ASSUME NEW k \in Nat, NEW l \in Nat, NEW V, NEW x0 \in V, NEW step, NEW f, NEW g,
         Solution(f, k, V, x0, step), Solution(g, l, V, x0, step)
  PROVE  \A i \in 0..k : i <= l => f[i] = g[i]
<1>0. PICK Failing : Failing = {i \in 0..k : i <= l /\ f[i] # g[i]} OBVIOUS
<1>1. ASSUME NEW i \in Failing, \A j \in Failing : i <= j PROVE FALSE
  <2>1. i \in 0..k /\ i <= l /\ f[i] # g[i] BY <1>0
  <2>2. i # 0 BY <2>1 DEF Solution
  <2>3. i - 1 \in 0..k /\ i - 1 <= l /\ i - 1 \notin Failing BY <1>1, <2>1, <2>2
  <2>4. f[i - 1] = g[i - 1] BY <1>0, <2>3
  <2>5. i \in 1..k /\ i \in 1..l BY <2>1, <2>2
  <2>6. f[i] = step[i][f[i - 1]] BY <2>5 DEF Solution
  <2>7. g[i] = step[i][g[i - 1]] BY <2>5 DEF Solution
  <2> QED BY <2>1, <2>4, <2>6, <2>7
<1>2. Failing \in SUBSET Nat BY <1>0
<1>3. Failing # {} => \E x \in Failing : \A y \in Failing : x <= y BY ONLY <1>2, Least
<1>4. Failing = {} BY ONLY <1>1, <1>3
<1> QED BY <1>0, <1>4

\* A recursion over all numbers has a solution.
Unending(f, V, x0, step) ==
  f \in [Nat -> V] /\ f[0] = x0 /\ \A i \in Nat \ {0} : f[i] = step[i][f[i - 1]]
LEMMA UnendingRecursion ==
  ASSUME NEW V, NEW x0 \in V, NEW step \in [Nat -> [V -> V]]
  PROVE  \E f : Unending(f, V, x0, step)
<1>1. PICK S : S = [n \in Nat |-> CHOOSE f : Solution(f, n, V, x0, step)] OBVIOUS
<1>2. ASSUME NEW n \in Nat PROVE Solution(S[n], n, V, x0, step)
  <2>1. PICK part : part = [i \in 1..n |-> step[i]] OBVIOUS
  <2>2. part \in [1..n -> [V -> V]] BY <2>1
  <2>3. PICK f : Solution(f, n, V, x0, part) BY ONLY <2>2, n \in Nat, x0 \in V, Recursion
  <2>4. Solution(f, n, V, x0, step) BY <2>1, <2>3 DEF Solution
  <2> QED BY <1>1, <2>4
<1>3. PICK f : f = [n \in Nat |-> S[n][n]] OBVIOUS
<1>4. f \in [Nat -> V]
  <2>1. \A n \in Nat : S[n][n] \in V BY <1>2 DEF Solution
  <2> QED BY <1>3, <2>1
<1>5. f[0] = x0
  <2>1. Solution(S[0], 0, V, x0, step) BY <1>2
  <2> QED BY <1>3, <2>1 DEF Solution
<1>6. ASSUME NEW i \in Nat \ {0} PROVE f[i] = step[i][f[i - 1]]
  <2>1. i \in Nat /\ i - 1 \in Nat OBVIOUS
  <2>2. Solution(S[i], i, V, x0, step) /\ Solution(S[i - 1], i - 1, V, x0, step) BY <1>2, <2>1
  <2>3. \A j \in 0..i : j <= i - 1 => S[i][j] = S[i - 1][j] BY ONLY <2>1, <2>2, x0 \in V, Agree
  <2>4. S[i][i - 1] = S[i - 1][i - 1] BY <2>1, <2>3
  <2>5. S[i][i] = step[i][S[i][i - 1]] BY <2>1, <2>2 DEF Solution
  <2> QED BY <1>3, <2>1, <2>4, <2>5
<1> QED BY <1>4, <1>5, <1>6 DEF Unending

-----------------------------------------------------------------------------
\* power2 is what its recursion says.
LEMMA Power2 ==
  /\ power2 \in [Nat -> Nat] /\ power2[0] = 1
  /\ \A n \in Nat : power2[n + 1] = 2 * power2[n]
<1>1. PICK step : step = [i \in Nat |-> [m \in Nat |-> 2 * m]] OBVIOUS
<1>2. step \in [Nat -> [Nat -> Nat]] BY <1>1
<1>3. PICK f : Unending(f, Nat, 1, step)
  <2>1. 1 \in Nat OBVIOUS
  <2> QED BY ONLY <1>2, <2>1, UnendingRecursion
<1>4. f \in [Nat -> Nat] /\ f[0] = 1 /\ \A i \in Nat \ {0} : f[i] = step[i][f[i - 1]]
  BY <1>3 DEF Unending
<1>5. ASSUME NEW n \in Nat PROVE f[n] = IF n = 0 THEN 1 ELSE 2 * f[n - 1]
  <2>1. CASE n = 0 BY <1>4, <2>1
  <2>2. CASE n # 0
    <3>1. n \in Nat \ {0} /\ n - 1 \in Nat BY <2>2
    <3>2. f[n - 1] \in Nat BY <1>4, <3>1
    <3>3. f[n] = step[n][f[n - 1]] BY <1>4, <3>1
    <3> QED BY <1>1, <2>2, <3>2, <3>3
  <2> QED BY <2>1, <2>2
<1>6. f = [n \in Nat |-> IF n = 0 THEN 1 ELSE 2 * f[n - 1]] BY <1>4, <1>5
<1>7. power2 = [n \in Nat |-> IF n = 0 THEN 1 ELSE 2 * power2[n - 1]] BY <1>6 DEF power2
<1>8. PICK p : p = power2 OBVIOUS
<1>9. p = [n \in Nat |-> IF n = 0 THEN 1 ELSE 2 * p[n - 1]] BY <1>7, <1>8
<1>10. p[0] = 1 /\ \A n \in Nat : p[n + 1] = 2 * p[n]
  <2>1. \A n \in Nat : n + 1 \in Nat /\ n + 1 # 0 /\ (n + 1) - 1 = n OBVIOUS
  <2> QED BY <1>9, <2>1
<1>11. PICK V : V = 1 OBVIOUS
<1>12. p \in [Nat -> Nat]
  <2>1. PICK Failing : Failing = {n \in Nat : p[n] \notin Nat} OBVIOUS
  <2>2. ASSUME NEW n \in Failing, \A j \in Failing : n <= j PROVE FALSE
    <3>1. n \in Nat /\ p[n] \notin Nat /\ n # 0 BY <2>1, <1>10
    <3>2. PICK m \in Int : m = n - 1 BY <3>1
    <3>3. m \in Nat /\ m \notin Failing /\ n = m + 1 BY <2>2, <3>1, <3>2
    <3>4. p[m] \in Nat BY <2>1, <3>3
    <3>5. p[n] = 2 * p[m] BY <1>10, <3>3
    <3> QED BY <3>1, <3>4, <3>5
  <2>3. Failing \in SUBSET Nat BY <2>1
  <2>4. Failing # {} => \E x \in Failing : \A y \in Failing : x <= y BY ONLY <2>3, Least
  <2>5. Failing = {} BY ONLY <2>2, <2>4
  <2>6. \A n \in Nat : p[n] \in Nat BY <2>1, <2>5
  <2>7. p = [n \in Nat |-> p[n]] BY <1>9
  <2> QED BY <2>6, <2>7
<1> QED BY <1>8, <1>10, <1>12

\* It grows.
LEMMA Power2Grows == \A n \in Nat : power2[n] \in Nat /\ power2[n] > n
<1>1. PICK p : p = power2 OBVIOUS
<1>2. p \in [Nat -> Nat] /\ p[0] = 1 /\ \A n \in Nat : p[n + 1] = 2 * p[n] BY <1>1, Power2
<1>3. PICK Failing : Failing = {n \in Nat : ~(p[n] > n)} OBVIOUS
<1>4. ASSUME NEW n \in Failing, \A j \in Failing : n <= j PROVE FALSE
  <2>1. n \in Nat /\ p[n] \in Nat /\ ~(p[n] > n) /\ n # 0 BY <1>3, <1>2
  <2>2. PICK m \in Int : m = n - 1 BY <2>1
  <2>3. m \in Nat /\ m \notin Failing /\ n = m + 1 BY <1>4, <2>1, <2>2
  <2>4. p[m] \in Nat /\ p[m] > m BY <1>2, <1>3, <2>3
  <2>5. p[n] = 2 * p[m] BY <1>2, <2>3
  <2> QED BY <2>1, <2>3, <2>4, <2>5
<1>5. Failing \in SUBSET Nat BY <1>3
<1>6. Failing # {} => \E x \in Failing : \A y \in Failing : x <= y BY ONLY <1>5, Least
<1>7. Failing = {} BY ONLY <1>4, <1>6
<1> QED BY <1>1, <1>2, <1>3, <1>7

-----------------------------------------------------------------------------
\* The product by doubling and halving.
Doubling(add) == add = [p \in Nat \X Nat |->
  IF p[2] = 0 THEN 0 ELSE (IF p[2] % 2 = 1 THEN p[1] ELSE 0) + add[<<2 * p[1], p[2] \div 2>>]]

LEMMA Halved ==
  ASSUME NEW a \in Nat, NEW b \in Nat \ {0}
  PROVE  a * b = (IF b % 2 = 1 THEN a ELSE 0) + (2 * a) * (b \div 2)
<1>1. PICK q \in Nat : b = 2 * q \/ b = 2 * q + 1
  <2>1. PICK h \in Int : h = b \div 2 OBVIOUS
  <2>2. b = 2 * h + (b % 2) /\ b % 2 \in 0..1 BY <2>1
  <2>3. h \in Nat /\ (b = 2 * h \/ b = 2 * h + 1) BY <2>2
  <2> QED BY <2>3
<1>2. CASE b = 2 * q
  <2>1. b % 2 = 0 /\ b \div 2 = q BY <1>2
  <2>2. a * (2 * q) = (2 * a) * q OBVIOUS
  <2>3. (2 * a) * q \in Nat OBVIOUS
  <2> QED BY <1>2, <2>1, <2>2, <2>3
<1>3. CASE b = 2 * q + 1
  <2>1. b % 2 = 1 /\ b \div 2 = q BY <1>3
  <2>2. a * (2 * q + 1) = a + (2 * a) * q OBVIOUS
  <2> QED BY <1>3, <2>1, <2>2
<1> QED BY <1>1, <1>2, <1>3

LEMMA DoublingIs ==
  ASSUME NEW add, Doubling(add)
  PROVE  \A a, b \in Nat : add[<<a, b>>] = a * b
<1>1. PICK Failing : Failing = {b \in Nat : \E a \in Nat : add[<<a, b>>] # a * b} OBVIOUS
<1>2. ASSUME NEW b \in Failing, \A j \in Failing : b <= j PROVE FALSE
  <2>1. b \in Nat BY <1>1
  <2>2. PICK a \in Nat : add[<<a, b>>] # a * b BY <1>1
  <2>3. add[<<a, b>>] = IF b = 0 THEN 0 ELSE (IF b % 2 = 1 THEN a ELSE 0) + add[<<2 * a, b \div 2>>]
    <3>1. <<a, b>> \in Nat \X Nat /\ <<a, b>>[1] = a /\ <<a, b>>[2] = b BY <2>1
    <3> QED BY <3>1 DEF Doubling
  <2>4. b # 0
    <3>1. a * 0 = 0 OBVIOUS
    <3> QED BY <2>2, <2>3, <3>1
  <2>5. PICK h \in Nat : h = b \div 2 BY <2>1
  <2>6. h < b BY <2>1, <2>4, <2>5
  <2>7. h \notin Failing BY <1>2, <2>1, <2>6
  <2>8. 2 * a \in Nat OBVIOUS
  <2>9. add[<<2 * a, h>>] = (2 * a) * h BY <1>1, <2>7, <2>8
  <2>10. a * b = (IF b % 2 = 1 THEN a ELSE 0) + (2 * a) * (b \div 2)
    <3>1. b \in Nat \ {0} BY <2>1, <2>4
    <3> QED BY ONLY <3>1, a \in Nat, Halved
  <2> QED BY ONLY <2>2, <2>3, <2>4, <2>5, <2>9, <2>10
<1>3. Failing \in SUBSET Nat BY <1>1
<1>4. Failing # {} => \E x \in Failing : \A y \in Failing : x <= y BY ONLY <1>3, Least
<1>5. Failing = {} BY ONLY <1>2, <1>4
<1> QED BY <1>1, <1>5

\* times multiplies.
LEMMA TimesIs == ASSUME NEW a \in Int, NEW b \in Int PROVE times(a, b) = a * b
<1>1. PICK w : w = [p \in Nat \X Nat |-> p[1] * p[2]] OBVIOUS
<1>2. Doubling(w)
  <2>1. ASSUME NEW p \in Nat \X Nat
        PROVE  w[p] = IF p[2] = 0 THEN 0 ELSE (IF p[2] % 2 = 1 THEN p[1] ELSE 0) + w[<<2 * p[1], p[2] \div 2>>]
    <3>1. PICK m \in Nat, n \in Nat : p = <<m, n>> OBVIOUS
    <3>2. w[p] = m * n BY <1>1, <3>1
    <3>3. CASE n = 0
      <4>1. m * 0 = 0 OBVIOUS
      <4> QED BY <3>1, <3>2, <3>3, <4>1
    <3>4. CASE n # 0
      <4>1. 2 * m \in Nat /\ n \div 2 \in Nat OBVIOUS
      <4>2. w[<<2 * m, n \div 2>>] = (2 * m) * (n \div 2) BY <1>1, <4>1
      <4>3. m * n = (IF n % 2 = 1 THEN m ELSE 0) + (2 * m) * (n \div 2)
        <5>1. n \in Nat \ {0} BY <3>4
        <5> QED BY ONLY <5>1, m \in Nat, Halved
      <4>4. p[1] = m /\ p[2] = n BY <3>1
      <4> QED BY ONLY <3>2, <3>4, <4>2, <4>3, <4>4
    <3> QED BY <3>3, <3>4
  <2> QED BY <1>1, <2>1 DEF Doubling
<1>3. PICK add : add = CHOOSE r : Doubling(r) OBVIOUS
<1>4. Doubling(add) BY <1>2, <1>3
<1>5. \A m, n \in Nat : add[<<m, n>>] = m * n BY ONLY <1>4, DoublingIs
<1>6. times(a, b) = IF (a < 0) # (b < 0) THEN -(add[<<Abs(a), Abs(b)>>]) ELSE add[<<Abs(a), Abs(b)>>]
  BY <1>3 DEF times, Doubling
<1>7. Abs(a) \in Nat /\ Abs(b) \in Nat BY DEF Abs
<1>8. add[<<Abs(a), Abs(b)>>] = Abs(a) * Abs(b) BY <1>5, <1>7
<1>9. PICK P \in Int : P = a * b OBVIOUS
<1>10. Abs(a) * Abs(b) = IF (a < 0) # (b < 0) THEN -P ELSE P
  <2>1. a * (-b) = -P /\ (-a) * b = -P /\ (-a) * (-b) = P BY <1>9
  <2> QED BY <1>9, <2>1 DEF Abs
<1> QED BY <1>6, <1>8, <1>9, <1>10

\* The quotient by what a quotient is.
LEMMA Quotient ==
  ASSUME NEW n \in Nat, NEW a \in Nat \ {0}
  PROVE  /\ n \div a \in Nat
         /\ a * (n \div a) <= n /\ n < a * (n \div a) + a
<1>1. PICK q \in Int : q = n \div a OBVIOUS
<1>2. PICK r \in Int : r = n % a OBVIOUS
<1>3. n = a * q + r /\ 0 <= r /\ r < a BY <1>1, <1>2, SMT
<1>4. q \in Nat BY <1>1, SMT
<1> QED BY <1>1, <1>3, <1>4

LEMMA QuotientIs ==
  ASSUME NEW n \in Nat, NEW a \in Nat \ {0}, NEW q \in Nat, a * q <= n, n < a * q + a
  PROVE  n \div a = q
<1>1. PICK k \in Nat : k = n \div a BY Quotient
<1>2. a * k <= n /\ n < a * k + a BY <1>1, Quotient
<1>3. ASSUME k < q PROVE FALSE
  <2>1. PICK d \in Nat : q = k + 1 + d BY <1>3
  <2>2. a * q = a * k + a + a * d BY <2>1
  <2>3. a * d \in Nat /\ a * k \in Nat OBVIOUS
  <2> QED BY <1>2, <2>2, <2>3
<1>4. ASSUME q < k PROVE FALSE
  <2>1. PICK d \in Nat : k = q + 1 + d BY <1>4
  <2>2. a * k = a * q + a + a * d BY <2>1
  <2>3. a * d \in Nat /\ a * q \in Nat OBVIOUS
  <2> QED BY <1>2, <2>2, <2>3
<1> QED BY <1>1, <1>3, <1>4

\* A quotient of a quotient.
LEMMA QuotientOfQuotient ==
  ASSUME NEW n \in Nat, NEW a \in Nat \ {0}, NEW c \in Nat \ {0}
  PROVE  c * a \in Nat \ {0} /\ n \div (c * a) = (n \div a) \div c
<1>1. PICK q \in Nat : q = n \div a BY Quotient
<1>2. a * q <= n /\ n < a * q + a BY <1>1, Quotient
<1>3. PICK h \in Nat : h = q \div c BY Quotient
<1>4. c * h <= q /\ q < c * h + c BY <1>3, Quotient
<1>5. PICK d \in Nat : q = c * h + d /\ d < c
  <2>1. PICK R \in Nat : R = c * h OBVIOUS
  <2>2. PICK d \in Nat : q = R + d BY <1>4, <2>1
  <2> QED BY <1>4, <2>1, <2>2
<1>6. PICK e \in Nat : c = d + 1 + e BY <1>5
<1>7. a * q = (c * a) * h + a * d
  <2>1. a * (c * h + d) = (c * a) * h + a * d OBVIOUS
  <2> QED BY ONLY <1>5, <2>1
<1>8. c * a = a * d + a + a * e
  <2>1. (d + 1 + e) * a = a * d + a + a * e OBVIOUS
  <2> QED BY ONLY <1>6, <2>1
<1>9. PICK P \in Nat : P = (c * a) * h OBVIOUS
<1>10. PICK R \in Nat : R = a * d OBVIOUS
<1>11. PICK S \in Nat : S = a * e OBVIOUS
<1>12. PICK b \in Nat : b = c * a OBVIOUS
<1>13. b \in Nat \ {0} BY ONLY <1>8, <1>10, <1>11, <1>12, a \in Nat \ {0}
<1>14. P <= n /\ n < P + b
  <2>1. n < P + R + a /\ P + R <= n BY ONLY <1>2, <1>7, <1>9, <1>10, a \in Nat \ {0}, n \in Nat
  <2>2. b = R + a + S BY ONLY <1>8, <1>10, <1>11, <1>12
  <2> QED BY ONLY <2>1, <2>2, R \in Nat, S \in Nat, P \in Nat, a \in Nat \ {0}, n \in Nat
<1>15. b * h <= n /\ n < b * h + b BY ONLY <1>9, <1>12, <1>14
<1>16. n \div b = h BY ONLY <1>13, <1>15, n \in Nat, h \in Nat, QuotientIs
<1> QED BY <1>1, <1>3, <1>12, <1>13, <1>16

\* What is left of n after k digits of base 4.
LEMMA Shifting ==
  ASSUME NEW n \in Nat
  PROVE  /\ n_shifted(n, 0) = n
         /\ \A k \in Nat : n_shifted(n, k) \in Nat
         /\ \A k \in Nat : n_shifted(n, k + 1) = n_shifted(n, k) \div 4
<1>1. /\ power2[0] = 1 /\ \A m \in Nat : power2[m] \in Nat \ {0}
      /\ \A m \in Nat : power2[m + 1] = 2 * power2[m]
  BY Power2, Power2Grows
<1>2. n_shifted(n, 0) = n
  <2>1. 2 * 0 = 0 /\ n \div 1 = n OBVIOUS
  <2> QED BY <1>1, <2>1 DEF n_shifted
<1>3. ASSUME NEW k \in Nat PROVE n_shifted(n, k) \in Nat
  <2>1. power2[2 * k] \in Nat \ {0} BY <1>1
  <2>2. n \div power2[2 * k] \in Nat BY ONLY <2>1, n \in Nat, Quotient
  <2> QED BY <2>2 DEF n_shifted
<1>4. ASSUME NEW k \in Nat PROVE n_shifted(n, k + 1) = n_shifted(n, k) \div 4
  <2>1. PICK m \in Nat : m = 2 * k OBVIOUS
  <2>2. 2 * (k + 1) = (m + 1) + 1 BY <2>1
  <2>3. PICK a \in Nat \ {0} : a = power2[m] BY <1>1
  <2>4. power2[(m + 1) + 1] = 4 * a BY <1>1, <2>3
  <2>5. n \div (4 * a) = (n \div a) \div 4
    <3>1. 4 \in Nat \ {0} OBVIOUS
    <3> QED BY ONLY <3>1, n \in Nat, a \in Nat \ {0}, QuotientOfQuotient
  <2> QED BY <2>1, <2>2, <2>3, <2>4, <2>5 DEF n_shifted
<1> QED BY <1>2, <1>3, <1>4

\* After as many digits as there are turns nothing is left.
LEMMA TurnsIs ==
  ASSUME NEW n \in Nat
  PROVE  Turns(n) \in Nat \ {0} /\ n_shifted(n, Turns(n)) = 0
<1>1. PICK T : T = {k \in 1..(n + 1) : Stops(n, k)} OBVIOUS
<1>2. n + 1 \in T
  <2>1. n + 1 \in Nat /\ 2 * (n + 1) \in Nat OBVIOUS
  <2>2. PICK a \in Nat : a = power2[2 * (n + 1)] BY <2>1, Power2Grows
  <2>3. a > 2 * (n + 1) BY <2>1, <2>2, Power2Grows
  <2>4. a \in Nat \ {0} /\ n < a BY <2>3
  <2>5. a * 0 = 0 OBVIOUS
  <2>6. a * 0 <= n /\ n < a * 0 + a BY <2>4, <2>5
  <2>7. n \div a = 0 BY ONLY <2>4, <2>6, n \in Nat, 0 \in Nat, QuotientIs
  <2> QED BY <1>1, <2>2, <2>7 DEF Stops, n_shifted
<1>3. T \in SUBSET Nat BY <1>1
<1>4. PICK t \in T : \A y \in T : t <= y BY ONLY <1>2, <1>3, Least
<1>5. t \in 1..(n + 1) /\ Stops(n, t) BY <1>1, <1>4
<1>6. \A j \in 1..(t - 1) : ~Stops(n, j)
  <2>1. ASSUME NEW j \in 1..(t - 1), Stops(n, j) PROVE FALSE
    <3>1. j \in T BY <1>1, <1>5, <2>1
    <3> QED BY <1>4, <1>5, <3>1
  <2> QED BY <2>1
<1>7. PICK u : u = Turns(n) OBVIOUS
<1>8. u \in 1..(n + 1) /\ Stops(n, u) BY <1>5, <1>6, <1>7 DEF Turns
<1>9. PICK v \in Int : v = u - 1 BY <1>8
<1>10. v \in Nat /\ u = v + 1 BY <1>8, <1>9
<1>11. n_shifted(n, u) = 0
  <2>1. CASE n_shifted(n, u) = n
    <3>1. n_shifted(n, v + 1) = n_shifted(n, v) \div 4 BY <1>10, Shifting
    <3>2. PICK w \in Nat : w = n_shifted(n, v) BY <1>10, Shifting
    <3>3. w <= n
      <4>1. PICK a \in Nat : a = power2[2 * v] BY <1>10, Power2Grows
      <4>2. a \in Nat \ {0} BY <1>10, <4>1, Power2Grows
      <4>3. a * (n \div a) <= n /\ n \div a \in Nat BY <4>2, Quotient
      <4>4. w = n \div a BY <3>2, <4>1 DEF n_shifted
      <4>5. PICK b \in Nat : a = b + 1 BY <4>2
      <4>6. a * w = w + b * w BY <4>5
      <4>7. b * w \in Nat OBVIOUS
      <4> QED BY <4>3, <4>4, <4>6, <4>7
    <3>4. n = w \div 4 BY <1>10, <2>1, <3>1, <3>2
    <3>5. n = 0 BY <3>3, <3>4
    <3> QED BY <2>1, <3>5
  <2> QED BY <1>8, <2>1 DEF Stops
<1> QED BY <1>7, <1>8, <1>11

-----------------------------------------------------------------------------
\* r is the square root of n, rounded down.
IsRoot(r, n) == r \in Nat /\ r * r <= n /\ n < (r + 1) * (r + 1)

\* A digit of base 4 of n is one of base 2 of the root.
LEMMA NextDigit ==
  ASSUME NEW n \in Nat, NEW r, IsRoot(r, n \div 4)
  PROVE  IsRoot(IF (2 * r + 1) * (2 * r + 1) <= n THEN 2 * r + 1 ELSE (2 * r + 1) - 1, n)
<1>1. PICK q \in Nat : q = n \div 4 OBVIOUS
<1>2. 4 * q <= n /\ n <= 4 * q + 3 BY <1>1
<1>3. r \in Nat /\ r * r <= q /\ q < (r + 1) * (r + 1) BY <1>1 DEF IsRoot
<1>4. PICK s \in Nat : s = r * r BY <1>3
<1>5. /\ (r + 1) * (r + 1) = s + 2 * r + 1
      /\ (2 * r + 1) * (2 * r + 1) = 4 * s + 4 * r + 1
      /\ (2 * r) * (2 * r) = 4 * s
      /\ ((2 * r + 1) + 1) * ((2 * r + 1) + 1) = 4 * s + 8 * r + 4
  BY <1>3, <1>4
<1>6. CASE (2 * r + 1) * (2 * r + 1) <= n
  <2>1. 2 * r + 1 \in Nat BY <1>3
  <2>2. n < ((2 * r + 1) + 1) * ((2 * r + 1) + 1) BY ONLY <1>2, <1>3, <1>4, <1>5, n \in Nat
  <2> QED BY <1>6, <2>1, <2>2 DEF IsRoot
<1>7. CASE ~((2 * r + 1) * (2 * r + 1) <= n)
  <2>1. 2 * r \in Nat /\ (2 * r + 1) - 1 = 2 * r BY <1>3
  <2>2. (2 * r) * (2 * r) <= n BY ONLY <1>2, <1>3, <1>4, <1>5, n \in Nat
  <2>3. n < (2 * r + 1) * (2 * r + 1) BY ONLY <1>3, <1>4, <1>5, <1>7, n \in Nat
  <2> QED BY <1>7, <2>1, <2>2, <2>3 DEF IsRoot
<1> QED BY <1>6, <1>7

\* The loop, digit after digit.
Digits(result, ex, n) == result = [k \in 0..Turns(n) |->
  IF k = 0 THEN 0
  ELSE LET tmp == 2 * result[k - 1] + 1
       IN IF Times(ex, tmp, tmp) <= n_shifted(n, Turns(n) - k) THEN tmp ELSE tmp - 1]

LEMMA DigitsExist ==
  ASSUME NEW ex, NEW n \in Nat
  PROVE  \E result : Digits(result, ex, n) /\ result \in [0..Turns(n) -> Nat]
<1>1. PICK t \in Nat : t = Turns(n) BY TurnsIs
<1>2. PICK step : step = [k \in 1..t |-> [r \in Nat |->
        IF Times(ex, 2 * r + 1, 2 * r + 1) <= n_shifted(n, t - k) THEN 2 * r + 1 ELSE (2 * r + 1) - 1]]
  OBVIOUS
<1>3. step \in [1..t -> [Nat -> Nat]]
  <2>1. \A r \in Nat : 2 * r + 1 \in Nat /\ (2 * r + 1) - 1 \in Nat OBVIOUS
  <2> QED BY <1>2, <2>1
<1>4. PICK f : Solution(f, t, Nat, 0, step)
  <2>1. 0 \in Nat OBVIOUS
  <2> QED BY ONLY <1>1, <1>3, <2>1, Recursion
<1>5. f \in [0..t -> Nat] /\ f[0] = 0 /\ \A k \in 1..t : f[k] = step[k][f[k - 1]] BY <1>4 DEF Solution
<1>6. ASSUME NEW k \in 0..t
      PROVE  f[k] = IF k = 0 THEN 0
                    ELSE LET tmp == 2 * f[k - 1] + 1
                         IN IF Times(ex, tmp, tmp) <= n_shifted(n, t - k) THEN tmp ELSE tmp - 1
  <2>1. CASE k = 0 BY <1>5, <2>1
  <2>2. CASE k # 0
    <3>1. k \in 1..t /\ k - 1 \in 0..t BY <1>1, <2>2
    <3>2. f[k - 1] \in Nat BY <1>5, <3>1
    <3>3. f[k] = step[k][f[k - 1]] BY <1>5, <3>1
    <3> QED BY <1>2, <2>2, <3>1, <3>2, <3>3
  <2> QED BY <2>1, <2>2
<1>7. Digits(f, ex, n) BY <1>1, <1>5, <1>6 DEF Digits
<1> QED BY <1>1, <1>5, <1>7

LEMMA SqrtIs ==
  ASSUME NEW ex, NEW n \in Nat
  PROVE  \E result : /\ Digits(result, ex, n) /\ result \in [0..Turns(n) -> Nat]
                     /\ int_sqrt(ex, n) = result[Turns(n)]
<1>1. PICK f : Digits(f, ex, n) /\ f \in [0..Turns(n) -> Nat] BY DigitsExist
<1>2. PICK g : g = CHOOSE result : Digits(result, ex, n) OBVIOUS
<1>3. Digits(g, ex, n) BY <1>1, <1>2
<1>4. int_sqrt(ex, n) = g[Turns(n)] BY <1>2 DEF int_sqrt, Digits
<1>5. g \in [0..Turns(n) -> Nat]
  <2>1. PICK t \in Nat : t = Turns(n) BY TurnsIs
  <2>2. \A k \in 0..t : g[k] = IF k = 0 THEN 0
             ELSE IF Times(ex, 2 * g[k - 1] + 1, 2 * g[k - 1] + 1) <= n_shifted(n, t - k)
                  THEN 2 * g[k - 1] + 1 ELSE (2 * g[k - 1] + 1) - 1
    BY <1>3, <2>1 DEF Digits
  <2>3. PICK Failing : Failing = {k \in 0..t : g[k] \notin Nat} OBVIOUS
  <2>4. ASSUME NEW k \in Failing, \A j \in Failing : k <= j PROVE FALSE
    <3>1. k \in 0..t /\ g[k] \notin Nat /\ k # 0 BY <2>2, <2>3
    <3>2. k - 1 \in 0..t /\ k - 1 \notin Failing BY <2>1, <2>4, <3>1
    <3>3. PICK r \in Nat : r = g[k - 1] BY <2>3, <3>2
    <3>4. g[k] = 2 * r + 1 \/ g[k] = (2 * r + 1) - 1 BY <2>2, <3>1, <3>3
    <3> QED BY <3>1, <3>4
  <2>5. Failing \in SUBSET Nat BY <2>3
  <2>6. Failing # {} => \E x \in Failing : \A y \in Failing : x <= y BY ONLY <2>5, Least
  <2>7. Failing = {} BY ONLY <2>4, <2>6
  <2>8. \A k \in 0..t : g[k] \in Nat BY <2>3, <2>7
  <2>9. g = [k \in 0..t |-> g[k]] BY <1>3, <2>1 DEF Digits
  <2> QED BY <2>1, <2>8, <2>9
<1> QED BY <1>3, <1>4, <1>5

\* sobel.c:44: int_sqrt is the square root, rounded down, of every number.
THEOREM RootIs == ASSUME NEW n \in Nat PROVE IsRoot(int_sqrt(TRUE, n), n)
<1>1. PICK g : /\ Digits(g, TRUE, n) /\ g \in [0..Turns(n) -> Nat]
               /\ int_sqrt(TRUE, n) = g[Turns(n)]
  BY SqrtIs
<1>2. PICK t \in Nat : t = Turns(n) BY TurnsIs
<1>3. n_shifted(n, t) = 0 BY <1>2, TurnsIs
<1>4. PICK Failing : Failing = {k \in 0..t : ~IsRoot(g[k], n_shifted(n, t - k))} OBVIOUS
<1>5. ASSUME NEW k \in Failing, \A j \in Failing : k <= j PROVE FALSE
  <2>1. k \in 0..t /\ ~IsRoot(g[k], n_shifted(n, t - k)) BY <1>4
  <2>2. g[0] = 0 BY <1>1, <1>2 DEF Digits
  <2>3. k # 0
    <3>1. t - 0 = t BY <1>2
    <3>2. IsRoot(0, 0) BY DEF IsRoot
    <3> QED BY <1>3, <2>1, <2>2, <3>1, <3>2
  <2>4. PICK j \in Int : j = t - k BY <1>2, <2>1
  <2>5. j \in Nat /\ t - (k - 1) = j + 1 BY <1>2, <2>1, <2>4
  <2>6. k - 1 \in 0..t /\ k - 1 \notin Failing BY <1>5, <2>1, <2>3
  <2>7. IsRoot(g[k - 1], n_shifted(n, j + 1)) BY <1>4, <2>5, <2>6
  <2>8. n_shifted(n, j) \in Nat /\ n_shifted(n, j + 1) = n_shifted(n, j) \div 4 BY <2>5, Shifting
  <2>9. PICK r \in Nat : r = g[k - 1] BY <1>1, <1>2, <2>6
  <2>10. 2 * r + 1 \in Int /\ Times(TRUE, 2 * r + 1, 2 * r + 1) = (2 * r + 1) * (2 * r + 1)
    BY TimesIs DEF Times
  <2>11. g[k] = IF Times(TRUE, 2 * r + 1, 2 * r + 1) <= n_shifted(n, j) THEN 2 * r + 1 ELSE (2 * r + 1) - 1
    BY <1>1, <1>2, <2>1, <2>3, <2>4, <2>9 DEF Digits
  <2>12. PICK N \in Nat : N = n_shifted(n, j) BY <2>8
  <2>13. IsRoot(r, N \div 4) BY <2>7, <2>8, <2>9, <2>12
  <2>14. IsRoot(IF (2 * r + 1) * (2 * r + 1) <= N THEN 2 * r + 1 ELSE (2 * r + 1) - 1, N)
    BY ONLY <2>13, N \in Nat, NextDigit
  <2> QED BY <2>1, <2>4, <2>10, <2>11, <2>12, <2>14
<1>6. Failing \in SUBSET Nat BY <1>4
<1>7. Failing # {} => \E x \in Failing : \A y \in Failing : x <= y BY ONLY <1>6, Least
<1>8. Failing = {} BY ONLY <1>5, <1>7
<1>9. t \in 0..t /\ t - t = 0 BY <1>2
<1>10. IsRoot(g[t], n_shifted(n, 0)) BY <1>4, <1>8, <1>9
<1> QED BY <1>1, <1>2, <1>10, Shifting

Image == [1..FM_SIZE -> 0..255]
Weights == [1..WT_SIZE -> -2..2]
Coordinates == 0..(FM_DIM - 1)

LEMMA ImageSize == FM_DIM \in Nat \ {0} /\ FM_SIZE = FM_DIM * FM_DIM /\ FM_SIZE \in Nat \ {0}
<1>1. PICK l \in Nat : l = LOG2_FM_DIM BY SobelAssumption
<1>2. l * 1 = l OBVIOUS
<1>3. PICK d \in Nat \ {0} : d = power2[l] BY Power2Grows
<1>4. FM_DIM = d /\ FM_SIZE = d * d BY <1>1, <1>2, <1>3 DEF FM_DIM, FM_SIZE
<1>5. d * d \in Nat \ {0}
  <2>1. PICK b \in Nat : d = b + 1 OBVIOUS
  <2>2. d * d = b * b + 2 * b + 1 /\ b * b \in Nat BY <2>1
  <2> QED BY <2>2
<1> QED BY <1>4, <1>5

\* Where a pixel is.
LEMMA Position ==
  ASSUME NEW x \in Coordinates, NEW y \in Coordinates
  PROVE  y * FM_DIM + x \in 0..(FM_SIZE - 1) /\ y * FM_DIM + x + 1 \in 1..FM_SIZE
<1>1. PICK d \in Nat \ {0} : d = FM_DIM /\ FM_SIZE = d * d BY ImageSize
<1>2. x \in Nat /\ y \in Nat /\ x < d /\ y < d BY <1>1 DEF Coordinates
<1>3. PICK b \in Nat : d = y + 1 + b BY <1>1, <1>2
<1>4. d * d = y * d + d + b * d
  <2>1. (y + 1 + b) * d = y * d + d + b * d BY <1>2
  <2> QED BY ONLY <1>3, <2>1
<1>5. y * d \in Nat /\ b * d \in Nat BY <1>2
<1>6. PICK P \in Nat : P = y * d BY <1>5
<1>7. PICK R \in Nat : R = b * d BY <1>5
<1>8. P + x >= 0 /\ P + x < d * d /\ P + x + 1 >= 1 /\ P + x + 1 <= d * d BY <1>2, <1>4, <1>6, <1>7
<1>9. d * d \in Nat OBVIOUS
<1> QED BY <1>1, <1>2, <1>6, <1>8, <1>9

\* No two pixels are in the same place.
LEMMA OnePosition ==
  ASSUME NEW x \in Coordinates, NEW y \in Nat, NEW u \in Coordinates, NEW v \in Nat,
         y * FM_DIM + x = v * FM_DIM + u
  PROVE  x = u /\ y = v
<1>1. PICK d \in Nat \ {0} : d = FM_DIM BY ImageSize
<1>2. x \in Nat /\ u \in Nat /\ x < d /\ u < d BY <1>1 DEF Coordinates
<1>3. PICK n \in Nat : n = y * d + x BY <1>2
<1>4. d * y = y * d /\ d * v = v * d OBVIOUS
<1>5. y * d \in Nat /\ v * d \in Nat OBVIOUS
<1>6. d * y <= n /\ n < d * y + d /\ d * v <= n /\ n < d * v + d BY <1>1, <1>2, <1>3, <1>4, <1>5
<1>7. n \div d = y BY ONLY <1>6, n \in Nat, y \in Nat, d \in Nat \ {0}, QuotientIs
<1>8. n \div d = v BY ONLY <1>6, n \in Nat, v \in Nat, d \in Nat \ {0}, QuotientIs
<1>9. y = v BY <1>7, <1>8
<1> QED BY <1>1, <1>2, <1>3, <1>5, <1>9

\* What is at a place, which may be outside of the image.
PixelAt(image, x, y) ==
  IF x \in Coordinates /\ y \in Coordinates THEN image[y * FM_DIM + x + 1] ELSE 0

LEMMA PixelIs == ASSUME NEW image \in Image, NEW x \in Int, NEW y \in Int PROVE PixelAt(image, x, y) \in 0..255
<1>1. CASE x \in Coordinates /\ y \in Coordinates
  <2>1. y * FM_DIM + x + 1 \in 1..FM_SIZE BY <1>1, Position
  <2>2. image[y * FM_DIM + x + 1] \in 0..255 BY <2>1 DEF Image
  <2> QED BY <1>1, <2>2 DEF PixelAt
<1> QED BY <1>1 DEF PixelAt

\* The ranges of a product and of a sum of nine.
LEMMA Ranges ==
  /\ \A p \in Products : p \in Int /\ -1024 <= p /\ p <= 1024
  /\ \A p \in Int : -1024 <= p /\ p <= 1024 => p \in Products
  /\ \A g \in Gradients : g \in Int /\ -9216 <= g /\ g <= 9216
  /\ \A g \in Int : -9216 <= g /\ g <= 9216 => g \in Gradients
<1>1. \A p \in Products : p \in Int /\ -1024 <= p /\ p <= 1024 BY DEF Products
<1>2. \A p \in Int : -1024 <= p /\ p <= 1024 => p \in Products BY DEF Products
<1>3. \A g \in Gradients : g \in Int /\ -9216 <= g /\ g <= 9216 BY DEF Gradients, WT_SIZE
<1>4. ASSUME NEW g \in Int, -9216 <= g, g <= 9216 PROVE g \in Gradients
  <2>1. PICK m \in Nat : m = WT_SIZE * 1024 BY DEF WT_SIZE
  <2>2. m = 9216 BY <2>1 DEF WT_SIZE
  <2>3. -m <= g /\ g <= m BY <1>4, <2>2
  <2>4. g \in -m..m BY ONLY <2>3, g \in Int, m \in Nat
  <2> QED BY <2>1, <2>4 DEF Gradients
<1> QED BY <1>1, <1>2, <1>3, <1>4

\* Both multiplications are numbers, and nothing is added for nothing.
LEMMA ProductIs ==
  ASSUME NEW ex, NEW d \in 0..255, NEW w \in -2..2
  PROVE  Times(ex, d, w) \in Products /\ Times(ex, 0, w) = 0
<1>1. times(d, w) = d * w /\ times(0, w) = 0 * w
  <2>1. d \in Int /\ w \in Int /\ 0 \in Int OBVIOUS
  <2> QED BY ONLY <2>1, TimesIs
<1>2. d * w \in Products /\ 0 * w = 0
  <2>1. w = -2 \/ w = -1 \/ w = 0 \/ w = 1 \/ w = 2 OBVIOUS
  <2>2. d * (-2) = -2 * d /\ d * (-1) = -d /\ d * 0 = 0 /\ d * 1 = d /\ d * 2 = 2 * d OBVIOUS
  <2>3. d * w \in Int /\ -1024 <= d * w /\ d * w <= 1024 BY <2>1, <2>2
  <2> QED BY <2>3, Ranges
<1>3. mula(d, w) \in Products /\ mula(0, w) = 0 BY SobelAssumption
<1> QED BY <1>1, <1>2, <1>3 DEF Times

Weighted(ex, image, x, y, w) == Times(ex, PixelAt(image, x, y), w)

LEMMA WeightedIs ==
  ASSUME NEW ex, NEW image \in Image, NEW x \in Int, NEW y \in Int, NEW w \in -2..2
  PROVE  /\ Weighted(ex, image, x, y, w) \in Products
         /\ Weighted(ex, image, x, y, w) =
              IF x \in Coordinates /\ y \in Coordinates THEN Times(ex, image[y * FM_DIM + x + 1], w) ELSE 0
<1>1. PICK p \in 0..255 : p = PixelAt(image, x, y) BY PixelIs
<1>2. Times(ex, p, w) \in Products /\ Times(ex, 0, w) = 0 BY ProductIs
<1> QED BY <1>1, <1>2 DEF Weighted, PixelAt

-----------------------------------------------------------------------------
\* The inner loop.
TapState == [sum : Int, n : Nat, m : Nat]

LEMMA TapIs ==
  ASSUME NEW ex, NEW image \in Image, NEW wt \in Weights, NEW x \in Int, NEW y \in Int,
         NEW s \in TapState, NEW k \in 1..WT_SIZE
  PROVE  /\ Tap(ex, image, wt, x, y, s, k) \in TapState
         /\ Tap(ex, image, wt, x, y, s, k) =
              [sum |-> s.sum + Weighted(ex, image, x - 1 + s.n, y - 1 + s.m, wt[k]),
               n |-> IF s.n = 2 THEN 0 ELSE s.n + 1,
               m |-> IF s.n = 2 THEN s.m + 1 ELSE s.m]
<1>1. PICK a \in Int, n \in Nat, m \in Nat : s.sum = a /\ s.n = n /\ s.m = m BY DEF TapState
<1>2. PICK w \in -2..2 : w = wt[k] BY DEF Weights
<1>3. PICK u \in Int : u = x - 1 + n OBVIOUS
<1>4. PICK v \in Int : v = y - 1 + m OBVIOUS
<1>5. WT_DIM = 3 /\ 3 \div 2 = 1 BY DEF WT_DIM
<1>6. PICK b \in Products : b = Weighted(ex, image, u, v, w) BY WeightedIs
<1>7. u \in Coordinates /\ v \in Coordinates <=> ~(u < 0 \/ u >= FM_DIM \/ v < 0 \/ v >= FM_DIM)
  <2>1. FM_DIM \in Nat BY ImageSize
  <2> QED BY <2>1 DEF Coordinates
<1>8. b = Times(ex, IF ~(u < 0 \/ u >= FM_DIM \/ v < 0 \/ v >= FM_DIM)
                    THEN image[v * FM_DIM + u + 1] ELSE 0, w)
  BY <1>6, <1>7 DEF Weighted, PixelAt
<1>9. n + 1 = 3 <=> n = 2 OBVIOUS
<1>10. Tap(ex, image, wt, x, y, s, k) =
         [sum |-> a + b, n |-> IF n = 2 THEN 0 ELSE n + 1, m |-> IF n = 2 THEN m + 1 ELSE m]
  BY <1>1, <1>2, <1>3, <1>4, <1>5, <1>8, <1>9 DEF Tap
<1>11. b \in Int BY Ranges
<1>12. a + b \in Int /\ n + 1 \in Nat /\ m + 1 \in Nat BY <1>11
<1> QED BY <1>1, <1>2, <1>3, <1>4, <1>6, <1>10, <1>12 DEF TapState

Taps(tap, ex, image, wt, x, y) == tap = [k \in 0..WT_SIZE |->
  IF k = 0 THEN [sum |-> 0, n |-> 0, m |-> 0] ELSE Tap(ex, image, wt, x, y, tap[k - 1], k)]

LEMMA TapsExist ==
  ASSUME NEW ex, NEW image \in Image, NEW wt \in Weights, NEW x \in Int, NEW y \in Int
  PROVE  \E tap : Taps(tap, ex, image, wt, x, y)
<1>1. PICK step : step = [k \in 1..WT_SIZE |-> [s \in TapState |-> Tap(ex, image, wt, x, y, s, k)]] OBVIOUS
<1>2. step \in [1..WT_SIZE -> [TapState -> TapState]] BY <1>1, TapIs
<1>3. PICK z : z = [sum |-> 0, n |-> 0, m |-> 0] OBVIOUS
<1>4. z \in TapState BY <1>3 DEF TapState
<1>5. WT_SIZE \in Nat BY DEF WT_SIZE
<1>6. PICK f : Solution(f, WT_SIZE, TapState, z, step) BY ONLY <1>2, <1>4, <1>5, Recursion
<1>7. f \in [0..WT_SIZE -> TapState] /\ f[0] = z /\ \A k \in 1..WT_SIZE : f[k] = step[k][f[k - 1]]
  BY <1>6 DEF Solution
<1>8. ASSUME NEW k \in 0..WT_SIZE
      PROVE  f[k] = IF k = 0 THEN [sum |-> 0, n |-> 0, m |-> 0] ELSE Tap(ex, image, wt, x, y, f[k - 1], k)
  <2>1. CASE k = 0 BY <1>3, <1>7, <2>1
  <2>2. CASE k # 0
    <3>1. k \in 1..WT_SIZE /\ k - 1 \in 0..WT_SIZE BY <1>5, <2>2
    <3>2. f[k - 1] \in TapState /\ f[k] = step[k][f[k - 1]] BY <1>7, <3>1
    <3> QED BY <1>1, <2>2, <3>1, <3>2
  <2> QED BY <2>1, <2>2
<1> QED BY <1>7, <1>8 DEF Taps

\* The sum that the inner loop makes, with the weights row by row.
Gradient(ex, image, wt, x, y) ==
  Weighted(ex, image, x - 1, y - 1, wt[1]) + Weighted(ex, image, x, y - 1, wt[2])
  + Weighted(ex, image, x + 1, y - 1, wt[3]) + Weighted(ex, image, x - 1, y, wt[4])
  + Weighted(ex, image, x, y, wt[5]) + Weighted(ex, image, x + 1, y, wt[6])
  + Weighted(ex, image, x - 1, y + 1, wt[7]) + Weighted(ex, image, x, y + 1, wt[8])
  + Weighted(ex, image, x + 1, y + 1, wt[9])

\* The state after k turns.
TapAt(s, a, n, m) == s = [sum |-> a, n |-> n, m |-> m]

LEMMA TapNext ==
  ASSUME NEW ex, NEW image \in Image, NEW wt \in Weights, NEW x \in Int, NEW y \in Int,
         NEW tap, Taps(tap, ex, image, wt, x, y), NEW k \in 1..WT_SIZE,
         NEW a \in Int, NEW n \in Nat, NEW m \in Nat, NEW u \in Int, NEW v \in Int,
         TapAt(tap[k - 1], a, n, m), u = x - 1 + n, v = y - 1 + m
  PROVE  /\ a + Weighted(ex, image, u, v, wt[k]) \in Int
         /\ TapAt(tap[k], a + Weighted(ex, image, u, v, wt[k]),
                  IF n = 2 THEN 0 ELSE n + 1, IF n = 2 THEN m + 1 ELSE m)
<1>1. tap[k - 1] \in TapState BY DEF TapAt, TapState
<1>2. k # 0 /\ k \in 0..WT_SIZE BY DEF WT_SIZE
<1>3. tap[k] = Tap(ex, image, wt, x, y, tap[k - 1], k) BY <1>2 DEF Taps
<1>4. PICK s \in TapState : s = tap[k - 1] BY <1>1
<1>5. s.sum = a /\ s.n = n /\ s.m = m BY <1>4 DEF TapAt
<1>6. Tap(ex, image, wt, x, y, s, k) =
        [sum |-> s.sum + Weighted(ex, image, x - 1 + s.n, y - 1 + s.m, wt[k]),
         n |-> IF s.n = 2 THEN 0 ELSE s.n + 1, m |-> IF s.n = 2 THEN s.m + 1 ELSE s.m]
  BY TapIs
<1>7. wt[k] \in -2..2 BY DEF Weights
<1>8. Weighted(ex, image, u, v, wt[k]) \in Products BY <1>7, WeightedIs
<1>9. Weighted(ex, image, u, v, wt[k]) \in Int BY <1>8, Ranges
<1> QED BY <1>3, <1>4, <1>5, <1>6, <1>9 DEF TapAt

LEMMA TapsSum ==
  ASSUME NEW ex, NEW image \in Image, NEW wt \in Weights, NEW x \in Int, NEW y \in Int,
         NEW tap, Taps(tap, ex, image, wt, x, y)
  PROVE  Gradient(ex, image, wt, x, y) \in Gradients /\ tap[WT_SIZE].sum = Gradient(ex, image, wt, x, y)
<1> DEFINE W(u, v, k) == Weighted(ex, image, u, v, wt[k])
<1>0. WT_SIZE = 9 BY DEF WT_SIZE
<1>1. TapAt(tap[0], 0, 0, 0) BY <1>0 DEF Taps, TapAt
<1>a. ASSUME NEW k \in 1..9, NEW j \in 0..8, j = k - 1,
             NEW a \in Int, NEW n \in Nat, NEW m \in Nat, NEW u \in Int, NEW v \in Int,
             TapAt(tap[j], a, n, m), u = x - 1 + n, v = y - 1 + m
      PROVE  /\ a + W(u, v, k) \in Int
             /\ TapAt(tap[k], a + W(u, v, k), IF n = 2 THEN 0 ELSE n + 1, IF n = 2 THEN m + 1 ELSE m)
  <2>1. k \in 1..WT_SIZE BY <1>0
  <2>2. TapAt(tap[k - 1], a, n, m) BY <1>a
  <2> QED BY ONLY <1>a, <2>1, <2>2, image \in Image, wt \in Weights, x \in Int, y \in Int,
             Taps(tap, ex, image, wt, x, y), TapNext
<1> HIDE DEF W
<1>2. PICK a1 \in Int : a1 = 0 + W(x - 1, y - 1, 1) /\ TapAt(tap[1], a1, 1, 0)
  <2>1. x - 1 \in Int /\ y - 1 \in Int /\ x - 1 = x - 1 + 0 /\ y - 1 = y - 1 + 0 OBVIOUS
  <2>2. 0 + W(x - 1, y - 1, 1) \in Int /\ TapAt(tap[1], 0 + W(x - 1, y - 1, 1), 1, 0) BY <1>1, <1>a, <2>1
  <2> QED BY <2>2
<1>3. PICK a2 \in Int : a2 = a1 + W(x, y - 1, 2) /\ TapAt(tap[2], a2, 2, 0)
  <2>1. x = x - 1 + 1 /\ y - 1 \in Int /\ y - 1 = y - 1 + 0 OBVIOUS
  <2>2. a1 + W(x, y - 1, 2) \in Int /\ TapAt(tap[2], a1 + W(x, y - 1, 2), 2, 0) BY <1>2, <1>a, <2>1
  <2> QED BY <2>2
<1>4. PICK a3 \in Int : a3 = a2 + W(x + 1, y - 1, 3) /\ TapAt(tap[3], a3, 0, 1)
  <2>1. x + 1 \in Int /\ x + 1 = x - 1 + 2 /\ y - 1 \in Int /\ y - 1 = y - 1 + 0 OBVIOUS
  <2>2. a2 + W(x + 1, y - 1, 3) \in Int /\ TapAt(tap[3], a2 + W(x + 1, y - 1, 3), 0, 1) BY <1>3, <1>a, <2>1
  <2> QED BY <2>2
<1>5. PICK a4 \in Int : a4 = a3 + W(x - 1, y, 4) /\ TapAt(tap[4], a4, 1, 1)
  <2>1. x - 1 \in Int /\ x - 1 = x - 1 + 0 /\ y = y - 1 + 1 OBVIOUS
  <2>2. a3 + W(x - 1, y, 4) \in Int /\ TapAt(tap[4], a3 + W(x - 1, y, 4), 1, 1) BY <1>4, <1>a, <2>1
  <2> QED BY <2>2
<1>6. PICK a5 \in Int : a5 = a4 + W(x, y, 5) /\ TapAt(tap[5], a5, 2, 1)
  <2>1. x = x - 1 + 1 /\ y = y - 1 + 1 OBVIOUS
  <2>2. a4 + W(x, y, 5) \in Int /\ TapAt(tap[5], a4 + W(x, y, 5), 2, 1) BY <1>5, <1>a, <2>1
  <2> QED BY <2>2
<1>7. PICK a6 \in Int : a6 = a5 + W(x + 1, y, 6) /\ TapAt(tap[6], a6, 0, 2)
  <2>1. x + 1 \in Int /\ x + 1 = x - 1 + 2 /\ y = y - 1 + 1 OBVIOUS
  <2>2. a5 + W(x + 1, y, 6) \in Int /\ TapAt(tap[6], a5 + W(x + 1, y, 6), 0, 2) BY <1>6, <1>a, <2>1
  <2> QED BY <2>2
<1>8. PICK a7 \in Int : a7 = a6 + W(x - 1, y + 1, 7) /\ TapAt(tap[7], a7, 1, 2)
  <2>1. x - 1 \in Int /\ x - 1 = x - 1 + 0 /\ y + 1 \in Int /\ y + 1 = y - 1 + 2 OBVIOUS
  <2>2. a6 + W(x - 1, y + 1, 7) \in Int /\ TapAt(tap[7], a6 + W(x - 1, y + 1, 7), 1, 2) BY <1>7, <1>a, <2>1
  <2> QED BY <2>2
<1>9. PICK a8 \in Int : a8 = a7 + W(x, y + 1, 8) /\ TapAt(tap[8], a8, 2, 2)
  <2>1. x = x - 1 + 1 /\ y + 1 \in Int /\ y + 1 = y - 1 + 2 OBVIOUS
  <2>2. a7 + W(x, y + 1, 8) \in Int /\ TapAt(tap[8], a7 + W(x, y + 1, 8), 2, 2) BY <1>8, <1>a, <2>1
  <2> QED BY <2>2
<1>10. PICK a9 \in Int : a9 = a8 + W(x + 1, y + 1, 9) /\ TapAt(tap[9], a9, 0, 3)
  <2>1. x + 1 \in Int /\ x + 1 = x - 1 + 2 /\ y + 1 \in Int /\ y + 1 = y - 1 + 2 OBVIOUS
  <2>2. a8 + W(x + 1, y + 1, 9) \in Int /\ TapAt(tap[9], a8 + W(x + 1, y + 1, 9), 0, 3) BY <1>9, <1>a, <2>1
  <2> QED BY <2>2
<1>11. \A k \in 1..9 : wt[k] \in -2..2 BY <1>0 DEF Weights
<1>12. \A u, v \in Int, k \in 1..9 : W(u, v, k) \in Products BY <1>11, WeightedIs DEF W
<1>13. x - 1 \in Int /\ x + 1 \in Int /\ y - 1 \in Int /\ y + 1 \in Int OBVIOUS
<1>14. PICK b1 \in Products : b1 = W(x - 1, y - 1, 1) BY <1>12, <1>13
<1>15. PICK b2 \in Products : b2 = W(x, y - 1, 2) BY <1>12, <1>13
<1>16. PICK b3 \in Products : b3 = W(x + 1, y - 1, 3) BY <1>12, <1>13
<1>17. PICK b4 \in Products : b4 = W(x - 1, y, 4) BY <1>12, <1>13
<1>18. PICK b5 \in Products : b5 = W(x, y, 5) BY <1>12
<1>19. PICK b6 \in Products : b6 = W(x + 1, y, 6) BY <1>12, <1>13
<1>20. PICK b7 \in Products : b7 = W(x - 1, y + 1, 7) BY <1>12, <1>13
<1>21. PICK b8 \in Products : b8 = W(x, y + 1, 8) BY <1>12, <1>13
<1>22. PICK b9 \in Products : b9 = W(x + 1, y + 1, 9) BY <1>12, <1>13
<1>23. /\ a1 = b1 /\ a2 = a1 + b2 /\ a3 = a2 + b3 /\ a4 = a3 + b4 /\ a5 = a4 + b5
       /\ a6 = a5 + b6 /\ a7 = a6 + b7 /\ a8 = a7 + b8 /\ a9 = a8 + b9
  <2>1. b1 \in Int BY Ranges
  <2>2. a1 = 0 + b1 BY <1>2, <1>14
  <2> QED BY <1>3, <1>4, <1>5, <1>6, <1>7, <1>8, <1>9, <1>10, <2>1, <2>2,
             <1>15, <1>16, <1>17, <1>18, <1>19, <1>20, <1>21, <1>22
<1>24. a9 = b1 + b2 + b3 + b4 + b5 + b6 + b7 + b8 + b9 BY ONLY <1>23
<1>25. a9 = Gradient(ex, image, wt, x, y)
  BY <1>14, <1>15, <1>16, <1>17, <1>18, <1>19, <1>20, <1>21, <1>22, <1>24 DEF Gradient, W
<1>26. a9 \in Gradients
  <2>1. /\ b1 \in Int /\ b2 \in Int /\ b3 \in Int /\ b4 \in Int /\ b5 \in Int
        /\ b6 \in Int /\ b7 \in Int /\ b8 \in Int /\ b9 \in Int
    BY Ranges
  <2>2. /\ -1024 <= b1 /\ b1 <= 1024 /\ -1024 <= b2 /\ b2 <= 1024 /\ -1024 <= b3 /\ b3 <= 1024
        /\ -1024 <= b4 /\ b4 <= 1024 /\ -1024 <= b5 /\ b5 <= 1024 /\ -1024 <= b6 /\ b6 <= 1024
        /\ -1024 <= b7 /\ b7 <= 1024 /\ -1024 <= b8 /\ b8 <= 1024 /\ -1024 <= b9 /\ b9 <= 1024
    BY Ranges
  <2>3. a9 \in Int /\ -9216 <= a9 /\ a9 <= 9216 BY ONLY <1>24, <2>1, <2>2
  <2> QED BY <2>3, Ranges
<1>27. tap[9].sum = a9 BY <1>10 DEF TapAt
<1> QED BY <1>0, <1>25, <1>26, <1>27

\* The outer loop.
PixelState == [ofm : Seq(Gradients), x : Nat, y : Nat]

LEMMA PixelNext ==
  ASSUME NEW ex, NEW image \in Image, NEW wt \in Weights, NEW s \in PixelState
  PROVE  /\ Pixel(ex, image, wt, s) \in PixelState
         /\ Gradient(ex, image, wt, s.x, s.y) \in Gradients
         /\ Pixel(ex, image, wt, s) =
              [ofm |-> Append(s.ofm, Gradient(ex, image, wt, s.x, s.y)),
               x |-> IF s.x + 1 = FM_DIM THEN 0 ELSE s.x + 1,
               y |-> IF s.x + 1 = FM_DIM THEN s.y + 1 ELSE s.y]
<1>1. PICK x \in Nat, y \in Nat : s.x = x /\ s.y = y BY DEF PixelState
<1>2. PICK tap : tap = CHOOSE r : Taps(r, ex, image, wt, x, y) OBVIOUS
<1>3. x \in Int /\ y \in Int OBVIOUS
<1>4. Taps(tap, ex, image, wt, x, y) BY <1>2, <1>3, TapsExist
<1>5. Gradient(ex, image, wt, x, y) \in Gradients /\ tap[WT_SIZE].sum = Gradient(ex, image, wt, x, y)
  BY ONLY <1>3, <1>4, image \in Image, wt \in Weights, TapsSum
<1>6. Pixel(ex, image, wt, s) =
        [ofm |-> Append(s.ofm, tap[WT_SIZE].sum),
         x |-> IF x + 1 = FM_DIM THEN 0 ELSE x + 1, y |-> IF x + 1 = FM_DIM THEN y + 1 ELSE y]
  BY <1>1, <1>2 DEF Pixel, Taps
<1>7. s.ofm \in Seq(Gradients) BY DEF PixelState
<1>8. Append(s.ofm, tap[WT_SIZE].sum) \in Seq(Gradients) BY <1>5, <1>7
<1> QED BY <1>1, <1>5, <1>6, <1>8 DEF PixelState

Pixels(fm, ex, image, wt) == fm = [k \in 0..FM_SIZE |->
  IF k = 0 THEN [ofm |-> <<>>, x |-> 0, y |-> 0] ELSE Pixel(ex, image, wt, fm[k - 1])]

LEMMA PixelsExist ==
  ASSUME NEW ex, NEW image \in Image, NEW wt \in Weights
  PROVE  \E fm : Pixels(fm, ex, image, wt)
<1>1. PICK step : step = [k \in 1..FM_SIZE |-> [s \in PixelState |-> Pixel(ex, image, wt, s)]] OBVIOUS
<1>2. step \in [1..FM_SIZE -> [PixelState -> PixelState]] BY <1>1, PixelNext
<1>3. PICK z : z = [ofm |-> <<>>, x |-> 0, y |-> 0] OBVIOUS
<1>4. z \in PixelState BY <1>3 DEF PixelState
<1>5. FM_SIZE \in Nat BY ImageSize
<1>6. PICK f : Solution(f, FM_SIZE, PixelState, z, step) BY ONLY <1>2, <1>4, <1>5, Recursion
<1>7. f \in [0..FM_SIZE -> PixelState] /\ f[0] = z /\ \A k \in 1..FM_SIZE : f[k] = step[k][f[k - 1]]
  BY <1>6 DEF Solution
<1>8. ASSUME NEW k \in 0..FM_SIZE
      PROVE  f[k] = IF k = 0 THEN [ofm |-> <<>>, x |-> 0, y |-> 0] ELSE Pixel(ex, image, wt, f[k - 1])
  <2>1. CASE k = 0 BY <1>3, <1>7, <2>1
  <2>2. CASE k # 0
    <3>1. k \in 1..FM_SIZE /\ k - 1 \in 0..FM_SIZE BY <1>5, <2>2
    <3>2. f[k - 1] \in PixelState /\ f[k] = step[k][f[k - 1]] BY <1>7, <3>1
    <3> QED BY <1>1, <2>2, <3>1, <3>2
  <2> QED BY <2>1, <2>2
<1> QED BY <1>7, <1>8 DEF Pixels

\* What the output is in front of place k.
Outputs(out, k, ex, image, wt) ==
  \A x \in Coordinates, y \in Nat :
    y * FM_DIM + x < k => out[y * FM_DIM + x + 1] = Gradient(ex, image, wt, x, y)
Reached(s, k, ex, image, wt) ==
  /\ s \in PixelState /\ Len(s.ofm) = k /\ s.x \in Coordinates /\ s.y * FM_DIM + s.x = k
  /\ Outputs(s.ofm, k, ex, image, wt)

LEMMA ReachedNext ==
  ASSUME NEW ex, NEW image \in Image, NEW wt \in Weights, NEW k \in Nat, NEW s, Reached(s, k, ex, image, wt)
  PROVE  Reached(Pixel(ex, image, wt, s), k + 1, ex, image, wt)
<1>1. s \in PixelState BY DEF Reached
<1>2. PICK o \in Seq(Gradients), x \in Nat, y \in Nat : s.ofm = o /\ s.x = x /\ s.y = y
  BY <1>1 DEF PixelState
<1>3. Len(o) = k /\ x \in Coordinates /\ y * FM_DIM + x = k /\ Outputs(o, k, ex, image, wt)
  BY <1>2 DEF Reached
<1>4. PICK g \in Gradients : g = Gradient(ex, image, wt, x, y) BY <1>1, <1>2, PixelNext
<1>5. PICK d \in Nat \ {0} : d = FM_DIM BY ImageSize
<1>6. PICK t : t = Pixel(ex, image, wt, s) OBVIOUS
<1>7. t \in PixelState /\ t = [ofm |-> Append(o, g), x |-> IF x + 1 = d THEN 0 ELSE x + 1,
                               y |-> IF x + 1 = d THEN y + 1 ELSE y]
  BY <1>1, <1>2, <1>4, <1>5, <1>6, PixelNext
<1>8. t.ofm = Append(o, g) /\ t.x = (IF x + 1 = d THEN 0 ELSE x + 1) /\ t.y = (IF x + 1 = d THEN y + 1 ELSE y)
  BY <1>7
<1>9. Len(t.ofm) = k + 1 BY <1>2, <1>3, <1>8
<1>10. x < d BY <1>3, <1>5 DEF Coordinates
<1>11. t.x \in Coordinates BY <1>5, <1>8, <1>10 DEF Coordinates
<1>12. t.y * d + t.x = k + 1
  <2>1. (y + 1) * d = y * d + d OBVIOUS
  <2>2. y * d \in Nat OBVIOUS
  <2> QED BY <1>3, <1>5, <1>8, <2>1, <2>2
<1>13. ASSUME NEW u \in Coordinates, NEW v \in Nat, v * FM_DIM + u < k + 1
       PROVE  t.ofm[v * FM_DIM + u + 1] = Gradient(ex, image, wt, u, v)
  <2>0. u \in Nat BY <1>5 DEF Coordinates
  <2>1. v * d \in Nat OBVIOUS
  <2>2. PICK p \in Nat : p = v * FM_DIM + u BY <1>5, <2>0, <2>1
  <2>3. CASE p < k
    <3>1. o[p + 1] = Gradient(ex, image, wt, u, v) BY <1>3, <2>2, <2>3 DEF Outputs
    <3>2. p + 1 \in 1..Len(o) BY <1>3, <2>3
    <3>3. Append(o, g)[p + 1] = o[p + 1] BY <3>2
    <3> QED BY <1>8, <2>2, <3>1, <3>3
  <2>4. CASE p = k
    <3>1. v * FM_DIM + u = y * FM_DIM + x BY <1>3, <2>2, <2>4
    <3>2. u = x /\ v = y BY ONLY <1>3, <3>1, u \in Coordinates, v \in Nat, y \in Nat, OnePosition
    <3>3. Append(o, g)[k + 1] = g BY <1>3
    <3> QED BY <1>4, <1>8, <2>2, <2>4, <3>2, <3>3
  <2>5. p < k \/ p = k BY <1>13, <2>2
  <2> QED BY <2>3, <2>4, <2>5
<1> QED BY <1>5, <1>6, <1>7, <1>9, <1>11, <1>12, <1>13 DEF Reached, Outputs

\* What a convolution makes of an image.
Convolved(out, ex, image, wt) ==
  /\ out \in [1..FM_SIZE -> Gradients]
  /\ \A x, y \in Coordinates :
       /\ Gradient(ex, image, wt, x, y) \in Gradients
       /\ out[y * FM_DIM + x + 1] = Gradient(ex, image, wt, x, y)

LEMMA ConvolutionIs ==
  ASSUME NEW ex, NEW image \in Image, NEW wt \in Weights
  PROVE  Convolved(conv2D_sw(ex, image, wt), ex, image, wt)
<1>1. PICK fm : fm = CHOOSE r : Pixels(r, ex, image, wt) OBVIOUS
<1>2. Pixels(fm, ex, image, wt) BY <1>1, PixelsExist
<1>3. conv2D_sw(ex, image, wt) = fm[FM_SIZE].ofm BY <1>1 DEF conv2D_sw, Pixels
<1>4. PICK n \in Nat \ {0} : n = FM_SIZE BY ImageSize
<1>5. PICK Failing : Failing = {k \in 0..n : ~Reached(fm[k], k, ex, image, wt)} OBVIOUS
<1>6. ASSUME NEW k \in Failing, \A j \in Failing : k <= j PROVE FALSE
  <2>1. k \in 0..n /\ ~Reached(fm[k], k, ex, image, wt) BY <1>5
  <2>2. CASE k = 0
    <3>1. fm[0] = [ofm |-> <<>>, x |-> 0, y |-> 0] BY <1>2, <1>4 DEF Pixels
    <3>2. PICK d \in Nat \ {0} : d = FM_DIM BY ImageSize
    <3>3. fm[0] \in PixelState /\ Len(fm[0].ofm) = 0 BY <3>1 DEF PixelState
    <3>4. 0 * d + 0 = 0 /\ 0 \in Coordinates BY <3>2 DEF Coordinates
    <3>5. ASSUME NEW x \in Coordinates, NEW y \in Nat PROVE ~(y * FM_DIM + x < 0)
      <4>1. y * d \in Nat /\ x \in Nat BY <3>2 DEF Coordinates
      <4> QED BY <3>2, <4>1
    <3>6. Reached(fm[0], 0, ex, image, wt) BY <3>1, <3>2, <3>3, <3>4, <3>5 DEF Reached, Outputs
    <3> QED BY <2>1, <2>2, <3>6
  <2>3. CASE k # 0
    <3>1. PICK j \in Int : j = k - 1 BY <2>1
    <3>2. j \in Nat /\ j \in 0..n /\ k = j + 1 /\ j \notin Failing BY <1>6, <2>1, <2>3, <3>1
    <3>3. PICK s : s = fm[j] OBVIOUS
    <3>4. Reached(s, j, ex, image, wt) BY <1>5, <3>2, <3>3
    <3>5. Reached(Pixel(ex, image, wt, s), j + 1, ex, image, wt)
      BY ONLY <3>2, <3>4, image \in Image, wt \in Weights, ReachedNext
    <3>6. fm[k] = Pixel(ex, image, wt, s) BY <1>2, <1>4, <2>1, <2>3, <3>1, <3>3 DEF Pixels
    <3> QED BY <2>1, <3>2, <3>5, <3>6
  <2> QED BY <2>2, <2>3
<1>7. Failing \in SUBSET Nat BY <1>5
<1>8. Failing # {} => \E x \in Failing : \A y \in Failing : x <= y BY ONLY <1>7, Least
<1>9. Failing = {} BY ONLY <1>6, <1>8
<1>10. n \in 0..n BY <1>4
<1>11. Reached(fm[n], n, ex, image, wt) BY <1>5, <1>9, <1>10
<1>12. PICK o : o = fm[n].ofm OBVIOUS
<1>13. o \in Seq(Gradients) /\ Len(o) = n /\ Outputs(o, n, ex, image, wt)
  BY <1>11, <1>12 DEF Reached, PixelState
<1>14. o \in [1..n -> Gradients] BY <1>13
<1>15. ASSUME NEW x \in Coordinates, NEW y \in Coordinates
       PROVE  /\ Gradient(ex, image, wt, x, y) \in Gradients
              /\ o[y * FM_DIM + x + 1] = Gradient(ex, image, wt, x, y)
  <2>1. y * FM_DIM + x \in 0..(n - 1) BY <1>4, Position
  <2>2. y \in Nat /\ x \in Nat BY ImageSize DEF Coordinates
  <2>3. y * FM_DIM + x < n BY <1>4, <2>1
  <2>4. o[y * FM_DIM + x + 1] = Gradient(ex, image, wt, x, y) BY <1>13, <2>2, <2>3 DEF Outputs
  <2>5. PICK s : s = [ofm |-> <<>>, x |-> x, y |-> y] OBVIOUS
  <2>6. s \in PixelState /\ s.x = x /\ s.y = y BY <2>2, <2>5 DEF PixelState
  <2>7. Gradient(ex, image, wt, s.x, s.y) \in Gradients BY <2>6, PixelNext
  <2> QED BY <2>4, <2>6, <2>7
<1> QED BY <1>3, <1>4, <1>12, <1>14, <1>15 DEF Convolved

-----------------------------------------------------------------------------
\* The reference.
LEMMA WeightsAre ==
  /\ wt_x \in Weights /\ wt_y \in Weights
  /\ wt_x[1] = -1 /\ wt_x[2] = 0 /\ wt_x[3] = 1 /\ wt_x[4] = -2 /\ wt_x[5] = 0
  /\ wt_x[6] = 2 /\ wt_x[7] = -1 /\ wt_x[8] = 0 /\ wt_x[9] = 1
  /\ wt_y[1] = 1 /\ wt_y[2] = 2 /\ wt_y[3] = 1 /\ wt_y[4] = 0 /\ wt_y[5] = 0
  /\ wt_y[6] = 0 /\ wt_y[7] = -1 /\ wt_y[8] = -2 /\ wt_y[9] = -1
<1>1. WT_SIZE = 9 BY DEF WT_SIZE
<1>2. wt_x \in Seq(-2..2) /\ Len(wt_x) = 9 BY DEF wt_x
<1>3. wt_y \in Seq(-2..2) /\ Len(wt_y) = 9 BY DEF wt_y
<1>4. wt_x \in Weights /\ wt_y \in Weights
  <2>1. \A s \in Seq(-2..2) : s \in [1..Len(s) -> -2..2] OBVIOUS
  <2>2. wt_x \in [1..9 -> -2..2] /\ wt_y \in [1..9 -> -2..2] BY <1>2, <1>3, <2>1
  <2> QED BY <1>1, <2>2 DEF Weights
<1>5. /\ wt_x[1] = -1 /\ wt_x[2] = 0 /\ wt_x[3] = 1 /\ wt_x[4] = -2 /\ wt_x[5] = 0
      /\ wt_x[6] = 2 /\ wt_x[7] = -1 /\ wt_x[8] = 0 /\ wt_x[9] = 1
  BY DEF wt_x
<1>6. /\ wt_y[1] = 1 /\ wt_y[2] = 2 /\ wt_y[3] = 1 /\ wt_y[4] = 0 /\ wt_y[5] = 0
      /\ wt_y[6] = 0 /\ wt_y[7] = -1 /\ wt_y[8] = -2 /\ wt_y[9] = -1
  BY DEF wt_y
<1> QED BY <1>4, <1>5, <1>6

\* A neighbour that the reference looks at.
LEMMA NearIs ==
  ASSUME NEW ex, NEW image \in Image, NEW x \in Int, NEW y \in Int, NEW dx \in -1..1, NEW dy \in -1..1, NEW w \in -2..2,
         NEW u \in Int, NEW v \in Int, u = x + dx, v = y + dy
  PROVE  Near(ex, image, x, y, dx, dy, w) = Weighted(ex, image, u, v, w) /\ Weighted(ex, image, u, v, w) \in Int
<1>0. Weighted(ex, image, u, v, w) \in Products BY WeightedIs
<1>1. /\ Weighted(ex, image, u, v, w) \in Int
      /\ Weighted(ex, image, u, v, w) =
           IF u \in Coordinates /\ v \in Coordinates THEN Times(ex, image[v * FM_DIM + u + 1], w) ELSE 0
  BY <1>0, Ranges, WeightedIs
<1>2. CASE u \in Coordinates /\ v \in Coordinates
  <2>1. v * FM_DIM \in Int BY ImageSize
  <2>2. v * FM_DIM + u + 1 = (y + dy) * FM_DIM + x + dx + 1
    <3>1. PICK P \in Int : P = v * FM_DIM BY <2>1
    <3>2. P = (y + dy) * FM_DIM BY <3>1
    <3>3. P + u + 1 = P + x + dx + 1 OBVIOUS
    <3> QED BY <3>1, <3>2, <3>3
  <2> QED BY <1>1, <1>2, <2>2 DEF Coordinates, Near
<1>3. CASE ~(u \in Coordinates /\ v \in Coordinates) BY <1>1, <1>3 DEF Coordinates, Near
<1> QED BY <1>1, <1>2, <1>3

\* The neighbours one by one.
LEMMA Neighbours ==
  ASSUME NEW ex, NEW image \in Image, NEW wt \in Weights, NEW x \in Coordinates, NEW y \in Coordinates
  PROVE  Gradient(ex, image, wt, x, y) =
           (Near(ex, image, x, y, -1, -1, wt[1]) + Near(ex, image, x, y, 0, -1, wt[2]) + Near(ex, image, x, y, 1, -1, wt[3]))
           + (Near(ex, image, x, y, -1, 0, wt[4]) + Near(ex, image, x, y, 0, 0, wt[5]) + Near(ex, image, x, y, 1, 0, wt[6]))
           + (Near(ex, image, x, y, -1, 1, wt[7]) + Near(ex, image, x, y, 0, 1, wt[8]) + Near(ex, image, x, y, 1, 1, wt[9]))
<1>0. x \in Int /\ y \in Int BY ImageSize DEF Coordinates
<1>1. WT_SIZE = 9 BY DEF WT_SIZE
<1>2. ASSUME NEW dx \in -1..1, NEW dy \in -1..1, NEW k \in 1..9, NEW u \in Int, NEW v \in Int, u = x + dx, v = y + dy
      PROVE  Near(ex, image, x, y, dx, dy, wt[k]) = Weighted(ex, image, u, v, wt[k]) /\ Weighted(ex, image, u, v, wt[k]) \in Int
  <2>1. wt[k] \in -2..2 BY <1>1 DEF Weights
  <2> QED BY ONLY <1>0, <1>2, <2>1, image \in Image, NearIs
<1>3. PICK w1 \in Int : w1 = Weighted(ex, image, x - 1, y - 1, wt[1]) /\ w1 = Near(ex, image, x, y, -1, -1, wt[1])
  <2>1. x - 1 = x + (-1) /\ y - 1 = y + (-1) /\ x - 1 \in Int /\ y - 1 \in Int BY <1>0
  <2> QED BY <1>2, <2>1
<1>4. PICK w2 \in Int : w2 = Weighted(ex, image, x, y - 1, wt[2]) /\ w2 = Near(ex, image, x, y, 0, -1, wt[2])
  <2>1. x = x + 0 /\ y - 1 = y + (-1) /\ y - 1 \in Int BY <1>0
  <2> QED BY <1>0, <1>2, <2>1
<1>5. PICK w3 \in Int : w3 = Weighted(ex, image, x + 1, y - 1, wt[3]) /\ w3 = Near(ex, image, x, y, 1, -1, wt[3])
  <2>1. y - 1 = y + (-1) /\ x + 1 \in Int /\ y - 1 \in Int BY <1>0
  <2> QED BY <1>2, <2>1
<1>6. PICK w4 \in Int : w4 = Weighted(ex, image, x - 1, y, wt[4]) /\ w4 = Near(ex, image, x, y, -1, 0, wt[4])
  <2>1. x - 1 = x + (-1) /\ y = y + 0 /\ x - 1 \in Int BY <1>0
  <2> QED BY <1>0, <1>2, <2>1
<1>7. PICK w5 \in Int : w5 = Weighted(ex, image, x, y, wt[5]) /\ w5 = Near(ex, image, x, y, 0, 0, wt[5])
  <2>1. x = x + 0 /\ y = y + 0 BY <1>0
  <2> QED BY <1>0, <1>2, <2>1
<1>8. PICK w6 \in Int : w6 = Weighted(ex, image, x + 1, y, wt[6]) /\ w6 = Near(ex, image, x, y, 1, 0, wt[6])
  <2>1. y = y + 0 /\ x + 1 \in Int BY <1>0
  <2> QED BY <1>0, <1>2, <2>1
<1>9. PICK w7 \in Int : w7 = Weighted(ex, image, x - 1, y + 1, wt[7]) /\ w7 = Near(ex, image, x, y, -1, 1, wt[7])
  <2>1. x - 1 = x + (-1) /\ x - 1 \in Int /\ y + 1 \in Int BY <1>0
  <2> QED BY <1>2, <2>1
<1>10. PICK w8 \in Int : w8 = Weighted(ex, image, x, y + 1, wt[8]) /\ w8 = Near(ex, image, x, y, 0, 1, wt[8])
  <2>1. x = x + 0 /\ y + 1 \in Int BY <1>0
  <2> QED BY <1>0, <1>2, <2>1
<1>11. PICK w9 \in Int : w9 = Weighted(ex, image, x + 1, y + 1, wt[9]) /\ w9 = Near(ex, image, x, y, 1, 1, wt[9])
  <2>1. x + 1 \in Int /\ y + 1 \in Int BY <1>0
  <2> QED BY <1>2, <2>1
<1>12. Gradient(ex, image, wt, x, y) = w1 + w2 + w3 + w4 + w5 + w6 + w7 + w8 + w9
  BY <1>3, <1>4, <1>5, <1>6, <1>7, <1>8, <1>9, <1>10, <1>11 DEF Gradient
<1>13. w1 + w2 + w3 + w4 + w5 + w6 + w7 + w8 + w9 = (w1 + w2 + w3) + (w4 + w5 + w6) + (w7 + w8 + w9) OBVIOUS
<1> QED BY <1>3, <1>4, <1>5, <1>6, <1>7, <1>8, <1>9, <1>10, <1>11, <1>12, <1>13

\* The weights are those of the reference.
LEMMA GradientsAre ==
  ASSUME NEW ex, NEW image \in Image, NEW x \in Coordinates, NEW y \in Coordinates
  PROVE  /\ GradX(ex, image, x, y) = Gradient(ex, image, wt_x, x, y)
         /\ GradY(ex, image, x, y) = Gradient(ex, image, wt_y, x, y)
<1> DEFINE N(dx, dy, w) == Near(ex, image, x, y, dx, dy, w)
<1>1. /\ (-1) * (2 - Abs(-1)) = -1 /\ 0 * (2 - Abs(-1)) = 0 /\ 1 * (2 - Abs(-1)) = 1
      /\ (-1) * (2 - Abs(0)) = -2 /\ 0 * (2 - Abs(0)) = 0 /\ 1 * (2 - Abs(0)) = 2
      /\ (-1) * (2 - Abs(1)) = -1 /\ 0 * (2 - Abs(1)) = 0 /\ 1 * (2 - Abs(1)) = 1
  BY DEF Abs
<1>2. GradX(ex, image, x, y) =
        (N(-1, -1, -1) + N(0, -1, 0) + N(1, -1, 1)) + (N(-1, 0, -2) + N(0, 0, 0) + N(1, 0, 2))
        + (N(-1, 1, -1) + N(0, 1, 0) + N(1, 1, 1))
  BY <1>1 DEF GradX, Around
<1>3. /\ (-(-1)) * (2 - Abs(-1)) = 1 /\ (-(-1)) * (2 - Abs(0)) = 2 /\ (-(-1)) * (2 - Abs(1)) = 1
      /\ (-0) * (2 - Abs(-1)) = 0 /\ (-0) * (2 - Abs(0)) = 0 /\ (-0) * (2 - Abs(1)) = 0
      /\ (-1) * (2 - Abs(-1)) = -1 /\ (-1) * (2 - Abs(0)) = -2 /\ (-1) * (2 - Abs(1)) = -1
  BY DEF Abs
<1>4. GradY(ex, image, x, y) =
        (N(-1, -1, 1) + N(0, -1, 2) + N(1, -1, 1)) + (N(-1, 0, 0) + N(0, 0, 0) + N(1, 0, 0))
        + (N(-1, 1, -1) + N(0, 1, -2) + N(1, 1, -1))
  BY <1>3 DEF GradY, Around
<1>5. wt_x \in Weights /\ wt_y \in Weights BY WeightsAre
<1>6. Gradient(ex, image, wt_x, x, y) =
        (N(-1, -1, wt_x[1]) + N(0, -1, wt_x[2]) + N(1, -1, wt_x[3])) + (N(-1, 0, wt_x[4]) + N(0, 0, wt_x[5]) + N(1, 0, wt_x[6]))
        + (N(-1, 1, wt_x[7]) + N(0, 1, wt_x[8]) + N(1, 1, wt_x[9]))
  BY <1>5, Neighbours
<1>7. Gradient(ex, image, wt_y, x, y) =
        (N(-1, -1, wt_y[1]) + N(0, -1, wt_y[2]) + N(1, -1, wt_y[3])) + (N(-1, 0, wt_y[4]) + N(0, 0, wt_y[5]) + N(1, 0, wt_y[6]))
        + (N(-1, 1, wt_y[7]) + N(0, 1, wt_y[8]) + N(1, 1, wt_y[9]))
  BY <1>5, Neighbours
<1> HIDE DEF N
<1> QED BY <1>2, <1>4, <1>6, <1>7, WeightsAre

-----------------------------------------------------------------------------
\* What main makes of both.
LEMMA SquaresAre ==
  ASSUME NEW ex, NEW a \in Gradients, NEW b \in Gradients
  PROVE  Times(ex, a, a) + Times(ex, b, b) \in Nat
<1>1. ASSUME NEW g \in Gradients PROVE Times(ex, g, g) \in Nat
  <2>1. mula(g, g) \in Nat BY SquaresAssumption
  <2>2. g \in Int BY Ranges
  <2>3. times(g, g) = g * g BY ONLY <2>2, TimesIs
  <2>4. g * g \in Nat
    <3>1. CASE g >= 0 BY <2>2, <3>1
    <3>2. CASE g < 0
      <4>1. PICK h \in Nat : g = -h BY <2>2, <3>2
      <4>2. g * g = h * h BY <4>1
      <4> QED BY <4>2
    <3> QED BY <2>2, <3>1, <3>2
  <2> QED BY <2>1, <2>3, <2>4 DEF Times
<1> QED BY <1>1

IsMagnitude(ex, a, b, o) ==
  /\ o \in 0..255
  /\ ex = TRUE => o * o <= a * a + b * b /\ (o < 255 => a * a + b * b < (o + 1) * (o + 1))

LEMMA MagnitudeIs ==
  ASSUME NEW ex, NEW a \in Gradients, NEW b \in Gradients
  PROVE  IsMagnitude(ex, a, b, Magnitude(ex, a, b))
<1>1. PICK n \in Nat : n = Times(ex, a, a) + Times(ex, b, b) BY SquaresAre
<1>2. PICK r : r = int_sqrt(ex, n) OBVIOUS
<1>3. r \in Nat
  <2>1. PICK g : g \in [0..Turns(n) -> Nat] /\ r = g[Turns(n)] BY <1>2, SqrtIs
  <2>2. Turns(n) \in Nat BY TurnsIs
  <2>3. Turns(n) \in 0..Turns(n) BY <2>2
  <2> QED BY <2>1, <2>3
<1>4. PICK o \in 0..255 : o = IF r > 255 THEN 255 ELSE r BY <1>3
<1>5. Magnitude(ex, a, b) = o BY <1>1, <1>2, <1>4 DEF Magnitude
<1>6. ASSUME ex = TRUE PROVE o * o <= a * a + b * b /\ (o < 255 => a * a + b * b < (o + 1) * (o + 1))
  <2>1. a \in Int /\ b \in Int BY Ranges
  <2>2. n = a * a + b * b BY <1>1, <1>6, <2>1, TimesIs DEF Times
  <2>3. r * r <= n /\ n < (r + 1) * (r + 1) BY <1>2, <1>6, RootIs DEF IsRoot
  <2>4. CASE r > 255
    <3>1. PICK d \in Nat : r = 255 + d BY <1>3, <2>4
    <3>2. r * r = 255 * 255 + 510 * d + d * d BY <3>1
    <3>3. d * d \in Nat OBVIOUS
    <3> QED BY <1>4, <2>2, <2>3, <2>4, <3>2, <3>3
  <2>5. CASE ~(r > 255) BY <1>3, <1>4, <2>2, <2>3, <2>5
  <2> QED BY <2>4, <2>5
<1> QED BY <1>5, <1>6 DEF IsMagnitude

\* The three steps together: the edges of an image.
LEMMA Edges ==
  ASSUME NEW ex \in BOOLEAN, NEW image \in Image, NEW ox, NEW oy,
         Convolved(ox, ex, image, wt_x), Convolved(oy, ex, image, wt_y)
  PROVE  Combine(ex, ox, oy) \in Image /\ IsSobel(ex, image, Combine(ex, ox, oy))
<1>1. PICK out : out = Combine(ex, ox, oy) OBVIOUS
<1>2. out = [i \in 1..FM_SIZE |-> Magnitude(ex, ox[i], oy[i])] BY <1>1 DEF Combine
<1>3. \A i \in 1..FM_SIZE : ox[i] \in Gradients /\ oy[i] \in Gradients BY DEF Convolved
<1>4. out \in Image
  <2>1. \A i \in 1..FM_SIZE : Magnitude(ex, ox[i], oy[i]) \in 0..255 BY <1>3, MagnitudeIs DEF IsMagnitude
  <2> QED BY <1>2, <2>1 DEF Image
<1>5. ASSUME NEW x \in Coordinates, NEW y \in Coordinates
      PROVE  LET gx == GradX(ex, image, x, y)
                 gy == GradY(ex, image, x, y)
                 o  == out[y * FM_DIM + x + 1]
             IN IF ex
                THEN o \in 0..255 /\ o * o <= gx * gx + gy * gy /\ (o < 255 => gx * gx + gy * gy < (o + 1) * (o + 1))
                ELSE o = Magnitude(ex, gx, gy)
  <2>1. PICK i \in 1..FM_SIZE : i = y * FM_DIM + x + 1 BY Position
  <2>2. PICK a \in Gradients : a = ox[i] BY <1>3
  <2>3. PICK b \in Gradients : b = oy[i] BY <1>3
  <2>4. GradX(ex, image, x, y) = a BY <2>1, <2>2, GradientsAre DEF Convolved
  <2>5. GradY(ex, image, x, y) = b BY <2>1, <2>3, GradientsAre DEF Convolved
  <2>6. PICK o : o = Magnitude(ex, a, b) OBVIOUS
  <2>7. out[i] = o BY <1>2, <2>2, <2>3, <2>6
  <2>8. o \in 0..255 /\ (ex = TRUE => o * o <= a * a + b * b /\ (o < 255 => a * a + b * b < (o + 1) * (o + 1)))
    <3>1. IsMagnitude(ex, a, b, Magnitude(ex, a, b)) BY ONLY a \in Gradients, b \in Gradients, MagnitudeIs
    <3> QED BY ONLY <2>6, <3>1 DEF IsMagnitude
  <2>9. CASE ex BY <2>1, <2>4, <2>5, <2>7, <2>8, <2>9
  <2>10. CASE ~ex BY <2>1, <2>4, <2>5, <2>6, <2>7, <2>10
  <2> QED BY <2>9, <2>10
<1> QED BY <1>1, <1>4, <1>5 DEF IsSobel, Coordinates

-----------------------------------------------------------------------------
(* ExecLib.  What the library writes and reads: numbers in decimal and in    *)
(* hexadecimal digits, and strings.                                          *)

\* The powers of a number.
Powers(p, b) == p = [i \in Nat |-> IF i = 0 THEN 1 ELSE b * p[i - 1]]

ArePowers(b) ==
  /\ \A n \in Nat : Pow(b, n) \in Nat
  /\ Pow(b, 0) = 1 /\ \A n \in Nat : Pow(b, n + 1) = b * Pow(b, n)

LEMMA PowIs == ASSUME NEW b \in Nat PROVE ArePowers(b)
<1>1. PICK step : step = [i \in Nat |-> [m \in Nat |-> b * m]] OBVIOUS
<1>2. step \in [Nat -> [Nat -> Nat]]
  <2>1. \A m \in Nat : b * m \in Nat OBVIOUS
  <2> QED BY <1>1, <2>1
<1>3. PICK f : Unending(f, Nat, 1, step)
  <2>1. 1 \in Nat OBVIOUS
  <2> QED BY ONLY <1>2, <2>1, UnendingRecursion
<1>4. f \in [Nat -> Nat] /\ f[0] = 1 /\ \A i \in Nat \ {0} : f[i] = step[i][f[i - 1]]
  BY <1>3 DEF Unending
<1>5. ASSUME NEW n \in Nat PROVE f[n] = IF n = 0 THEN 1 ELSE b * f[n - 1]
  <2>1. CASE n = 0 BY <1>4, <2>1
  <2>2. CASE n # 0
    <3>1. n \in Nat \ {0} /\ n - 1 \in Nat BY <2>2
    <3>2. f[n - 1] \in Nat BY <1>4, <3>1
    <3>3. f[n] = step[n][f[n - 1]] BY <1>4, <3>1
    <3> QED BY <1>1, <2>2, <3>2, <3>3
  <2> QED BY <2>1, <2>2
<1>6. Powers(f, b) BY <1>4, <1>5 DEF Powers
<1>7. PICK p : p = CHOOSE r : Powers(r, b) OBVIOUS
<1>8. Powers(p, b) BY <1>6, <1>7
<1>9. ASSUME NEW n PROVE Pow(b, n) = p[n] BY <1>7 DEF Pow, Powers
<1>10. p[0] = 1 /\ \A n \in Nat : p[n + 1] = b * p[n]
  <2>1. \A n \in Nat : n + 1 \in Nat /\ n + 1 # 0 /\ (n + 1) - 1 = n OBVIOUS
  <2> QED BY <1>8, <2>1 DEF Powers
<1>11. \A n \in Nat : p[n] \in Nat
  <2>1. PICK Failing : Failing = {n \in Nat : p[n] \notin Nat} OBVIOUS
  <2>2. ASSUME NEW n \in Failing, \A j \in Failing : n <= j PROVE FALSE
    <3>1. n \in Nat /\ p[n] \notin Nat /\ n # 0 BY <2>1, <1>10
    <3>2. PICK m \in Int : m = n - 1 BY <3>1
    <3>3. m \in Nat /\ m \notin Failing /\ n = m + 1 BY <2>2, <3>1, <3>2
    <3>4. PICK q \in Nat : q = p[m] BY <2>1, <3>3
    <3>5. p[n] = b * q BY <1>10, <3>3, <3>4
    <3>6. b * q \in Nat OBVIOUS
    <3> QED BY <3>1, <3>5, <3>6
  <2>3. Failing \in SUBSET Nat BY <2>1
  <2>4. Failing # {} => \E x \in Failing : \A y \in Failing : x <= y BY ONLY <2>3, Least
  <2>5. Failing = {} BY ONLY <2>2, <2>4
  <2> QED BY <2>1, <2>5
<1> QED BY <1>9, <1>10, <1>11 DEF ArePowers

\* The powers of ten: they grow.
Ten(k) == Pow(10, k)
LEMMA TenIs ==
  /\ Ten(0) = 1 /\ \A n \in Nat : Ten(n) \in Nat \ {0} /\ Ten(n + 1) = 10 * Ten(n)
  /\ \A n \in Nat : \A k \in 0..n : Ten(k) <= Ten(n)
<1>1. Ten(0) = 1 /\ \A n \in Nat : Ten(n) \in Nat /\ Ten(n + 1) = 10 * Ten(n)
  <2>1. 10 \in Nat OBVIOUS
  <2>2. ArePowers(10) BY ONLY <2>1, PowIs
  <2> QED BY ONLY <2>2 DEF ArePowers, Ten
<1>2. PICK Failing : Failing = {n \in Nat : Ten(n) = 0 \/ \E k \in 0..n : ~(Ten(k) <= Ten(n))} OBVIOUS
<1>3. ASSUME NEW n \in Failing, \A j \in Failing : n <= j PROVE FALSE
  <2>1. n \in Nat /\ (Ten(n) = 0 \/ \E k \in 0..n : ~(Ten(k) <= Ten(n))) BY <1>2
  <2>2. CASE n = 0
    <3>1. Ten(n) = 1 BY <1>1, <2>2
    <3>2. \A k \in 0..n : k = 0 BY <2>2
    <3> QED BY <2>1, <2>2, <3>1, <3>2
  <2>3. CASE n # 0
    <3>1. PICK m \in Int : m = n - 1 BY <2>1
    <3>2. m \in Nat /\ m \notin Failing /\ n = m + 1 BY <1>3, <2>1, <2>3, <3>1
    <3>3. Ten(m) # 0 /\ \A k \in 0..m : Ten(k) <= Ten(m) BY <1>2, <3>2
    <3>4. PICK t \in Nat : t = Ten(m) BY <1>1, <3>2
    <3>5. Ten(n) = 10 * t BY <1>1, <3>2, <3>4
    <3>6. Ten(n) # 0 BY <3>3, <3>4, <3>5
    <3>7. PICK k \in 0..n : ~(Ten(k) <= Ten(n)) BY <2>1, <3>6
    <3>8. k # n BY <3>4, <3>5, <3>7
    <3>9. k \in 0..m BY <3>2, <3>8
    <3>10. PICK u \in Nat : u = Ten(k) BY <1>1, <3>9
    <3>11. u <= t BY <3>3, <3>4, <3>9, <3>10
    <3>12. ~(u <= 10 * t) BY <3>5, <3>7, <3>10
    <3> QED BY <3>11, <3>12
  <2> QED BY <2>2, <2>3
<1>4. Failing \in SUBSET Nat BY <1>2
<1>5. Failing # {} => \E x \in Failing : \A y \in Failing : x <= y BY ONLY <1>4, Least
<1>6. Failing = {} BY ONLY <1>3, <1>5
<1> QED BY <1>1, <1>2, <1>6

\* The table of the powers, as far as an unsigned holds them.
LEMMA BaseIs ==
  ASSUME NEW m \in 0..90, Ten(m) < WORD
  PROVE  \A k \in 0..m : base[k + 1] = Ten(k)
<1>0. WORD \in Nat \ {0} BY ExecLibAssumption
<1>1. PICK W \in Nat \ {0} : W = WORD BY <1>0
<1>2. PICK step : step = [j \in 1..99 |-> [v \in Nat |-> IF j = 1 THEN 1 ELSE (v * 10) % W]] OBVIOUS
<1>3. step \in [1..99 -> [Nat -> Nat]]
  <2>1. \A v \in Nat : (v * 10) % W \in Nat OBVIOUS
  <2> QED BY <1>2, <2>1
<1>4. PICK f : Solution(f, 99, Nat, 0, step)
  <2>1. 0 \in Nat /\ 99 \in Nat OBVIOUS
  <2> QED BY ONLY <1>3, <2>1, Recursion
<1>5. f \in [0..99 -> Nat] /\ f[0] = 0 /\ \A j \in 1..99 : f[j] = step[j][f[j - 1]] BY <1>4 DEF Solution
<1>6. ASSUME NEW j \in 0..99
      PROVE  f[j] = IF j = 0 THEN 0 ELSE IF j = 1 THEN 1 ELSE mul(f[j - 1], 10) % WORD
  <2>1. CASE j = 0 BY <1>5, <2>1
  <2>2. CASE j # 0
    <3>1. j \in 1..99 /\ j - 1 \in 0..99 BY <2>2
    <3>2. f[j - 1] \in Nat /\ f[j] = step[j][f[j - 1]] BY <1>5, <3>1
    <3> QED BY <1>1, <1>2, <2>2, <3>1, <3>2 DEF mul
  <2> QED BY <2>1, <2>2
<1>7. f = [j \in 0..99 |-> IF j = 0 THEN 0 ELSE IF j = 1 THEN 1 ELSE mul(f[j - 1], 10) % WORD]
  BY <1>5, <1>6
<1>8. PICK b : b = base OBVIOUS
<1>9. b = [j \in 0..99 |-> IF j = 0 THEN 0 ELSE IF j = 1 THEN 1 ELSE mul(b[j - 1], 10) % WORD]
  BY <1>7, <1>8 DEF base
<1>10. PICK Failing : Failing = {k \in 0..m : b[k + 1] # Ten(k)} OBVIOUS
<1>11. ASSUME NEW k \in Failing, \A j \in Failing : k <= j PROVE FALSE
  <2>1. k \in 0..m /\ b[k + 1] # Ten(k) BY <1>10
  <2>2. CASE k = 0
    <3>1. k + 1 = 1 /\ 1 \in 0..99 BY <2>2
    <3> QED BY <1>9, <2>1, <2>2, <3>1, TenIs
  <2>3. CASE k # 0
    <3>1. PICK j \in Int : j = k - 1 BY <2>1
    <3>2. j \in Nat /\ j \in 0..m /\ j \notin Failing /\ k = j + 1 BY <1>11, <2>1, <2>3, <3>1
    <3>3. b[k] = Ten(j) BY <1>10, <3>2
    <3>4. k + 1 \in 0..99 /\ k + 1 # 0 /\ k + 1 # 1 /\ (k + 1) - 1 = k BY <2>1, <2>3
    <3>5. b[k + 1] = mul(b[k], 10) % WORD BY <1>9, <3>4
    <3>6. PICK t \in Nat : t = Ten(j) BY <3>2, TenIs
    <3>7. Ten(k) = 10 * t BY <3>2, <3>6, TenIs
    <3>8. PICK M \in Nat : M = m OBVIOUS
    <3>9. k \in 0..M BY <2>1, <3>8
    <3>10. Ten(k) <= Ten(M) BY <3>9, TenIs
    <3>11. 10 * t < W
      <4>1. PICK u \in Nat : u = Ten(M) BY TenIs
      <4>2. u < W BY <1>1, <3>8, <4>1
      <4> QED BY <3>7, <3>10, <4>1, <4>2
    <3>12. (t * 10) % W = 10 * t BY <3>11
    <3> QED BY <1>1, <2>1, <3>3, <3>5, <3>6, <3>7, <3>12 DEF mul
  <2> QED BY <2>2, <2>3
<1>12. Failing \in SUBSET Nat BY <1>10
<1>13. Failing # {} => \E x \in Failing : \A y \in Failing : x <= y BY ONLY <1>12, Least
<1>14. Failing = {} BY ONLY <1>11, <1>13
<1> QED BY <1>8, <1>10, <1>14

\* An unsigned holds more than the numbers of m digits.
Holds(m) == m \in 0..9 /\ Ten(m) < WORD

\* As many digits as val has.
LEMMA PowerIs ==
  ASSUME NEW m, Holds(m), NEW val \in Nat \ {0}, val < Ten(m)
  PROVE  Power(val) \in 1..m /\ Ten(Power(val) - 1) <= val /\ val < Ten(Power(val))
<1>1. m \in 0..9 /\ Ten(m) < WORD BY DEF Holds
<1>2. PICK W \in Nat \ {0} : W = WORD BY ExecLibAssumption
<1>3. \A k \in 0..m : base[k + 1] = Ten(k)
  <2>1. m \in 0..90 BY <1>1
  <2> QED BY ONLY <1>1, <2>1, BaseIs
<1>4. ASSUME NEW j \in 1..(m + 1) PROVE Ten(j - 1) \in Nat \ {0} /\ (base[j] - 1) % WORD = Ten(j - 1) - 1
  <2>1. PICK k \in Int : k = j - 1 BY <1>1
  <2>2. k \in 0..m /\ j = k + 1 BY <1>1, <2>1
  <2>3. PICK M \in Nat : M = m BY <1>1
  <2>4. k \in Nat /\ k \in 0..M BY <2>2, <2>3
  <2>5. Ten(k) <= Ten(M) BY <2>3, <2>4, TenIs
  <2>6. PICK t \in Nat \ {0} : t = Ten(k) BY <2>4, TenIs
  <2>7. PICK u \in Nat : u = Ten(M) BY TenIs
  <2>8. t - 1 < W /\ t - 1 \in Nat BY <1>1, <1>2, <2>3, <2>5, <2>6, <2>7
  <2>9. (t - 1) % W = t - 1 BY <2>8
  <2>10. base[j] = t BY <1>3, <2>2, <2>6
  <2> QED BY <1>2, <2>1, <2>6, <2>9, <2>10
<1>5. PICK T : T = {j \in 1..(m + 1) : Ten(j - 1) - 1 >= val} OBVIOUS
<1>6. m + 1 \in T
  <2>1. m + 1 \in 1..(m + 1) /\ (m + 1) - 1 = m BY <1>1
  <2>0. m \in Nat BY <1>1
  <2>2. PICK u \in Nat : u = Ten(m) BY <2>0, TenIs
  <2>3. u - 1 >= val BY <2>2
  <2> QED BY <1>5, <2>1, <2>2, <2>3
<1>7. T \in SUBSET Nat BY <1>1, <1>5
<1>8. PICK t \in T : \A y \in T : t <= y BY ONLY <1>6, <1>7, Least
<1>9. t \in 1..(m + 1) /\ t \in 1..99 /\ Ten(t - 1) - 1 >= val BY <1>1, <1>5, <1>8
<1>10. (base[t] - 1) % WORD >= val BY <1>4, <1>9
<1>11. ASSUME NEW k \in 1..(t - 1) PROVE (base[k] - 1) % WORD < val
  <2>1. k \in 1..(m + 1) /\ k \notin T BY <1>1, <1>8, <1>9
  <2>2. Ten(k - 1) \in Nat /\ (base[k] - 1) % WORD = Ten(k - 1) - 1 BY <1>4, <2>1
  <2>3. ~(Ten(k - 1) - 1 >= val) BY <1>5, <2>1
  <2> QED BY <2>2, <2>3
<1>12. PICK u : u = CHOOSE j \in 1..99 : /\ (base[j] - 1) % WORD >= val
                                       /\ \A k \in 1..(j - 1) : (base[k] - 1) % WORD < val
  OBVIOUS
<1>13. u \in 1..99 /\ (base[u] - 1) % WORD >= val /\ \A k \in 1..(u - 1) : (base[k] - 1) % WORD < val
  BY <1>9, <1>10, <1>11, <1>12
<1>14. u = t
  <2>1. ASSUME t < u PROVE FALSE
    <3>1. t \in 1..(u - 1) BY <1>9, <1>13, <2>1
    <3>2. (base[t] - 1) % WORD < val BY <1>13, <3>1
    <3>3. Ten(t - 1) \in Nat /\ (base[t] - 1) % WORD = Ten(t - 1) - 1 BY <1>4, <1>9
    <3> QED BY <1>9, <3>2, <3>3
  <2>2. ASSUME u < t PROVE FALSE
    <3>1. u \in 1..(t - 1) /\ u \in 1..(m + 1) BY <1>1, <1>9, <1>13, <2>2
    <3>2. (base[u] - 1) % WORD < val BY <1>11, <3>1
    <3>3. Ten(u - 1) \in Nat /\ (base[u] - 1) % WORD = Ten(u - 1) - 1 BY <1>4, <3>1
    <3> QED BY <1>13, <3>2, <3>3
  <2> QED BY <1>9, <1>13, <2>1, <2>2
<1>15. Power(val) = t - 1 BY <1>12, <1>14 DEF Power
<1>16. PICK L \in Int : L = t - 1 BY <1>9
<1>17. t # 1
  <2>1. ASSUME t = 1 PROVE FALSE
    <3>1. Ten(1 - 1) = 1 BY TenIs
    <3> QED BY <1>9, <2>1, <3>1
  <2> QED BY <2>1
<1>18. L \in 1..m /\ L \in Nat BY <1>1, <1>9, <1>16, <1>17
<1>19. val < Ten(L)
  <2>1. PICK p \in Nat : p = Ten(L) BY <1>18, TenIs
  <2> QED BY <1>9, <1>16, <2>1
<1>20. Ten(L - 1) <= val
  <2>1. L \in 1..(t - 1) /\ L \in 1..(m + 1) BY <1>1, <1>16, <1>18
  <2>2. (base[L] - 1) % WORD < val BY <1>11, <2>1
  <2>3. PICK p \in Nat : p = Ten(L - 1) /\ (base[L] - 1) % WORD = p - 1 BY <1>4, <2>1
  <2> QED BY <2>2, <2>3
<1> QED BY <1>15, <1>16, <1>18, <1>19, <1>20

\* A digit.
LEMMA DigitIs ==
  ASSUME NEW b \in Nat \ {0}, NEW x \in Nat, x < 10 * b
  PROVE  /\ get_digit(b, x) \in 0..9
         /\ b * get_digit(b, x) <= x /\ x < b * get_digit(b, x) + b
<1>1. PICK q \in Nat : q = x \div b BY Quotient
<1>2. b * q <= x /\ x < b * q + b BY <1>1, Quotient
<1>3. q <= 9
  <2>1. ASSUME q > 9 PROVE FALSE
    <3>1. PICK d \in Nat : q = 10 + d BY <2>1
    <3>2. b * (10 + d) = 10 * b + b * d OBVIOUS
    <3>3. b * q = 10 * b + b * d BY ONLY <3>1, <3>2
    <3>4. b * d \in Nat OBVIOUS
    <3> QED BY <1>2, <3>3, <3>4
  <2> QED BY <2>1
<1>4. (IF b # 0 /\ x \div b < 9 THEN x \div b ELSE 9) = q BY <1>1, <1>3
<1>5. ~(x - q * b >= b)
  <2>1. q * b = b * q OBVIOUS
  <2>2. PICK P \in Nat : P = b * q OBVIOUS
  <2> QED BY <1>2, <2>1, <2>2
<1>6. get_digit(b, x) = q BY <1>1, <1>4, <1>5 DEF get_digit
<1> QED BY <1>2, <1>3, <1>6

\* What is left of val when k digits have still to be written.
Lefts(left, j, val) == left = [k \in 0..j |->
  IF k = j THEN val ELSE left[k + 1] - mul(base[k + 1], get_digit(base[k + 1], left[k + 1]))]

LEMMA LeftsExist ==
  ASSUME NEW m, Holds(m), NEW j \in 0..m, NEW val \in Nat
  PROVE  \E left : Lefts(left, j, val)
<1>1. m \in 0..9 /\ Ten(m) < WORD BY DEF Holds
<1>2. \A k \in 0..m : base[k + 1] = Ten(k)
  <2>1. m \in 0..90 BY <1>1
  <2> QED BY ONLY <1>1, <2>1, BaseIs
<1>3. PICK step : step = [i \in 1..j |-> [x \in Int |->
        x - mul(base[(j - i) + 1], get_digit(base[(j - i) + 1], x))]] OBVIOUS
<1>4. step \in [1..j -> [Int -> Int]]
  <2>1. ASSUME NEW i \in 1..j, NEW x \in Int
        PROVE  x - mul(base[(j - i) + 1], get_digit(base[(j - i) + 1], x)) \in Int
    <3>1. PICK k \in Int : k = j - i BY <1>1
    <3>2. k \in 0..m /\ k \in Nat BY <1>1, <3>1
    <3>3. PICK b \in Nat \ {0} : b = base[(j - i) + 1] BY <1>2, <3>1, <3>2, TenIs
    <3>4. PICK d : d = get_digit(b, x) OBVIOUS
    <3>5. d \in Int BY <3>4 DEF get_digit
    <3>6. b * d \in Int BY <3>5
    <3> QED BY <3>3, <3>4, <3>6 DEF mul
  <2> QED BY <1>3, <2>1
<1>5. PICK f : Solution(f, j, Int, val, step)
  <2>1. j \in Nat /\ val \in Int BY <1>1
  <2> QED BY ONLY <1>4, <2>1, Recursion
<1>6. f \in [0..j -> Int] /\ f[0] = val /\ \A i \in 1..j : f[i] = step[i][f[i - 1]] BY <1>5 DEF Solution
<1>7. PICK left : left = [k \in 0..j |-> f[j - k]] OBVIOUS
<1>8. ASSUME NEW k \in 0..j
      PROVE  left[k] = IF k = j THEN val ELSE left[k + 1] - mul(base[k + 1], get_digit(base[k + 1], left[k + 1]))
  <2>1. CASE k = j
    <3>1. j - k = 0 BY <1>1, <2>1
    <3> QED BY <1>6, <1>7, <2>1, <3>1
  <2>2. CASE k # j
    <3>1. PICK i \in Int : i = j - k BY <1>1
    <3>2. i \in 1..j /\ k + 1 \in 0..j /\ j - (k + 1) = i - 1 /\ i - 1 \in 0..j /\ (j - i) + 1 = k + 1
      BY <1>1, <2>2, <3>1
    <3>3. left[k + 1] = f[i - 1] /\ f[i - 1] \in Int BY <1>6, <1>7, <3>2
    <3>4. left[k] = step[i][f[i - 1]] BY <1>6, <1>7, <3>1, <3>2
    <3>5. step[i][f[i - 1]] = f[i - 1] - mul(base[k + 1], get_digit(base[k + 1], f[i - 1]))
      BY <1>3, <3>2, <3>3
    <3> QED BY <2>2, <3>3, <3>4, <3>5
  <2> QED BY <2>1, <2>2
<1>9. Lefts(left, j, val) BY <1>7, <1>8 DEF Lefts
<1> QED BY <1>9

\* Digit k of what is left.
IsDigit(d, k, left) == d \in 0..9 /\ left[k + 1] = left[k] + Ten(k) * d

LEMMA LeftsAre ==
  ASSUME NEW m, Holds(m), NEW j \in 0..m, NEW val \in Nat, val < Ten(j), NEW left, Lefts(left, j, val)
  PROVE  /\ left[j] = val
         /\ \A k \in 0..j : left[k] \in Nat /\ left[k] < Ten(k)
         /\ \A k \in 0..j : k # j => IsDigit(get_digit(base[k + 1], left[k + 1]), k, left)
<1>1. m \in 0..9 /\ Ten(m) < WORD BY DEF Holds
<1>2. \A k \in 0..m : base[k + 1] = Ten(k)
  <2>1. m \in 0..90 BY <1>1
  <2> QED BY ONLY <1>1, <2>1, BaseIs
<1>3. left[j] = val BY <1>1 DEF Lefts
<1>4. ASSUME NEW k \in 0..j, k # j, left[k + 1] \in Nat, left[k + 1] < Ten(k + 1)
      PROVE  left[k] \in Nat /\ left[k] < Ten(k) /\ IsDigit(get_digit(base[k + 1], left[k + 1]), k, left)
  <2>1. k \in 0..m /\ k \in Nat BY <1>1
  <2>2. PICK b \in Nat \ {0} : b = Ten(k) /\ base[k + 1] = b /\ Ten(k + 1) = 10 * b BY <1>2, <2>1, TenIs
  <2>3. PICK x \in Nat : x = left[k + 1] BY <1>4
  <2>4. x < 10 * b BY <1>4, <2>2, <2>3
  <2>5. PICK d : d = get_digit(b, x) OBVIOUS
  <2>6. d \in 0..9 /\ b * d <= x /\ x < b * d + b BY <2>4, <2>5, DigitIs
  <2>7. left[k] = x - mul(b, d) BY <1>4, <2>2, <2>3, <2>5 DEF Lefts
  <2>8. PICK P \in Nat : P = b * d BY <2>6
  <2>9. left[k] = x - P BY <2>7, <2>8 DEF mul
  <2>10. left[k] \in Nat /\ left[k] < b /\ x = left[k] + P BY <2>6, <2>8, <2>9
  <2> QED BY <2>2, <2>3, <2>5, <2>6, <2>8, <2>10 DEF IsDigit
<1>5. PICK Failing : Failing = {i \in 0..j : ~(left[j - i] \in Nat /\ left[j - i] < Ten(j - i))} OBVIOUS
<1>6. ASSUME NEW i \in Failing, \A y \in Failing : i <= y PROVE FALSE
  <2>1. i \in 0..j /\ ~(left[j - i] \in Nat /\ left[j - i] < Ten(j - i)) BY <1>5
  <2>2. CASE i = 0
    <3>1. j - i = j BY <1>1, <2>2
    <3> QED BY <1>3, <2>1, <3>1
  <2>3. CASE i # 0
    <3>1. PICK k \in Int : k = j - i BY <1>1, <2>1
    <3>2. k \in 0..j /\ k # j /\ i - 1 \in 0..j /\ i - 1 \notin Failing /\ j - (i - 1) = k + 1
      BY <1>1, <1>6, <2>1, <2>3, <3>1
    <3>3. left[k + 1] \in Nat /\ left[k + 1] < Ten(k + 1) BY <1>5, <3>2
    <3> QED BY <1>4, <2>1, <3>1, <3>2, <3>3
  <2> QED BY <2>2, <2>3
<1>7. Failing \in SUBSET Nat BY <1>1, <1>5
<1>8. Failing # {} => \E x \in Failing : \A y \in Failing : x <= y BY ONLY <1>7, Least
<1>9. Failing = {} BY ONLY <1>6, <1>8
<1>10. ASSUME NEW k \in 0..j PROVE left[k] \in Nat /\ left[k] < Ten(k)
  <2>1. j - k \in 0..j /\ j - (j - k) = k BY <1>1
  <2> QED BY <1>5, <1>9, <2>1
<1>11. ASSUME NEW k \in 0..j, k # j PROVE IsDigit(get_digit(base[k + 1], left[k + 1]), k, left)
  <2>1. k + 1 \in 0..j BY <1>1, <1>11
  <2> QED BY <1>4, <1>10, <1>11, <2>1
<1> QED BY <1>3, <1>10, <1>11

-----------------------------------------------------------------------------
\* The loop of IsTrimmedNumeral.
Reading(value, str) == value = [i \in 0..Len(str) |->
  IF i = 0 THEN 0 ELSE 10 * value[i - 1] + str[i] - ASCII_0]

LEMMA ReadingIs ==
  ASSUME NEW str \in Seq(Int)
  PROVE  \E value : /\ Reading(value, str) /\ value \in [0..Len(str) -> Int]
                    /\ value = CHOOSE v : Reading(v, str)
<1>1. PICK n \in Nat : n = Len(str) OBVIOUS
<1>2. PICK step : step = [i \in 1..n |-> [v \in Int |-> 10 * v + str[i] - ASCII_0]] OBVIOUS
<1>3. step \in [1..n -> [Int -> Int]]
  <2>1. ASSUME NEW i \in 1..n, NEW v \in Int PROVE 10 * v + str[i] - ASCII_0 \in Int
    <3>1. str[i] \in Int /\ ASCII_0 \in Int BY <1>1 DEF ASCII_0
    <3> QED BY <3>1
  <2> QED BY <1>2, <2>1
<1>4. PICK f : Solution(f, n, Int, 0, step)
  <2>1. 0 \in Int OBVIOUS
  <2> QED BY ONLY <1>1, <1>3, <2>1, Recursion
<1>5. f \in [0..n -> Int] /\ f[0] = 0 /\ \A i \in 1..n : f[i] = step[i][f[i - 1]] BY <1>4 DEF Solution
<1>6. ASSUME NEW i \in 0..n PROVE f[i] = IF i = 0 THEN 0 ELSE 10 * f[i - 1] + str[i] - ASCII_0
  <2>1. CASE i = 0 BY <1>5, <2>1
  <2>2. CASE i # 0
    <3>1. i \in 1..n /\ i - 1 \in 0..n BY <1>1, <2>2
    <3>2. f[i - 1] \in Int /\ f[i] = step[i][f[i - 1]] BY <1>5, <3>1
    <3> QED BY <1>2, <2>2, <3>1, <3>2
  <2> QED BY <2>1, <2>2
<1>7. Reading(f, str) BY <1>1, <1>5, <1>6 DEF Reading
<1>8. PICK g : g = CHOOSE v : Reading(v, str) OBVIOUS
<1>9. Reading(g, str) BY <1>7, <1>8
<1>10. g = [i \in 0..n |-> IF i = 0 THEN 0 ELSE 10 * g[i - 1] + str[i] - ASCII_0] BY <1>1, <1>9 DEF Reading
<1>11. PICK Failing : Failing = {i \in 0..n : g[i] \notin Int} OBVIOUS
<1>12. ASSUME NEW i \in Failing, \A y \in Failing : i <= y PROVE FALSE
  <2>1. i \in 0..n /\ g[i] \notin Int BY <1>11
  <2>2. i # 0 BY <1>10, <2>1
  <2>3. i - 1 \in 0..n /\ i - 1 \notin Failing BY <1>12, <2>1, <2>2
  <2>4. PICK v \in Int : v = g[i - 1] BY <1>11, <2>3
  <2>5. g[i] = 10 * v + str[i] - ASCII_0 BY <1>10, <2>1, <2>2, <2>4
  <2>6. str[i] \in Int /\ ASCII_0 \in Int BY <1>1, <2>1, <2>2 DEF ASCII_0
  <2> QED BY <2>1, <2>5, <2>6
<1>13. Failing \in SUBSET Nat BY <1>11
<1>14. Failing # {} => \E x \in Failing : \A y \in Failing : x <= y BY ONLY <1>13, Least
<1>15. Failing = {} BY ONLY <1>12, <1>14
<1>16. g \in [0..n -> Int]
  <2>1. \A i \in 0..n : g[i] \in Int BY <1>11, <1>15
  <2>2. g = [i \in 0..n |-> g[i]] BY <1>10
  <2> QED BY <2>1, <2>2
<1> QED BY <1>1, <1>8, <1>9, <1>16

\* ExecLib.c:104: of every number that is less than a power of ten which an unsigned
\* holds, uint64_to_str writes the digits, but for the zeros at its end.
THEOREM Numeral ==
  ASSUME NEW m, Holds(m), NEW val \in Nat, val < Ten(m)
  PROVE  /\ IsTrimmedNumeral(uint64_to_str(val), val)
         /\ uint64_to_str(val) \in Seq(48..57) /\ Len(uint64_to_str(val)) \in 1..9
         /\ val # 0 => Len(uint64_to_str(val)) <= Power(val)
<1>0. m \in 0..9 /\ m \in Nat BY DEF Holds
<1>1. CASE val = 0
  <2>1. uint64_to_str(val) = <<48>> BY <1>1 DEF uint64_to_str, ASCII_0
  <2>2. <<48>> \in Seq(48..57) /\ Len(<<48>>) = 1 OBVIOUS
  <2>3. PICK str : str = <<48>> OBVIOUS
  <2>4. str = <<ASCII_0>> BY <2>3 DEF ASCII_0
  <2>5. IsTrimmedNumeral(str, val) BY ONLY <1>1, <2>4, Zenon DEF IsTrimmedNumeral
  <2>6. val # 0 => Len(uint64_to_str(val)) <= Power(val) BY <1>1
  <2> QED BY <2>1, <2>2, <2>3, <2>5, <2>6
<1>2. CASE val # 0
  <2>1. PICK j : j = Power(val) OBVIOUS
  <2>2. val \in Nat \ {0} BY <1>2
  <2>3. j \in 1..m /\ Ten(j - 1) <= val /\ val < Ten(j) BY ONLY <2>1, <2>2, Holds(m), val < Ten(m), PowerIs
  <2>4. j \in 0..m /\ j \in Nat /\ j \in 1..9 BY <1>0, <2>3
  <2>5. PICK left : left = CHOOSE r : Lefts(r, j, val) OBVIOUS
  <2>6. Lefts(left, j, val)
    <3>1. \E f : Lefts(f, j, val) BY ONLY <2>4, Holds(m), val \in Nat, LeftsExist
    <3> QED BY <2>5, <3>1
  <2>7. /\ left[j] = val
        /\ \A k \in 0..j : left[k] \in Nat /\ left[k] < Ten(k)
        /\ \A k \in 0..j : k # j => IsDigit(get_digit(base[k + 1], left[k + 1]), k, left)
    BY ONLY <2>3, <2>4, <2>6, Holds(m), val \in Nat, LeftsAre
  <2>8. PICK T : T = {k \in 0..j : left[j - k] = 0} OBVIOUS
  <2>9. j \in T
    <3>1. j - j = 0 /\ 0 \in 0..j /\ j \in 0..j BY <2>4
    <3>2. left[0] \in Nat /\ left[0] < 1 BY <2>7, <3>1, TenIs
    <3> QED BY <2>8, <3>1, <3>2
  <2>10. T \in SUBSET Nat BY <2>8
  <2>11. PICK t \in T : \A y \in T : t <= y BY ONLY <2>9, <2>10, Least
  <2>12. t \in 0..j /\ left[j - t] = 0 BY <2>8, <2>11
  <2>13. \A i \in 0..(t - 1) : left[j - i] # 0
    <3>1. ASSUME NEW i \in 0..(t - 1) PROVE left[j - i] # 0
      <4>1. i \in 0..j /\ i \notin T BY <2>4, <2>11, <2>12
      <4> QED BY <2>8, <4>1
    <3> QED BY <3>1
  <2>14. PICK n : n = CHOOSE k \in 0..j : left[j - k] = 0 /\ \A i \in 0..(k - 1) : left[j - i] # 0 OBVIOUS
  <2>15. n \in 0..j /\ left[j - n] = 0 /\ \A i \in 0..(n - 1) : left[j - i] # 0 BY <2>12, <2>13, <2>14
  <2>16. n # 0
    <3>1. j - 0 = j BY <2>4
    <3> QED BY <1>2, <2>7, <2>15, <3>1
  <2>17. n \in 1..j /\ n \in Nat BY <2>4, <2>15, <2>16
  <2>18. PICK str : str = [i \in 1..n |-> ASCII_0 + get_digit(base[j - i + 1], left[j - i + 1])] OBVIOUS
  <2>19. uint64_to_str(val) = str BY <1>2, <2>1, <2>5, <2>14, <2>18 DEF uint64_to_str, Lefts
  <2>20. ASSUME NEW i \in 1..n
         PROVE  \E d \in 0..9 : /\ str[i] = 48 + d
                                /\ left[j - (i - 1)] = left[j - i] + Ten(j - i) * d
    <3>1. PICK k \in Int : k = j - i BY <2>4, <2>17
    <3>2. k \in 0..j /\ k # j /\ j - i + 1 = k + 1 /\ j - (i - 1) = k + 1 BY <2>4, <2>17, <3>1
    <3>3. PICK d : d = get_digit(base[k + 1], left[k + 1]) OBVIOUS
    <3>4. d \in 0..9 /\ left[k + 1] = left[k] + Ten(k) * d BY <2>7, <3>2, <3>3 DEF IsDigit
    <3>5. str[i] = 48 + d BY <2>18, <3>2, <3>3 DEF ASCII_0
    <3> QED BY <3>1, <3>2, <3>4, <3>5
  <2>21. str \in [1..n -> 48..57]
    <3>1. \A i \in 1..n : str[i] \in 48..57
      <4>1. ASSUME NEW i \in 1..n PROVE str[i] \in 48..57
        <5>1. PICK d \in 0..9 : str[i] = 48 + d BY <2>20
        <5> QED BY <5>1
      <4> QED BY <4>1
    <3> QED BY <2>18, <3>1
  <2>22. str \in Seq(48..57) /\ Len(str) = n /\ str \in Seq(Int)
    <3>1. str \in Seq(48..57) BY <2>17, <2>21
    <3>2. Len(str) = n BY <2>17, <2>21, <3>1
    <3>3. str \in [1..n -> Int] BY <2>21
    <3> QED BY <2>17, <3>1, <3>2, <3>3
  <2>23. PICK value : /\ Reading(value, str) /\ value \in [0..Len(str) -> Int]
                      /\ value = CHOOSE v : Reading(v, str)
    BY <2>22, ReadingIs
  \* What was read so far, and what is left of it.
  <2> DEFINE P(i) == value[i] * Ten(j - i) + left[j - i] = val
  <2>24. \A i \in 0..n : P(i)
    <3>1. PICK Failing : Failing = {i \in 0..n : ~P(i)} OBVIOUS
    <3>2. ASSUME NEW i \in Failing, \A y \in Failing : i <= y PROVE FALSE
      <4>1. i \in 0..n /\ ~P(i) BY <3>1
      <4>2. CASE i = 0
        <5>1. j - 0 = j /\ value[0] = 0 BY <2>4, <2>17, <2>22, <2>23 DEF Reading
        <5>2. PICK u \in Nat : u = Ten(j) BY <2>4, TenIs
        <5>3. 0 * u = 0 OBVIOUS
        <5> QED BY <2>7, <4>1, <4>2, <5>1, <5>2, <5>3
      <4>3. CASE i # 0
        <5>1. PICK k \in Int : k = j - i BY <2>4, <4>1
        <5>2. i \in 1..n /\ i - 1 \in 0..n /\ i - 1 \notin Failing /\ k \in 0..j /\ k \in Nat /\ j - (i - 1) = k + 1
          BY <2>4, <2>17, <3>2, <4>1, <4>3, <5>1
        <5>3. PICK d \in 0..9 : str[i] = 48 + d /\ left[k + 1] = left[k] + Ten(k) * d BY <2>20, <5>1, <5>2
        <5>4. PICK v \in Int : v = value[i - 1] BY <2>22, <2>23, <5>2
        <5>5. v * Ten(k + 1) + left[k + 1] = val BY <3>1, <5>2, <5>4
        <5>6. value[i] = 10 * v + d
          <6>1. value[i] = 10 * v + str[i] - 48 BY <2>22, <2>23, <4>1, <4>3, <5>4 DEF Reading, ASCII_0
          <6> QED BY <5>3, <6>1
        <5>7. PICK u \in Nat : u = Ten(k) /\ Ten(k + 1) = 10 * u BY <5>2, TenIs
        <5>8. PICK l \in Nat : l = left[k] BY <2>7, <5>2
        <5>9. v * (10 * u) + (l + u * d) = val BY <5>3, <5>5, <5>7, <5>8
        <5>10. (10 * v + d) * u + l = v * (10 * u) + (l + u * d) OBVIOUS
        <5>11. value[i] * Ten(j - i) + left[j - i] = val BY <5>1, <5>6, <5>7, <5>8, <5>9, <5>10
        <5> QED BY <4>1, <5>11
      <4> QED BY <4>2, <4>3
    <3>3. Failing \in SUBSET Nat BY <3>1
    <3>4. Failing # {} => \E x \in Failing : \A y \in Failing : x <= y BY ONLY <3>3, Least
    <3>5. Failing = {} BY ONLY <3>2, <3>4
    <3> QED BY <3>1, <3>5
  <2>25. \E zeros \in 0..9 : value[Len(str)] * Pow(10, zeros) = val
    <3>1. PICK z \in Int : z = j - n BY <2>4, <2>17
    <3>2. z \in 0..9 /\ z \in Nat /\ n \in 0..n BY <2>4, <2>17, <3>1
    <3>3. value[n] * Ten(z) + 0 = val BY <2>15, <2>24, <3>1, <3>2
    <3>4. value[n] \in Int /\ Ten(z) \in Nat BY <2>22, <2>23, <3>2, TenIs
    <3>5. value[n] * Ten(z) = val BY <3>3, <3>4
    <3> QED BY <2>22, <3>2, <3>5 DEF Ten
  <2>26. str[1] # 48
    <3>1. 1 \in 1..n BY <2>17
    <3>2. PICK d \in 0..9 : str[1] = 48 + d /\ left[j - (1 - 1)] = left[j - 1] + Ten(j - 1) * d BY <2>20, <3>1
    <3>3. j - (1 - 1) = j /\ j - 1 \in 0..j BY <2>4
    <3>4. ASSUME d = 0 PROVE FALSE
      <4>1. PICK u \in Nat : u = Ten(j - 1)
        <5>1. j - 1 \in Nat BY <2>4
        <5> QED BY <5>1, TenIs
      <4>2. PICK l \in Nat : l = left[j - 1] /\ l < u BY <2>7, <3>3, <4>1
      <4>3. u * 0 = 0 OBVIOUS
      <4>4. val = l BY <2>7, <3>2, <3>3, <3>4, <4>1, <4>2, <4>3
      <4> QED BY <2>3, <4>1, <4>2, <4>4
    <3> QED BY <3>2, <3>4
  <2>27. str[n] # 48
    <3>1. n \in 1..n /\ n - 1 \in 0..(n - 1) BY <2>17
    <3>2. PICK d \in 0..9 : str[n] = 48 + d /\ left[j - (n - 1)] = left[j - n] + Ten(j - n) * d BY <2>20, <3>1
    <3>3. left[j - (n - 1)] # 0 BY <2>15, <3>1
    <3>4. ASSUME d = 0 PROVE FALSE
      <4>1. PICK u \in Nat : u = Ten(j - n)
        <5>1. j - n \in Nat BY <2>4, <2>17
        <5> QED BY <5>1, TenIs
      <4>2. u * 0 = 0 OBVIOUS
      <4> QED BY <2>15, <3>2, <3>3, <3>4, <4>1, <4>2
    <3> QED BY <3>2, <3>4
  <2>28. \A i \in 1..Len(str) : str[i] \in Ascii(ASCII_0, 10)
    <3>1. \A i \in 1..n : str[i] \in 48..57 BY <2>21
    <3>2. Ascii(ASCII_0, 10) = 48..57 BY DEF Ascii, ASCII_0
    <3> QED BY <2>22, <3>1, <3>2
  <2>29. val > 0 /\ str # <<>> BY <2>2, <2>17, <2>22
  <2>30. IsTrimmedNumeral(str, val)
    <3> HIDE DEF P
    <3> QED BY <2>22, <2>23, <2>25, <2>26, <2>27, <2>28, <2>29 DEF IsTrimmedNumeral, Reading, ASCII_0
  <2>31. n \in 1..9 /\ n <= Power(val) BY <2>1, <2>4, <2>17
  <2> QED BY <2>19, <2>22, <2>30, <2>31
<1> QED BY <1>1, <1>2

\* A string has no zero in it.
String == Seq(Nat \ {0})

LEMMA CharIs ==
  ASSUME NEW s \in String, NEW i \in Nat \ {0}
  PROVE  CharAt(s, i) \in Nat /\ (CharAt(s, i) = 0 <=> i > Len(s))
<1>1. CASE i <= Len(s)
  <2>1. i \in 1..Len(s) BY <1>1 DEF String
  <2>2. s[i] \in Nat \ {0} BY <2>1 DEF String
  <2> QED BY <1>1, <2>1, <2>2 DEF CharAt
<1>2. CASE ~(i <= Len(s)) BY <1>2 DEF CharAt, String
<1> QED BY <1>1, <1>2

\* strlen counts the characters.
LEMMA StrlenIs == ASSUME NEW s \in String PROVE strlen(s) = Len(s)
<1>1. PICK l \in Nat : l = Len(s) BY DEF String
<1>2. PICK n : n = CHOOSE i \in 1..(l + 1) : CharAt(s, i) = 0 /\ \A j \in 1..(i - 1) : CharAt(s, j) # 0 OBVIOUS
<1>3. \A i \in Nat \ {0} : CharAt(s, i) = 0 <=> i > l BY <1>1, CharIs
<1>4. l + 1 \in 1..(l + 1) /\ CharAt(s, l + 1) = 0 /\ \A j \in 1..((l + 1) - 1) : CharAt(s, j) # 0
  BY <1>3
<1>5. n \in 1..(l + 1) /\ CharAt(s, n) = 0 BY <1>2, <1>4
<1>6. n = l + 1 BY <1>3, <1>5
<1>7. strlen(s) = n - 1 BY <1>1, <1>2 DEF strlen
<1> QED BY <1>1, <1>6, <1>7

\* strcmp finds every difference.
LEMMA StrcmpIs == ASSUME NEW s \in String, NEW w \in String PROVE (strcmp(s, w) = 0) = (s = w)
<1>1. PICK l \in Nat : l = Len(s) BY DEF String
<1>2. PICK k \in Nat : k = Len(w) BY DEF String
<1>3. \A i \in Nat \ {0} : CharAt(s, i) = 0 <=> i > l BY <1>1, CharIs
<1>4. \A i \in Nat \ {0} : CharAt(w, i) = 0 <=> i > k BY <1>2, CharIs
<1>5. PICK T : T = {i \in 1..(l + 1) : CharAt(s, i) # CharAt(w, i) \/ CharAt(s, i) = 0} OBVIOUS
<1>6. l + 1 \in T BY <1>3, <1>5
<1>7. T \in SUBSET Nat BY <1>5
<1>8. PICK t \in T : \A y \in T : t <= y BY ONLY <1>6, <1>7, Least
<1>9. t \in 1..(l + 1) /\ (CharAt(s, t) # CharAt(w, t) \/ CharAt(s, t) = 0) BY <1>5, <1>8
<1>10. \A j \in 1..(t - 1) : CharAt(s, j) = CharAt(w, j) /\ CharAt(s, j) # 0
  <2>1. ASSUME NEW j \in 1..(t - 1) PROVE CharAt(s, j) = CharAt(w, j) /\ CharAt(s, j) # 0
    <3>1. j \in 1..(l + 1) /\ j \notin T BY <1>8, <1>9
    <3> QED BY <1>5, <3>1
  <2> QED BY <2>1
<1>11. PICK u : u = CHOOSE i \in 1..(l + 1) :
         /\ CharAt(s, i) # CharAt(w, i) \/ CharAt(s, i) = 0
         /\ \A j \in 1..(i - 1) : CharAt(s, j) = CharAt(w, j) /\ CharAt(s, j) # 0
  OBVIOUS
<1>12. /\ u \in 1..(l + 1) /\ (CharAt(s, u) # CharAt(w, u) \/ CharAt(s, u) = 0)
       /\ \A j \in 1..(u - 1) : CharAt(s, j) = CharAt(w, j) /\ CharAt(s, j) # 0
  BY <1>9, <1>10, <1>11
<1>13. strcmp(s, w) = IF CharAt(s, u) # CharAt(w, u) THEN 1 ELSE 0 BY <1>1, <1>11 DEF strcmp
<1>14. ASSUME s = w PROVE strcmp(s, w) = 0 BY <1>13, <1>14
<1>15. ASSUME CharAt(s, u) = CharAt(w, u) PROVE s = w
  <2>1. CharAt(s, u) = 0 /\ u \in Nat \ {0} BY <1>12, <1>15
  <2>2. u = l + 1 BY <1>3, <1>12, <2>1
  <2>3. k <= l
    <3>1. CharAt(w, u) = 0 BY <1>15, <2>1
    <3>2. u > k BY ONLY <1>4, <2>1, <3>1
    <3> QED BY <2>2, <3>2
  <2>4. \A j \in 1..l : CharAt(s, j) = CharAt(w, j) /\ CharAt(w, j) # 0 BY <1>12, <2>2
  <2>5. l <= k
    <3>1. CASE l = 0 BY <3>1
    <3>2. CASE l # 0
      <4>1. l \in 1..l BY <3>2
      <4>2. CharAt(w, l) # 0 BY <2>4, <4>1
      <4> QED BY <1>4, <3>2, <4>2
    <3> QED BY <3>1, <3>2
  <2>6. k = l BY <2>3, <2>5
  <2>7. \A j \in 1..l : s[j] = w[j] BY <1>1, <1>2, <2>4, <2>6 DEF CharAt
  <2>8. \A y \in String : y \in [1..Len(y) -> Nat \ {0}] BY DEF String
  <2>9. s \in [1..l -> Nat \ {0}] /\ w \in [1..l -> Nat \ {0}] BY <1>1, <1>2, <2>6, <2>8
  <2> QED BY <2>7, <2>9
<1> QED BY <1>13, <1>14, <1>15

-----------------------------------------------------------------------------
\* Hexadecimal digits.
HexChar(d) == IF d <= 9 THEN 48 + d ELSE 97 + d - 10
HexDigit(x, m, i) == (x \div Pow(16, m - i)) % 16

LEMMA SixteenIs ==
  /\ Pow(16, 0) = 1 /\ \A n \in Nat : Pow(16, n) \in Nat \ {0} /\ Pow(16, n + 1) = 16 * Pow(16, n)
  /\ \A n \in Nat : Pow(256, n) = Pow(16, 2 * n)
<1>1. Pow(16, 0) = 1 /\ \A n \in Nat : Pow(16, n) \in Nat /\ Pow(16, n + 1) = 16 * Pow(16, n)
  <2>1. 16 \in Nat OBVIOUS
  <2>2. ArePowers(16) BY ONLY <2>1, PowIs
  <2> QED BY ONLY <2>2 DEF ArePowers
<1>2. Pow(256, 0) = 1 /\ \A n \in Nat : Pow(256, n) \in Nat /\ Pow(256, n + 1) = 256 * Pow(256, n)
  <2>1. 256 \in Nat OBVIOUS
  <2>2. ArePowers(256) BY ONLY <2>1, PowIs
  <2> QED BY ONLY <2>2 DEF ArePowers
<1>3. PICK Failing : Failing = {n \in Nat : Pow(16, n) = 0 \/ Pow(256, n) # Pow(16, 2 * n)} OBVIOUS
<1>4. ASSUME NEW n \in Failing, \A j \in Failing : n <= j PROVE FALSE
  <2>1. n \in Nat /\ (Pow(16, n) = 0 \/ Pow(256, n) # Pow(16, 2 * n)) BY <1>3
  <2>2. CASE n = 0
    <3>1. 2 * n = 0 BY <2>2
    <3> QED BY <1>1, <1>2, <2>1, <2>2, <3>1
  <2>3. CASE n # 0
    <3>1. PICK m \in Int : m = n - 1 BY <2>1
    <3>2. m \in Nat /\ m \notin Failing /\ n = m + 1 BY <1>4, <2>1, <2>3, <3>1
    <3>3. Pow(16, m) # 0 /\ Pow(256, m) = Pow(16, 2 * m) BY <1>3, <3>2
    <3>4. PICK t \in Nat : t = Pow(16, m) BY <1>1, <3>2
    <3>5. Pow(16, n) = 16 * t BY <1>1, <3>2, <3>4
    <3>6. Pow(16, n) # 0 BY <3>3, <3>4, <3>5
    <3>7. PICK k \in Nat : k = 2 * m BY <3>2
    <3>8. 2 * n = (k + 1) + 1 /\ k + 1 \in Nat BY <3>2, <3>7
    <3>9. PICK u \in Nat : u = Pow(16, k) BY <1>1
    <3>10. Pow(16, 2 * n) = 16 * (16 * u) BY <1>1, <3>8, <3>9
    <3>11. Pow(256, n) = 256 * u BY <1>2, <3>2, <3>3, <3>7, <3>9
    <3>12. 16 * (16 * u) = 256 * u OBVIOUS
    <3> QED BY <2>1, <3>6, <3>10, <3>11, <3>12
  <2> QED BY <2>2, <2>3
<1>5. Failing \in SUBSET Nat BY <1>3
<1>6. Failing # {} => \E x \in Failing : \A y \in Failing : x <= y BY ONLY <1>5, Least
<1>7. Failing = {} BY ONLY <1>4, <1>6
<1> QED BY <1>1, <1>3, <1>7

LEMMA HexIs ==
  ASSUME NEW size \in Nat \ {0}, NEW x \in Nat, NEW n \in Nat \ {0}
  PROVE  /\ to_ascii_hex(size, x, n) \in String
         /\ Len(to_ascii_hex(size, x, n)) = IF 2 * size < n - 1 THEN 2 * size ELSE n - 1
         /\ \A i \in 1..Len(to_ascii_hex(size, x, n)) :
              /\ HexDigit(x, 2 * size, i) \in 0..15
              /\ to_ascii_hex(size, x, n)[i] = HexChar(HexDigit(x, 2 * size, i))
<1>1. PICK m \in Nat : m = 2 * size OBVIOUS
<1>2. PICK l \in Nat : l = IF m < n - 1 THEN m ELSE n - 1 OBVIOUS
<1>3. PICK s : s = [i \in 1..l |-> HexChar(HexDigit(x, m, i))] OBVIOUS
<1>4. to_ascii_hex(size, x, n) = s
  BY <1>1, <1>2, <1>3 DEF to_ascii_hex, HexChar, HexDigit, ASCII_0
<1>5. ASSUME NEW i \in 1..l PROVE HexDigit(x, m, i) \in 0..15 /\ HexChar(HexDigit(x, m, i)) \in Nat \ {0}
  <2>0. i \in Int /\ i <= m BY <1>2
  <2>1. PICK k \in Int : k = m - i BY <2>0
  <2>2. k \in Nat BY <2>0, <2>1
  <2>3. PICK a \in Nat \ {0} : a = Pow(16, m - i) BY <2>1, <2>2, SixteenIs
  <2>4. PICK q \in Nat : q = x \div a BY Quotient
  <2>5. HexDigit(x, m, i) = q % 16 BY <2>3, <2>4 DEF HexDigit
  <2>6. PICK d \in 0..15 : d = HexDigit(x, m, i) BY <2>5
  <2>7. HexChar(d) \in Nat \ {0} BY DEF HexChar
  <2> QED BY <2>6, <2>7
<1>6. s \in [1..l -> Nat \ {0}] BY <1>3, <1>5
<1>7. s \in String /\ Len(s) = l
  <2>1. s \in Seq(Nat \ {0}) BY <1>6
  <2> QED BY <1>6, <2>1 DEF String
<1> QED BY <1>1, <1>2, <1>3, <1>4, <1>5, <1>7

\* The loop of ascii_hex_to.
HexReading(t, n, s, W) == t = [i \in 0..n |-> IF i = 0 THEN 0 ELSE Hex(t[i - 1], s[i]) % W]

LEMMA HexReadingExists ==
  ASSUME NEW n \in Nat, NEW s \in [1..n -> Nat], NEW W \in Nat \ {0}
  PROVE  \E t : HexReading(t, n, s, W)
<1>1. PICK step : step = [i \in 1..n |-> [v \in Nat |-> Hex(v, s[i]) % W]] OBVIOUS
<1>2. step \in [1..n -> [Nat -> Nat]]
  <2>1. ASSUME NEW i \in 1..n, NEW v \in Nat PROVE Hex(v, s[i]) % W \in Nat
    <3>1. PICK c \in Nat : c = s[i] OBVIOUS
    <3>2. Hex(v, c) \in Int BY DEF Hex, ASCII_0
    <3> QED BY <3>1, <3>2
  <2> QED BY <1>1, <2>1
<1>3. PICK f : Solution(f, n, Nat, 0, step)
  <2>1. 0 \in Nat OBVIOUS
  <2> QED BY ONLY <1>2, <2>1, n \in Nat, Recursion
<1>4. f \in [0..n -> Nat] /\ f[0] = 0 /\ \A i \in 1..n : f[i] = step[i][f[i - 1]] BY <1>3 DEF Solution
<1>5. ASSUME NEW i \in 0..n PROVE f[i] = IF i = 0 THEN 0 ELSE Hex(f[i - 1], s[i]) % W
  <2>1. CASE i = 0 BY <1>4, <2>1
  <2>2. CASE i # 0
    <3>1. i \in 1..n /\ i - 1 \in 0..n BY <2>2
    <3>2. f[i - 1] \in Nat /\ f[i] = step[i][f[i - 1]] BY <1>4, <3>1
    <3> QED BY <1>1, <2>2, <3>1, <3>2
  <2> QED BY <2>1, <2>2
<1>6. f = [i \in 0..n |-> IF i = 0 THEN 0 ELSE Hex(f[i - 1], s[i]) % W]
  <2>1. f = [i \in 0..n |-> f[i]] BY <1>4
  <2> QED BY ONLY <2>1, <1>5, Zenon
<1>7. HexReading(f, n, s, W) BY ONLY <1>6, Zenon DEF HexReading
<1> QED BY <1>7

\* ascii.c: every number of an unsigned of any size that is written in hexadecimal
\* digits into a buffer that holds them is read again as itself.
THEOREM HexBack ==
  ASSUME NEW size \in Nat \ {0}, NEW x \in Nat, x < Pow(256, size), NEW n \in Nat, n > 2 * size
  PROVE  ascii_hex_to(size, to_ascii_hex(size, x, n)) = x
<1>1. PICK m \in Nat : m = 2 * size OBVIOUS
<1>2. PICK W \in Nat \ {0} : W = Pow(256, size) /\ W = Pow(16, m) BY <1>1, SixteenIs
<1>3. PICK s : s = to_ascii_hex(size, x, n) OBVIOUS
<1>4. /\ s \in String /\ Len(s) = m
      /\ \A i \in 1..m : HexDigit(x, m, i) \in 0..15 /\ s[i] = HexChar(HexDigit(x, m, i))
  <2>1. n \in Nat \ {0} BY <1>1
  <2>2. Len(s) = IF 2 * size < n - 1 THEN 2 * size ELSE n - 1 BY <1>3, <2>1, HexIs
  <2>3. Len(s) = m BY <1>1, <2>2
  <2>4. s \in String /\ \A i \in 1..Len(s) : HexDigit(x, m, i) \in 0..15 /\ s[i] = HexChar(HexDigit(x, m, i))
    BY ONLY <1>1, <1>3, <2>1, size \in Nat \ {0}, x \in Nat, HexIs
  <2> QED BY <2>3, <2>4
<1> DEFINE long == IF Len(s) < 2 * size THEN Len(s) ELSE 2 * size
<1>5. PICK t : t = CHOOSE r : HexReading(r, long, s, Pow(256, size)) OBVIOUS
<1>6. ascii_hex_to(size, s) = t[long] BY <1>5 DEF ascii_hex_to, HexReading
<1>7. long = m BY <1>1, <1>4
<1> HIDE DEF long
<1>8. HexReading(t, m, s, W)
  <2>1. s \in [1..m -> Nat] BY <1>4 DEF String
  <2>2. \E g : HexReading(g, m, s, W) BY ONLY <2>1, m \in Nat, W \in Nat \ {0}, HexReadingExists
  <2>3. \E g : HexReading(g, long, s, Pow(256, size)) BY ONLY <1>2, <1>7, <2>2
  <2>4. HexReading(t, long, s, Pow(256, size)) BY <1>5, <2>3
  <2> QED BY ONLY <1>2, <1>7, <2>4
<1> DEFINE Read(i) == x \div Pow(16, m - i)
<1>9. \A i \in 0..m : t[i] = Read(i)
  <2>1. PICK Failing : Failing = {i \in 0..m : t[i] # Read(i)} OBVIOUS
  <2>2. ASSUME NEW i \in Failing, \A y \in Failing : i <= y PROVE FALSE
    <3>1. i \in 0..m /\ t[i] # Read(i) BY <2>1
    <3>2. CASE i = 0
      <4>1. m - 0 = m /\ 0 \in 0..m OBVIOUS
      <4>2. W * 0 = 0 OBVIOUS
      <4>3. W * 0 <= x /\ x < W * 0 + W BY <1>2, <4>2
      <4>4. x \div W = 0 BY ONLY <4>3, x \in Nat, W \in Nat \ {0}, 0 \in Nat, QuotientIs
      <4>5. t[0] = 0 BY <1>8, <4>1 DEF HexReading
      <4> QED BY <1>2, <3>1, <3>2, <4>1, <4>4, <4>5
    <3>3. CASE i # 0
      <4>1. PICK k \in Int : k = m - i BY <3>1
      <4>2. k \in Nat /\ m - (i - 1) = k + 1 /\ i \in 1..m /\ i - 1 \in 0..m /\ i - 1 \notin Failing
        BY <2>2, <3>1, <3>3, <4>1
      <4>3. PICK a \in Nat \ {0} : a = Pow(16, k) /\ Pow(16, k + 1) = 16 * a
        <5>1. Pow(16, k) \in Nat \ {0} /\ Pow(16, k + 1) = 16 * Pow(16, k) BY ONLY <4>2, SixteenIs
        <5> QED BY ONLY <5>1
      <4>4. t[i - 1] = x \div (16 * a) BY <2>1, <4>2, <4>3
      <4>5. x \div (16 * a) = (x \div a) \div 16
        <5>1. 16 \in Nat \ {0} OBVIOUS
        <5> QED BY ONLY <5>1, x \in Nat, a \in Nat \ {0}, QuotientOfQuotient
      <4>6. PICK q \in Nat : q = x \div a BY Quotient
      <4>7. PICK d \in 0..15 : d = q % 16 BY <4>6
      <4>8. HexDigit(x, m, i) = d BY <4>1, <4>3, <4>6, <4>7 DEF HexDigit
      <4>9. PICK h \in Nat : h = q \div 16 BY <4>6
      <4>10. q = 16 * h + d BY <4>7, <4>9
      <4>11. Hex(h, HexChar(d)) = 16 * h + d
        <5>1. CASE d <= 9
          <6>1. 48 + d \in Ascii(ASCII_0, 10) BY <5>1 DEF Ascii, ASCII_0
          <6>2. HexChar(d) = 48 + d BY <5>1 DEF HexChar
          <6>3. 16 * h + (48 + d) - 48 = 16 * h + d OBVIOUS
          <6> QED BY <6>1, <6>2, <6>3 DEF Hex, ASCII_0
        <5>2. CASE ~(d <= 9)
          <6>1. 97 + d - 10 \notin Ascii(ASCII_0, 10) BY <5>2 DEF Ascii, ASCII_0
          <6>2. 97 + d - 10 \in Ascii(97, 6) BY <5>2 DEF Ascii
          <6>3. HexChar(d) = 97 + d - 10 BY <5>2 DEF HexChar
          <6>4. 16 * h + (97 + d - 10) - 97 + 10 = 16 * h + d OBVIOUS
          <6> QED BY <6>1, <6>2, <6>3, <6>4 DEF Hex
        <5> QED BY <5>1, <5>2
      <4>12. t[i] = Hex(h, s[i]) % W BY <1>8, <3>1, <3>3, <4>4, <4>5, <4>6, <4>9 DEF HexReading
      <4>13. s[i] = HexChar(d) BY <1>4, <4>2, <4>8
      <4>14. t[i] = q % W BY <4>10, <4>11, <4>12, <4>13
      <4>15. q <= x
        <5>1. a * q <= x BY <4>6, Quotient
        <5>2. PICK c \in Nat : a = 1 + c OBVIOUS
        <5>3. (1 + c) * q = q + c * q OBVIOUS
        <5>4. c * q \in Nat OBVIOUS
        <5>5. a * q = q + c * q BY ONLY <5>2, <5>3
        <5> QED BY <5>1, <5>4, <5>5
      <4>16. q % W = q BY <1>2, <4>15
      <4> QED BY <3>1, <4>1, <4>3, <4>6, <4>14, <4>16
    <3> QED BY <3>2, <3>3
  <2>3. Failing \in SUBSET Nat BY <2>1
  <2>4. Failing # {} => \E y \in Failing : \A z \in Failing : y <= z BY ONLY <2>3, Least
  <2>5. Failing = {} BY ONLY <2>2, <2>4
  <2> QED BY <2>1, <2>5
<1>10. m \in 0..m /\ m - m = 0 /\ x \div 1 = x OBVIOUS
<1>11. t[m] = x
  <2>1. Pow(16, 0) = 1 BY ONLY SixteenIs
  <2> QED BY ONLY <1>9, <1>10, <2>1
<1> QED BY <1>3, <1>6, <1>7, <1>11

DecReading(t, n, s, W) == t = [i \in 0..n |-> IF i = 0 THEN 0 ELSE Decimal(t[i - 1], s[i]) % W]

\* Three digits of a byte.
LEMMA DecBack ==
  ASSUME NEW d \in [1..3 -> 0..2]
  PROVE  DecExact(d)
<1>1. PICK s : s = [i \in 1..3 |-> ASCII_0 + d[i]] OBVIOUS
<1>2. PICK a \in 0..2 : a = d[1] OBVIOUS
<1>3. PICK b \in 0..2 : b = d[2] OBVIOUS
<1>4. PICK c \in 0..2 : c = d[3] OBVIOUS
<1>5. s[1] = 48 + a /\ s[2] = 48 + b /\ s[3] = 48 + c BY <1>1, <1>2, <1>3, <1>4 DEF ASCII_0
<1> DEFINE long == IF Len(s) < 2 * 1 + 1 THEN Len(s) ELSE 2 * 1 + 1
<1>6. PICK t : t = CHOOSE r : DecReading(r, long, s, Pow(256, 1)) OBVIOUS
<1>7. ascii_dec_to(1, s) = t[long] BY <1>6 DEF ascii_dec_to, DecReading
<1>8. long = 3
  <2>1. s \in [1..3 -> Int] BY <1>1 DEF ASCII_0
  <2>2. Len(s) = 3 BY <2>1
  <2> QED BY <2>2
<1> HIDE DEF long
<1>9. Pow(256, 1) = 256
  <2>1. 256 \in Nat /\ 0 \in Nat /\ 0 + 1 = 1 /\ 256 * 1 = 256 OBVIOUS
  <2>2. Pow(256, 0) = 1 /\ \A n \in Nat : Pow(256, n + 1) = 256 * Pow(256, n)
    <3>1. 256 \in Nat OBVIOUS
    <3>2. ArePowers(256) BY ONLY <3>1, PowIs
    <3> QED BY ONLY <3>2 DEF ArePowers
  <2>3. Pow(256, 0 + 1) = 256 * Pow(256, 0) BY ONLY <2>1, <2>2
  <2> QED BY ONLY <2>1, <2>2, <2>3
<1>10. \A v \in 0..22, e \in 0..2 : Decimal(v, 48 + e) % 256 = 10 * v + e
  <2>1. ASSUME NEW v \in 0..22, NEW e \in 0..2 PROVE Decimal(v, 48 + e) % 256 = 10 * v + e
    <3>1. 48 + e \in Ascii(ASCII_0, 10) BY DEF Ascii, ASCII_0
    <3>2. Decimal(v, 48 + e) = 10 * v + e BY <3>1 DEF Decimal, ASCII_0
    <3> QED BY <3>2
  <2> QED BY <2>1
<1>11. PICK g : g = [i \in 0..3 |-> IF i = 0 THEN 0 ELSE IF i = 1 THEN a ELSE IF i = 2 THEN 10 * a + b
                                   ELSE 10 * (10 * a + b) + c] OBVIOUS
<1>12. 0 \in 0..22 /\ a \in 0..22 /\ 10 * a + b \in 0..22 OBVIOUS
<1>13. ASSUME NEW i \in 0..3 PROVE g[i] = IF i = 0 THEN 0 ELSE Decimal(g[i - 1], s[i]) % 256
  <2>1. CASE i = 0 BY <1>11, <2>1
  <2>2. CASE i = 1
    <3>1. g[i - 1] = 0 /\ g[i] = a /\ s[i] = 48 + a BY <1>5, <1>11, <2>2
    <3> QED BY <1>10, <1>12, <2>2, <3>1
  <2>3. CASE i = 2
    <3>1. g[i - 1] = a /\ g[i] = 10 * a + b /\ s[i] = 48 + b BY <1>5, <1>11, <2>3
    <3> QED BY <1>10, <1>12, <2>3, <3>1
  <2>4. CASE i = 3
    <3>1. g[i - 1] = 10 * a + b /\ g[i] = 10 * (10 * a + b) + c /\ s[i] = 48 + c BY <1>5, <1>11, <2>4
    <3> QED BY <1>10, <1>12, <2>4, <3>1
  <2> QED BY <2>1, <2>2, <2>3, <2>4
<1>14. DecReading(g, 3, s, 256) BY <1>11, <1>13 DEF DecReading
<1>15. DecReading(t, 3, s, 256)
  <2>1. DecReading(g, long, s, Pow(256, 1)) BY ONLY <1>8, <1>9, <1>14
  <2>2. DecReading(t, long, s, Pow(256, 1)) BY <1>6, <2>1
  <2> QED BY ONLY <1>8, <1>9, <2>2
<1>16. t[0] = 0 /\ t[1] = Decimal(t[0], s[1]) % 256 /\ t[2] = Decimal(t[1], s[2]) % 256
       /\ t[3] = Decimal(t[2], s[3]) % 256
  BY <1>15 DEF DecReading
<1>17. t[1] = a BY <1>5, <1>10, <1>12, <1>16
<1>18. t[2] = 10 * a + b BY <1>5, <1>10, <1>12, <1>16, <1>17
<1>19. t[3] = 10 * (10 * a + b) + c BY <1>5, <1>10, <1>12, <1>16, <1>18
<1>20. t[3] = 100 * a + 10 * b + c BY <1>19
<1> QED BY <1>1, <1>2, <1>3, <1>4, <1>7, <1>8, <1>20 DEF DecExact

\* As many digits as a checksum can have.
LEMMA EnoughDigits == \E m : Holds(m) /\ 2000 <= Ten(m) /\ 255 * FM_SIZE < Ten(m)
<1>1. PICK m \in 4..9 : 255 * FM_SIZE < Ten(m) /\ Ten(m) < WORD BY WordAssumption DEF Ten
<1>2. Holds(m) BY <1>1 DEF Holds
<1>3. 0 \in Nat /\ 1 \in Nat /\ 2 \in Nat /\ 3 \in Nat /\ 4 \in 0..m /\ m \in Nat
      /\ 0 + 1 = 1 /\ 1 + 1 = 2 /\ 2 + 1 = 3 /\ 3 + 1 = 4 OBVIOUS
<1>4. Ten(0) = 1 /\ Ten(0 + 1) = 10 * Ten(0) /\ Ten(1 + 1) = 10 * Ten(1) /\ Ten(2 + 1) = 10 * Ten(2)
      /\ Ten(3 + 1) = 10 * Ten(3) /\ Ten(4) <= Ten(m) /\ Ten(m) \in Nat
  BY ONLY <1>3, TenIs
<1>5. Ten(4) = 10000 BY ONLY <1>3, <1>4
<1>6. PICK t \in Nat : t = Ten(m) BY <1>4
<1>7. 2000 <= Ten(m) BY <1>4, <1>5, <1>6
<1> QED BY <1>1, <1>2, <1>7

LEMMA LibraryIs == LibraryExact
<1>1. PICK m : Holds(m) /\ 2000 <= Ten(m) BY EnoughDigits
<1>2. ASSUME NEW v \in Numbered PROVE IsTrimmedNumeral(uint64_to_str(v), v)
  <2>0. v \in Nat /\ v < 2000 BY DEF Numbered
  <2>1. v \in Nat /\ v < Ten(m)
    <3>1. PICK t \in Nat : t = Ten(m)
      <4>1. m \in Nat BY <1>1 DEF Holds
      <4> QED BY <4>1, TenIs
    <3> QED BY <1>1, <2>0, <3>1
  <2> QED BY ONLY <1>1, <2>1, Numeral
<1>3. ASSUME NEW size \in 1..2, NEW v \in {0, 9, 10, 90, 171, 255}, NEW n \in 1..(2 * size + 2)
      PROVE  HexExact(size, v, n)
  <2>1. size \in Nat \ {0} /\ n \in Nat \ {0} /\ n \in Nat /\ v \in Nat OBVIOUS
  <2>2. PICK s : s = to_ascii_hex(size, v, n) OBVIOUS
  <2>3. s \in String /\ Len(s) = IF 2 * size < n - 1 THEN 2 * size ELSE n - 1 BY ONLY <2>1, <2>2, HexIs
  <2>4. strlen(s) < n
    <3>1. strlen(s) = Len(s) BY ONLY <2>3, StrlenIs
    <3> QED BY <2>1, <2>3, <3>1
  <2>5. ASSUME n > 2 * size PROVE ascii_hex_to(size, s) = v
    <3>1. v < Pow(256, size)
      <4>1. 256 \in Nat /\ 0 \in Nat /\ 1 \in Nat /\ 0 + 1 = 1 /\ 1 + 1 = 2 /\ 256 * 1 = 256 /\ v < 256 /\ 256 < 256 * 256 OBVIOUS
      <4>2. Pow(256, 0) = 1 /\ \A i \in Nat : Pow(256, i + 1) = 256 * Pow(256, i)
        <5>1. ArePowers(256) BY ONLY <4>1, PowIs
        <5> QED BY ONLY <5>1 DEF ArePowers
      <4>3. Pow(256, 0 + 1) = 256 * Pow(256, 0) /\ Pow(256, 1 + 1) = 256 * Pow(256, 1) BY ONLY <4>1, <4>2
      <4>4. Pow(256, 1) = 256 /\ Pow(256, 2) = 256 * 256 BY ONLY <4>1, <4>2, <4>3
      <4>5. CASE size = 1 BY <4>1, <4>4, <4>5
      <4>6. CASE size = 2 BY <4>1, <4>4, <4>6
      <4> QED BY <4>5, <4>6
    <3> QED BY ONLY <2>1, <2>2, <2>5, <3>1, HexBack
  <2>6. ASSUME NEW w \in {0, 9, 10, 90, 171, 255}
        PROVE  (strcmp(s, to_ascii_hex(size, w, n)) = 0) = (s = to_ascii_hex(size, w, n))
    <3>1. w \in Nat OBVIOUS
    <3>2. PICK u : u = to_ascii_hex(size, w, n) OBVIOUS
    <3>3. u \in String BY ONLY <2>1, <3>1, <3>2, HexIs
    <3>4. (strcmp(s, u) = 0) = (s = u) BY ONLY <2>3, <3>3, StrcmpIs
    <3> QED BY <3>2, <3>4
  <2> QED BY <2>2, <2>4, <2>5, <2>6 DEF HexExact
<1>4. ASSUME NEW size \in 1..2, NEW v \in {0, 9, 10, 90, 171, 255}
      PROVE  \A n \in 1..(2 * size + 2) : HexExact(size, v, n)
  BY ONLY <1>3
<1> QED BY ONLY <1>2, <1>4, DecBack DEF LibraryExact

-----------------------------------------------------------------------------
(* Programs.  The table of descriptors is exact in them, too.                *)

FilesOK ==
  /\ data \in [FILES -> Seq(BYTE)]
  /\ \A n \in DOMAIN dir : dir[n] \in FILES \ {STDIN, STDOUT}
  /\ \A m, n \in DOMAIN dir : dir[m] = dir[n] => m = n
\* The one descriptor that a program has open leads to a file, where it starts.
Leads(file) == fd = 3 /\ lookup(3) \in DOMAIN open /\ open[lookup(3)] = file /\ offset[lookup(3)] = 0
BuffersOK == tmem \in [DOMAIN BUFFERS -> Seq(BYTE)]
FileOpen(n) == n \in DOMAIN dir /\ Leads(dir[n]) /\ DOMAIN holds = 0..3

\* What openat has done when it has not failed.
FileKept(m) == m \in DOMAIN dir' /\ dir'[m] = dir[m] /\ data'[dir'[m]] = data[dir[m]]
OpenedTo(n) ==
  /\ ret' = 3 /\ DOMAIN holds' = 0..3 /\ 4 \in DOMAIN fds' /\ fds'[4] \in DOMAIN open'
  /\ n \in DOMAIN dir' /\ open'[fds'[4]] = dir'[n] /\ offset'[fds'[4]] = 0
  /\ \A m \in DOMAIN dir : FileKept(m)

LEMMA OpenIs ==
  ASSUME FdsInv, FilesOK, DOMAIN holds = 0..2, NEW n, NEW creat, sys_openat(AT_FDCWD, n, creat), ~(ret' < 0)
  PROVE  OpenedTo(n) /\ FilesOK' /\ UNCHANGED <<tmem, printed, exit>>
<1>1. PICK h \in HOST, f \in FILES :
        /\ \/ n \in DOMAIN dir /\ f = dir[n] /\ UNCHANGED <<dir, data>>
           \/ n \notin DOMAIN dir /\ Unused(f) /\ dir' = Names(n, f) /\ data' = [data EXCEPT ![f] = <<>>]
        /\ open' = [g \in DOMAIN open \cup {h} |-> IF g = h THEN f ELSE open[g]]
        /\ offset'  = [g \in DOMAIN open \cup {h} |-> IF g = h THEN 0 ELSE offset[g]]
        /\ alloc(h)
        /\ holds' = [gd \in DOMAIN holds \cup {ret'} |-> IF gd = ret' THEN f ELSE holds[gd]]
  <2>1. ~sysret_errno BY SyscallsAssumption DEF sysret_errno
  <2> QED BY <2>1 DEF sys_openat
<1>2. fds \in Seq(HOST \cup {-1}) /\ Live = 0..2 BY DEF FdsInv, TableOK, FdsExact
<1>3. PICK i \in 1..(Len(fds) + 1) :
        /\ \A j \in 1..(i - 1) : fds[j] # -1
        /\ i <= Len(fds) => fds[i] = -1
        /\ fds' = IF i > Len(fds) THEN Append(fds, h) ELSE [fds EXCEPT ![i] = h]
        /\ ret' = i - 1
  BY <1>1 DEF alloc
<1>4. i = 4
  <2>1. PICK l \in Nat : l = Len(fds) BY <1>2
  <2>2. Live = {gd \in 0..(l - 1) : fds[gd + 1] # -1} BY <2>1 DEF Live
  <2>3. 0 \in Live /\ 1 \in Live /\ 2 \in Live /\ 3 \notin Live BY <1>2
  <2>4. l >= 3 /\ fds[1] # -1 /\ fds[2] # -1 /\ fds[3] # -1 BY <2>2, <2>3
  <2>5. l >= 4 => fds[4] = -1 BY <2>2, <2>3
  <2>6. i \in 1..(l + 1) /\ i # 1 /\ i # 2 /\ i # 3 BY <1>3, <2>1, <2>4
  <2>7. i > 4 => 4 \in 1..(i - 1) /\ l >= 4 BY <2>6
  <2> QED BY <1>3, <2>5, <2>6, <2>7
<1>5. 4 \in DOMAIN fds' /\ fds'[4] = h
  <2> DEFINE D == HOST \cup {-1}
  <2>1. h \in D /\ fds \in Seq(D) BY <1>2
  <2> HIDE DEF D
  <2>2. CASE i > Len(fds)
    <3>1. PICK l \in Nat : l = Len(fds) BY <2>1
    <3>2. fds' = Append(fds, h) /\ l = 3 BY <1>3, <1>4, <2>2, <3>1
    <3>3. PICK a : a = Append(fds, h) OBVIOUS
    <3>4. DOMAIN a = 1..(l + 1) /\ a[l + 1] = h BY <2>1, <3>1, <3>3
    <3>5. l + 1 = 4 /\ 4 \in 1..4 BY <3>2
    <3>6. fds' = a BY <3>2, <3>3
    <3>7. DOMAIN a = 1..4 /\ a[4] = h BY <3>4, <3>5
    <3> QED BY ONLY <3>5, <3>6, <3>7
  <2>3. CASE i <= Len(fds)
    <3>1. fds' = [fds EXCEPT ![4] = h] /\ 4 \in DOMAIN fds BY <1>3, <1>4, <2>1, <2>3
    <3> QED BY <3>1
  <2> QED BY <2>1, <2>2, <2>3
<1>6. ret' = 3 /\ DOMAIN holds' = 0..3 BY <1>1, <1>3, <1>4
<1>7. h \in DOMAIN open' /\ open'[h] = f /\ offset'[h] = 0 BY <1>1
<1>8. CASE n \in DOMAIN dir /\ f = dir[n] /\ UNCHANGED <<dir, data>>
  <2>1. FilesOK' BY <1>8 DEF FilesOK
  <2>2. \A m \in DOMAIN dir : FileKept(m) BY <1>8 DEF FileKept
  <2> QED BY <1>5, <1>6, <1>7, <1>8, <2>1, <2>2 DEF OpenedTo, sys_openat, rest
<1>9. CASE n \notin DOMAIN dir /\ Unused(f) /\ dir' = Names(n, f) /\ data' = [data EXCEPT ![f] = <<>>]
  <2>1. f \notin {STDIN, STDOUT} /\ \A m \in DOMAIN dir : dir[m] # f BY <1>9 DEF Unused
  <2>2. DOMAIN dir' = DOMAIN dir \cup {n} /\ dir'[n] = f /\ \A m \in DOMAIN dir : dir'[m] = dir[m]
    BY <1>9 DEF Names
  <2>3. <<>> \in Seq(BYTE) OBVIOUS
  <2>4. data' \in [FILES -> Seq(BYTE)] /\ \A g \in FILES : g # f => data'[g] = data[g]
    BY <1>9, <2>3 DEF FilesOK
  <2>5. FilesOK' BY <2>1, <2>2, <2>4 DEF FilesOK
  <2>6. \A m \in DOMAIN dir : FileKept(m) BY <2>1, <2>2, <2>4 DEF FilesOK, FileKept
  <2> QED BY <1>5, <1>6, <1>7, <2>2, <2>5, <2>6 DEF OpenedTo, sys_openat, rest
<1> QED BY <1>1, <1>8, <1>9

\* From there on.
LEMMA LeadsThere ==
  ASSUME NEW n, OpenedTo(n), fd' = ret' PROVE FileOpen(n)'
BY DEF OpenedTo, FileOpen, Leads, lookup, AT_FDCWD

\* The first bytes of a file, in front of what is in a buffer.
Prefix(bytes, k) == SubSeq(bytes, 1, IF k > Len(bytes) THEN Len(bytes) ELSE k)
Stored(bytes, new) == new \o SubSeq(bytes, Len(new) + 1, Len(bytes))

IsStored(s, bytes, new) ==
  /\ s \in Seq(BYTE) /\ Len(s) = (IF Len(new) < Len(bytes) THEN Len(bytes) ELSE Len(new))
  /\ \A i \in 1..Len(new) : s[i] = new[i]
  /\ \A i \in 1..Len(bytes) : i > Len(new) => s[i] = bytes[i]

LEMMA StoredIs ==
  ASSUME NEW bytes \in Seq(BYTE), NEW new \in Seq(BYTE)
  PROVE  IsStored(Stored(bytes, new), bytes, new)
<1>1. PICK n \in Nat : n = Len(new) OBVIOUS
<1>2. PICK l \in Nat : l = Len(bytes) OBVIOUS
<1>3. PICK tail : tail = SubSeq(bytes, n + 1, l) OBVIOUS
<1>4. CASE n < l
  <2>1. /\ tail \in Seq(BYTE) /\ Len(tail) = l - n
        /\ \A i \in 1..(l - n) : tail[i] = bytes[n + i]
    <3>1. n + 1 \in 1..l /\ l - n \in Nat BY <1>4
    <3> QED BY <1>2, <1>3, <1>4, <3>1
  <2>2. Stored(bytes, new) = new \o tail BY <1>1, <1>2, <1>3 DEF Stored
  <2>3. /\ new \o tail \in Seq(BYTE) /\ Len(new \o tail) = l
        /\ \A i \in 1..n : (new \o tail)[i] = new[i]
    <3>1. tail \in Seq(BYTE) /\ Len(tail) = l - n BY <2>1
    <3>2. \A s, t \in Seq(BYTE) : /\ s \o t \in Seq(BYTE) /\ Len(s \o t) = Len(s) + Len(t)
                                  /\ \A i \in 1..Len(s) : (s \o t)[i] = s[i]
      OBVIOUS
    <3> QED BY <1>1, <1>4, <3>1, <3>2
  <2>4. ASSUME NEW i \in 1..l, i > n PROVE (new \o tail)[i] = bytes[i]
    <3>1. PICK j \in Int : j = i - n OBVIOUS
    <3>2. j \in 1..(l - n) /\ n + j = i BY <1>4, <2>4, <3>1
    <3>3. (new \o tail)[i] = tail[j] BY <1>1, <2>1, <2>4, <3>1, <3>2
    <3> QED BY <2>1, <3>2, <3>3
  <2> QED BY <1>1, <1>2, <1>4, <2>2, <2>3, <2>4 DEF IsStored
<1>5. CASE ~(n < l)
  <2>1. tail = <<>> BY <1>2, <1>3, <1>5
  <2>2. Stored(bytes, new) = new BY <1>1, <1>2, <1>3, <2>1 DEF Stored
  <2> QED BY <1>1, <1>2, <1>5, <2>2 DEF IsStored
<1> QED BY <1>4, <1>5

LEMMA PrefixIs ==
  ASSUME NEW bytes \in Seq(BYTE), NEW k \in Nat
  PROVE  /\ Prefix(bytes, k) \in Seq(BYTE)
         /\ Len(Prefix(bytes, k)) = IF k > Len(bytes) THEN Len(bytes) ELSE k
         /\ \A i \in 1..Len(Prefix(bytes, k)) : Prefix(bytes, k)[i] = bytes[i]
<1>1. PICK l \in Nat : l = Len(bytes) OBVIOUS
<1>2. PICK m \in Nat : m = IF k > l THEN l ELSE k OBVIOUS
<1>3. SubSeq(bytes, 1, m) \in Seq(BYTE) /\ Len(SubSeq(bytes, 1, m)) = m
      /\ \A i \in 1..m : SubSeq(bytes, 1, m)[i] = bytes[i]
  BY <1>1, <1>2
<1> QED BY <1>1, <1>2, <1>3 DEF Prefix

LEMMA ReadIs ==
  ASSUME FilesOK, BuffersOK, NEW n, FileOpen(n), NEW p \in DOMAIN BUFFERS, NEW k \in Nat,
         sys_read(fd, p, k), ~(ret' < 0)
  PROVE  /\ tmem' = [tmem EXCEPT ![p] = Stored(@, Prefix(data[dir[n]], k))]
         /\ UNCHANGED <<disk, fds, open, raw, holds, printed, exit>>
<1>1. PICK h : h = lookup(3) OBVIOUS
<1>2. /\ h \in DOMAIN open /\ open[h] = dir[n] /\ offset[h] = 0 /\ fd = 3
      /\ dir[n] \in FILES \ {STDIN, STDOUT}
  BY <1>1 DEF FileOpen, Leads, FilesOK
<1>3. IsFile(h) /\ ~IsTerminal(h) BY <1>2 DEF IsFile, IsTerminal, IsOpen
<1>4. ~sysret_errno BY SyscallsAssumption DEF sysret_errno
<1>5. PICK bytes \in Seq(BYTE) : bytes = data[dir[n]] BY <1>2 DEF FilesOK
<1>6. PICK got : got = Prefix(bytes, k) OBVIOUS
<1>7. Bytes(open[h], offset[h], k) = got
  <2>1. 0 + k = k /\ 0 + 1 = 1 OBVIOUS
  <2> QED BY <1>2, <1>5, <1>6, <2>1 DEF Bytes, Prefix
<1>8. Got(p, got)
  BY <1>1, <1>2, <1>3, <1>4, <1>7 DEF sys_read
<1>9. tmem' = [tmem EXCEPT ![p] = Stored(@, got)]
  <2>1. CASE got = <<>>
    <3>1. tmem' = tmem BY <1>8, <2>1 DEF Got
    <3>2. Stored(tmem[p], <<>>) = tmem[p]
      <4>1. Len(<<>>) = 0 /\ 0 + 1 = 1 OBVIOUS
      <4>2. Stored(tmem[p], <<>>) = SubSeq(tmem[p], 1, Len(tmem[p])) BY <4>1 DEF Stored
      <4>3. tmem[p] \in Seq(BYTE) BY DEF BuffersOK
      <4> QED BY <4>2, <4>3
    <3>3. tmem = [tmem EXCEPT ![p] = tmem[p]] BY DEF BuffersOK
    <3> QED BY <2>1, <3>1, <3>2, <3>3
  <2>2. CASE got # <<>> BY <1>8, <2>2 DEF Got, Store, Stored
  <2> QED BY <2>1, <2>2
<1> QED BY <1>5, <1>6, <1>9 DEF sys_read, rest, disk

LEMMA WriteIs ==
  ASSUME FilesOK, NEW n, FileOpen(n), NEW p, tmem[p] \in Seq(BYTE), NEW k \in Nat, k <= Len(tmem[p]),
         sys_write(fd, p, k), ~(ret' < 0)
  PROVE  /\ FilesOK' /\ \A m \in DOMAIN dir : m # n => data'[dir[m]] = data[dir[m]]
         /\ Len(data'[dir[n]]) >= k /\ SubSeq(data'[dir[n]], 1, k) = SubSeq(tmem[p], 1, k)
         /\ UNCHANGED <<dir, fds, open, raw, holds, tmem, printed, exit>>
<1>1. PICK h : h = lookup(3) OBVIOUS
<1>2. /\ h \in DOMAIN open /\ open[h] = dir[n] /\ offset[h] = 0 /\ fd = 3
      /\ dir[n] \in FILES \ {STDIN, STDOUT}
  BY <1>1 DEF FileOpen, Leads, FilesOK
<1>3. IsFile(h) /\ ~IsTerminal(h) BY <1>2 DEF IsFile, IsTerminal, IsOpen
<1>4. ~sysret_errno BY SyscallsAssumption DEF sysret_errno
<1>5. PICK bytes \in Seq(BYTE) : bytes = data[dir[n]] BY <1>2 DEF FilesOK
<1>6. PICK new : new = SubSeq(tmem[p], 1, k) OBVIOUS
<1>7. new \in Seq(BYTE) /\ Len(new) = k /\ \A i \in 1..k : new[i] \in BYTE BY <1>6
<1>8. PICK out : out = IF k = 0 THEN bytes ELSE Overwrite(bytes, 0, new) OBVIOUS
<1>9. WriteAt(h, p, k, 0)
  BY <1>1, <1>2, <1>3, <1>4 DEF sys_write
<1>10. data' = [data EXCEPT ![dir[n]] = out] BY <1>2, <1>5, <1>6, <1>8, <1>9 DEF WriteAt
<1>11. out \in Seq(BYTE) /\ Len(out) >= k /\ \A i \in 1..k : out[i] = new[i]
  <2>1. CASE k = 0 BY <1>8, <2>1
  <2>2. CASE k # 0
    <3>1. PICK l \in Nat : l = Len(bytes) OBVIOUS
    <3>2. PICK m \in Nat : m = IF l > k THEN l ELSE k OBVIOUS
    <3>3. 0 + k = k /\ 0 + 1 = 1 OBVIOUS
    <3>4. out = [i \in 1..m |-> IF i \in 1..k THEN new[i - 0] ELSE IF i <= l THEN bytes[i] ELSE 0]
      BY <1>7, <1>8, <2>2, <3>1, <3>2, <3>3 DEF Overwrite
    <3>5. \A i \in 1..k : i \in 1..m /\ i - 0 = i BY <3>2
    <3>6. \A i \in 1..k : out[i] = new[i] BY <3>4, <3>5
    <3>7. \A i \in 1..m : out[i] \in BYTE
      <4>1. 0 \in BYTE BY DEF BYTE
      <4>2. \A i \in 1..l : bytes[i] \in BYTE BY <3>1
      <4>3. \A i \in 1..m : ~(i \in 1..k) /\ i <= l => i \in 1..l OBVIOUS
      <4> QED BY <1>7, <3>4, <3>6, <4>1, <4>2, <4>3
    <3>8. out \in [1..m -> BYTE] BY <3>4, <3>7
    <3>9. out \in Seq(BYTE) /\ Len(out) = m BY <3>8
    <3> QED BY <3>2, <3>6, <3>9
  <2> QED BY <2>1, <2>2
<1>12. SubSeq(out, 1, k) = new
  <2>1. SubSeq(out, 1, k) \in Seq(BYTE) /\ Len(SubSeq(out, 1, k)) = k /\ \A i \in 1..k : SubSeq(out, 1, k)[i] = out[i]
    BY <1>11
  <2>2. \A s \in Seq(BYTE) : s \in [1..Len(s) -> BYTE] OBVIOUS
  <2>3. SubSeq(out, 1, k) \in [1..k -> BYTE] /\ new \in [1..k -> BYTE] BY <1>7, <2>1, <2>2
  <2> QED BY <1>11, <2>1, <2>3
<1>13. dir' = dir /\ UNCHANGED <<fds, open, raw, holds, tmem, printed, exit>> BY DEF sys_write, rest
<1>14. data' \in [FILES -> Seq(BYTE)] /\ data'[dir[n]] = out /\ \A g \in FILES : g # dir[n] => data'[g] = data[g]
  BY <1>2, <1>10, <1>11 DEF FilesOK
<1>15. n \in DOMAIN dir BY DEF FileOpen
<1>16. FilesOK' BY <1>13, <1>14 DEF FilesOK
<1>17. \A m \in DOMAIN dir : m # n => data'[dir[m]] = data[dir[m]] BY <1>14, <1>15 DEF FilesOK
<1> QED BY <1>6, <1>11, <1>12, <1>13, <1>14, <1>16, <1>17

LEMMA CloseIs ==
  ASSUME DOMAIN holds = 0..3, fd = 3, sys_close(fd), ~(ret' < 0)
  PROVE  DOMAIN holds' = 0..2 /\ UNCHANGED <<disk, tmem, printed, exit>>
<1>1. ~sysret_errno BY SyscallsAssumption DEF sysret_errno
<1>2. holds' = [f \in DOMAIN holds \ {3} |-> holds[f]] BY <1>1 DEF sys_close
<1>3. (0..3) \ {3} = 0..2 OBVIOUS
<1> QED BY <1>2, <1>3 DEF sys_close, rest, disk

\* A string in a buffer ends at its first zero.
LEMMA CStringIs ==
  ASSUME NEW bytes \in Seq(BYTE), NEW n \in Nat, n < Len(bytes), bytes[n + 1] = 0,
         \A j \in 1..n : bytes[j] # 0
  PROVE  CString(bytes) = SubSeq(bytes, 1, n)
<1>1. PICK l \in Nat : l = Len(bytes) OBVIOUS
<1>2. PICK ends : ends = {i \in 1..l : bytes[i] = 0 /\ \A j \in 1..(i - 1) : bytes[j] # 0} OBVIOUS
<1>3. n + 1 \in ends
  <2>1. n + 1 \in 1..l /\ (n + 1) - 1 = n BY <1>1
  <2> QED BY <1>2, <2>1
<1>4. ASSUME NEW i \in ends PROVE i = n + 1
  <2>1. i \in 1..l /\ bytes[i] = 0 /\ \A j \in 1..(i - 1) : bytes[j] # 0 BY <1>2
  <2>2. ~(i \in 1..n) BY <2>1
  <2>3. ~(n + 1 \in 1..(i - 1)) BY <2>1
  <2> QED BY <2>1, <2>2, <2>3
<1>5. (CHOOSE i \in ends : TRUE) = n + 1 BY <1>3, <1>4
<1>6. CString(bytes) = SubSeq(bytes, 1, (CHOOSE i \in ends : TRUE) - 1) BY <1>1, <1>2, <1>3 DEF CString
<1>7. (n + 1) - 1 = n OBVIOUS
<1> QED BY <1>5, <1>6, <1>7

LEMMA FdsProgram == FdsInv /\ [ProgramsNext]_programsVars => FdsInv'
<1> SUFFICES ASSUME FdsInv, [ProgramsNext]_programsVars PROVE FdsInv' OBVIOUS
<1>1. UNCHANGED table => UNCHANGED tableVars BY DEF table, tableVars
<1>2. UNCHANGED sysVars => UNCHANGED table BY DEF sysVars
<1>3. CASE UNCHANGED programsVars BY <1>1, <1>2, <1>3, Untouched DEF programsVars
<1>4. CASE tohost_printstr BY <1>1, <1>4, Untouched DEF tohost_printstr, sys_printstr
<1>5. CASE tohost_open BY <1>5, OpenKept DEF tohost_open
<1>6. CASE tohost_read BY <1>6, Untouched DEF tohost_read, sys_read, tableVars
<1>7. CASE tohost_write BY <1>7, Untouched DEF tohost_write, sys_write, tableVars
<1>8. CASE tohost_close BY <1>8, CloseKept DEF tohost_close
<1>9. CASE Number BY <1>1, <1>2, <1>9, Untouched DEF Number, Done
<1>10. CASE Terminate \/ Widen \/ Convolve \/ CombineFeatures \/ Insertion \/ Fill \/ tohost_exit \/ Leave
  BY <1>1, <1>10, Untouched
     DEF Terminate, Widen, Convolve, CombineFeatures, Insertion, Fill, tohost_exit, Leave, Done
<1>11. CASE AnyCall
  <2>1. PICK n \in ANY[prog].numbers : dispatch(n) BY <1>11 DEF AnyCall
  <2>2. n \in Numbers BY <1>11, <2>1, ProgramsAssumption DEF AnyCall
  <2>3. SysNext BY <2>1, <2>2 DEF SysNext
  <2> QED BY <2>3, FdsStep
<1>12. CASE BareTurn BY <1>1, <1>2, <1>12, Untouched DEF BareTurn
<1> QED BY <1>3, <1>4, <1>5, <1>6, <1>7, <1>8, <1>9, <1>10, <1>11, <1>12 DEF ProgramsNext

\* syscall.cc:484, syscall.h:16: also while the repository's programs run, and the
\* ones that make any calls, each descriptor that a program holds leads to the
\* file it was opened for and no two share one of the host's, whatever calls fail,
\* but for those that the host has released in a close that failed, as above.
THEOREM FdsPrograms == ProgramsSpec => []FdsExact
<1>1. ProgramsInit => FdsInv BY FdsInit DEF ProgramsInit
<1>2. FdsInv => FdsExact BY DEF FdsInv
<1> QED BY <1>1, <1>2, FdsProgram, PTL DEF ProgramsSpec

-----------------------------------------------------------------------------
(* sobel and sobel-approx: the file they write is the edges of the image that*)
(* they read, and they print its checksum.                                   *)

LEMMA MainIs ==
  /\ prog = "moreThanExit" => Main = moreThanExit
  /\ prog \in {"sobel", "sobel-approx"} => Main = sobel
  /\ prog = "sobel-bare" => Main = sobel_bare
  /\ prog = "insertionSort" => Main = insertionSort(Len(A))
  /\ prog = "simple" => Main = simple
  /\ prog = "c_example" => Main = c_example
  /\ prog = "hello" => Main = hello
  /\ prog \in DOMAIN ANY \cup DOMAIN Bare => Main = <<>>
<1>1. DOMAIN Bare = {"c_hello", "asm_example"} BY DEF Bare
<1>2. \A p \in DOMAIN ANY : p \notin Named \cup DOMAIN Bare BY NamesAssumption
<1> QED BY <1>1, <1>2 DEF Main, Named, sobel_approx

LEMMA SobelStatements ==
  /\ Len(sobel) = 21
  /\ sobel[1] = St("print", "read", 0) /\ sobel[2] = St("open", "lena.img.bin", 0)
  /\ sobel[3] = St("read", "ifm_buf", FM_SIZE) /\ sobel[4] = St("close", "", 0) /\ sobel[5] = St("widen", "", 0)
  /\ sobel[6] = St("print", "read done", 0) /\ sobel[7] = St("print", "idx", 0) /\ sobel[8] = St("conv_x", "", 0)
  /\ sobel[9] = St("print", "idy", 0) /\ sobel[10] = St("conv_y", "", 0) /\ sobel[11] = St("print", "combine", 0)
  /\ sobel[12] = St("combine", "", 0) /\ sobel[13] = St("print", "checksum", 0)
  /\ sobel[14] = St("checksum", "ibuf", 0) /\ sobel[15] = St("printbuf", "ibuf", 0)
  /\ sobel[16] = St("print", "line", 0) /\ sobel[17] = St("print", "output", 0)
  /\ sobel[18] = St("create", "sobel.out", 0) /\ sobel[19] = St("write", "ifm_buf", FM_SIZE)
  /\ sobel[20] = St("close", "", 0) /\ sobel[21] = St("exit", "", 0)
BY DEF sobel, Say, Do

LEMMA OpIs == \A op, x, n : St(op, x, n).op = op /\ St(op, x, n).x = x /\ St(op, x, n).n = n
BY DEF St

LEMMA SobelAt ==
  ASSUME Main = sobel, NEW op, Now(op)
  PROVE  /\ pc \in 1..21
         /\ op = "print" => pc \in {1, 6, 7, 9, 11, 13, 16, 17}
         /\ (op = "open" => pc = 2) /\ (op = "create" => pc = 18) /\ (op = "read" => pc = 3)
         /\ (op = "write" => pc = 19) /\ (op = "close" => pc \in {4, 20}) /\ (op = "widen" => pc = 5)
         /\ (op = "conv_x" => pc = 8) /\ (op = "conv_y" => pc = 10) /\ (op = "combine" => pc = 12)
         /\ (op = "checksum" => pc = 14) /\ (op = "printbuf" => pc = 15) /\ (op = "exit" => pc = 21)
         /\ op \notin {"number", "terminate", "select", "fill", "return"}
<1>1. pc \in 1..21 /\ sobel[pc].op = op BY SobelStatements DEF Now, st
<1>2. /\ sobel[1].op = "print" /\ sobel[2].op = "open" /\ sobel[3].op = "read" /\ sobel[4].op = "close"
      /\ sobel[5].op = "widen" /\ sobel[6].op = "print" /\ sobel[7].op = "print" /\ sobel[8].op = "conv_x"
      /\ sobel[9].op = "print" /\ sobel[10].op = "conv_y" /\ sobel[11].op = "print" /\ sobel[12].op = "combine"
      /\ sobel[13].op = "print" /\ sobel[14].op = "checksum" /\ sobel[15].op = "printbuf" /\ sobel[16].op = "print"
      /\ sobel[17].op = "print" /\ sobel[18].op = "create" /\ sobel[19].op = "write" /\ sobel[20].op = "close"
      /\ sobel[21].op = "exit"
  BY DEF sobel, Say, Do, St
<1>3. \/ (pc = 1 /\ op = "print") \/ (pc = 2 /\ op = "open") \/ (pc = 3 /\ op = "read")
      \/ (pc = 4 /\ op = "close") \/ (pc = 5 /\ op = "widen") \/ (pc = 6 /\ op = "print")
      \/ (pc = 7 /\ op = "print") \/ (pc = 8 /\ op = "conv_x") \/ (pc = 9 /\ op = "print")
      \/ (pc = 10 /\ op = "conv_y") \/ (pc = 11 /\ op = "print") \/ (pc = 12 /\ op = "combine")
      \/ (pc = 13 /\ op = "print") \/ (pc = 14 /\ op = "checksum") \/ (pc = 15 /\ op = "printbuf")
      \/ (pc = 16 /\ op = "print") \/ (pc = 17 /\ op = "print") \/ (pc = 18 /\ op = "create")
      \/ (pc = 19 /\ op = "write") \/ (pc = 20 /\ op = "close") \/ (pc = 21 /\ op = "exit")
  BY <1>1, <1>2
<1> QED BY <1>1, <1>3

\* t is the sequence s with an element e behind it.
Appended(s, e, t) ==
  /\ \E S : t \in Seq(S)
  /\ Len(s) \in Nat /\ Len(t) = Len(s) + 1 /\ t[Len(s) + 1] = e
  /\ \A i \in 1..Len(s) : t[i] = s[i]

LEMMA AppendIs ==
  ASSUME NEW s, \E S : s \in Seq(S), NEW e
  PROVE  Appended(s, e, Append(s, e))
<1>1. PICK S : s \in Seq(S) OBVIOUS
<1>2. PICK T : T = S \cup {e} OBVIOUS
<1>3. PICK n \in Nat : n = Len(s) BY <1>1
<1>4. s \in [1..n -> T]
  <2>1. s \in [1..n -> S] BY <1>1, <1>3
  <2> QED BY <1>2, <2>1
<1>5. s \in Seq(T) /\ e \in T BY <1>2, <1>3, <1>4
<1>6. Append(s, e) \in Seq(T) BY <1>5
<1>7. Len(Append(s, e)) = n + 1 /\ Append(s, e)[n + 1] = e /\ \A i \in 1..n : Append(s, e)[i] = s[i]
  BY <1>3, <1>5
<1> QED BY <1>3, <1>6, <1>7 DEF Appended

Sums(sum, array) == sum = [i \in 0..FM_SIZE |-> IF i = 0 THEN 0 ELSE sum[i - 1] + array[i]]

LEMMA ChecksumIs ==
  ASSUME NEW image \in Image
  PROVE  checksum(image) \in Nat /\ checksum(image) <= 255 * FM_SIZE
<1>1. PICK n \in Nat \ {0} : n = FM_SIZE BY ImageSize
<1>2. PICK step : step = [i \in 1..n |-> [v \in Int |-> v + image[i]]] OBVIOUS
<1>3. \A i \in 1..n : image[i] \in 0..255 BY <1>1 DEF Image
<1>4. step \in [1..n -> [Int -> Int]]
  <2>1. ASSUME NEW i \in 1..n, NEW v \in Int PROVE v + image[i] \in Int
    <3>1. PICK c \in 0..255 : c = image[i] BY <1>3
    <3> QED BY <3>1
  <2> QED BY <1>2, <2>1
<1>5. PICK f : Solution(f, n, Int, 0, step)
  <2>1. 0 \in Int /\ n \in Nat OBVIOUS
  <2> QED BY ONLY <1>4, <2>1, Recursion
<1>6. f \in [0..n -> Int] /\ f[0] = 0 /\ \A i \in 1..n : f[i] = step[i][f[i - 1]] BY <1>5 DEF Solution
<1>7. ASSUME NEW i \in 0..n PROVE f[i] = IF i = 0 THEN 0 ELSE f[i - 1] + image[i]
  <2>1. CASE i = 0 BY <1>6, <2>1
  <2>2. CASE i # 0
    <3>1. i \in 1..n /\ i - 1 \in 0..n BY <2>2
    <3>2. f[i - 1] \in Int /\ f[i] = step[i][f[i - 1]] BY <1>6, <3>1
    <3> QED BY <1>2, <2>2, <3>1, <3>2
  <2> QED BY <2>1, <2>2
<1>8. Sums(f, image) BY <1>1, <1>6, <1>7 DEF Sums
<1>9. PICK sum : sum = CHOOSE r : Sums(r, image) OBVIOUS
<1>10. Sums(sum, image) BY <1>8, <1>9
<1>11. \A i \in 0..n : sum[i] = IF i = 0 THEN 0 ELSE sum[i - 1] + image[i] BY <1>1, <1>10 DEF Sums
<1>12. checksum(image) = sum[n] BY <1>1, <1>9 DEF checksum, Sums
<1>13. PICK Failing : Failing = {i \in 0..n : ~(sum[i] \in Nat /\ sum[i] <= 255 * i)} OBVIOUS
<1>14. ASSUME NEW i \in Failing, \A y \in Failing : i <= y PROVE FALSE
  <2>1. i \in 0..n /\ ~(sum[i] \in Nat /\ sum[i] <= 255 * i) BY <1>13
  <2>2. i # 0 BY <1>11, <2>1
  <2>3. PICK j \in Int : j = i - 1 BY <2>1
  <2>4. j \in 0..n /\ j \notin Failing /\ i = j + 1 /\ i \in 1..n BY <1>14, <2>1, <2>2, <2>3
  <2>5. sum[j] \in Nat /\ sum[j] <= 255 * j BY <1>13, <2>4
  <2>6. sum[i] = sum[j] + image[i] /\ image[i] \in 0..255 BY <1>3, <1>11, <2>1, <2>2, <2>3, <2>4
  <2>7. 255 * (j + 1) = 255 * j + 255 OBVIOUS
  <2> QED BY <2>1, <2>4, <2>5, <2>6, <2>7
<1>15. Failing \in SUBSET Nat BY <1>13
<1>16. Failing # {} => \E x \in Failing : \A y \in Failing : x <= y BY ONLY <1>15, Least
<1>17. Failing = {} BY ONLY <1>14, <1>16
<1>18. n \in 0..n OBVIOUS
<1> QED BY <1>1, <1>12, <1>13, <1>17, <1>18

\* A number in a buffer.
Small(val) == val \in Nat /\ (val <= 255 * FM_SIZE \/ val < 2000)
Figures == 48..57
Written(new, bytes, val) ==
  /\ new \in Seq(BYTE)
  /\ LET n == Len(uint64_to_str(val)) IN
     /\ n \in 1..9 /\ Len(new) = (IF n + 1 < Len(bytes) THEN Len(bytes) ELSE n + 1)
     /\ \A i \in 1..Len(bytes) : i > n + 1 => new[i] = bytes[i]
     /\ new[n + 1] = 0 /\ \A i \in 1..n : new[i] \in Figures
  /\ IsTrimmedNumeral(CString(new), val)

LEMMA SmallIs == ASSUME NEW val, Small(val) PROVE \E m : Holds(m) /\ val < Ten(m) /\ ~Hangs(val)
<1>1. PICK m : Holds(m) /\ 2000 <= Ten(m) /\ 255 * FM_SIZE < Ten(m) BY EnoughDigits
<1>2. m \in Nat BY <1>1 DEF Holds
<1>3. PICK t \in Nat : t = Ten(m) BY <1>2, TenIs
<1>4. PICK n \in Nat : n = FM_SIZE BY ImageSize
<1>5. val < t BY <1>1, <1>3, <1>4 DEF Small
<1>6. PICK w \in Nat : w = WORD BY ExecLibAssumption
<1>7. t < w BY <1>1, <1>3, <1>6 DEF Holds
<1>8. ~Hangs(val) BY <1>5, <1>6, <1>7 DEF Hangs, Small
<1> QED BY <1>1, <1>3, <1>5, <1>8

LEMMA NumeralIs ==
  ASSUME NEW val, Small(val)
  PROVE  /\ IsTrimmedNumeral(uint64_to_str(val), val) /\ Len(uint64_to_str(val)) \in 1..9
         /\ uint64_to_str(val) \in Seq(Figures)
<1>1. PICK m : Holds(m) /\ val < Ten(m) BY SmallIs
<1>2. val \in Nat BY DEF Small
<1>3. PICK s : s = uint64_to_str(val) OBVIOUS
<1>4. IsTrimmedNumeral(s, val) /\ s \in Seq(48..57) /\ Len(s) \in 1..9 BY ONLY <1>1, <1>2, <1>3, Numeral
<1> QED BY ONLY <1>3, <1>4 DEF Figures

LEMMA FiguresAre == \A c \in Figures : c \in BYTE /\ c # 0
BY DEF Figures, BYTE

LEMMA NumberIs ==
  ASSUME NEW val, Small(val), NEW bytes \in Seq(BYTE)
  PROVE  Written(Stored(bytes, Append(uint64_to_str(val), 0)), bytes, val)
<1>1. PICK s : s = uint64_to_str(val) OBVIOUS
<1>2. IsTrimmedNumeral(s, val) /\ s \in Seq(Figures) /\ Len(s) \in 1..9
  <2>1. Small(val) OBVIOUS
  <2>2. /\ IsTrimmedNumeral(uint64_to_str(val), val) /\ Len(uint64_to_str(val)) \in 1..9
        /\ uint64_to_str(val) \in Seq(Figures)
    BY ONLY <2>1, NumeralIs
  <2> QED BY ONLY <1>1, <2>2
<1>3. PICK n \in Nat : n = Len(s) /\ n \in 1..9
  <2>1. PICK n : n = Len(s) OBVIOUS
  <2>2. n \in 1..9 BY ONLY <1>2, <2>1
  <2>3. \A i \in 1..9 : i \in Nat OBVIOUS
  <2> QED BY ONLY <2>1, <2>2, <2>3
<1>4. s \in [1..n -> Figures] BY ONLY <1>2, <1>3
<1>5. s \in [1..n -> BYTE] /\ \A i \in 1..n : s[i] \in Figures /\ s[i] # 0 BY ONLY <1>4, FiguresAre
<1>6. s \in Seq(BYTE) BY ONLY <1>3, <1>5
<1>7. 0 \in BYTE BY DEF BYTE
<1>8. PICK z : z = Append(s, 0) OBVIOUS
<1>9. z \in Seq(BYTE) /\ Len(z) = n + 1 /\ z[n + 1] = 0 /\ \A i \in 1..n : z[i] = s[i]
  BY ONLY <1>3, <1>6, <1>7, <1>8
<1>10. PICK new : new = Stored(bytes, z) OBVIOUS
<1>11. /\ new \in Seq(BYTE) /\ Len(new) = (IF n + 1 < Len(bytes) THEN Len(bytes) ELSE n + 1)
       /\ \A i \in 1..(n + 1) : new[i] = z[i]
       /\ \A i \in 1..Len(bytes) : i > n + 1 => new[i] = bytes[i]
  <2>1. bytes \in Seq(BYTE) OBVIOUS
  <2>2. /\ new \in Seq(BYTE) /\ Len(new) = (IF Len(z) < Len(bytes) THEN Len(bytes) ELSE Len(z))
        /\ \A i \in 1..Len(z) : new[i] = z[i]
        /\ \A i \in 1..Len(bytes) : i > Len(z) => new[i] = bytes[i]
    <3>1. IsStored(Stored(bytes, z), bytes, z) BY ONLY <2>1, <1>9, StoredIs
    <3> QED BY ONLY <1>10, <3>1 DEF IsStored
  <2> QED BY ONLY <1>9, <2>2
<1>12. new[n + 1] = 0 /\ \A i \in 1..n : new[i] = s[i]
  <2>1. n + 1 \in 1..(n + 1) /\ \A i \in 1..n : i \in 1..(n + 1) BY ONLY <1>3
  <2> QED BY ONLY <1>9, <1>11, <2>1
<1>13. n < Len(new)
  <2>1. PICK l \in Nat : l = Len(bytes) OBVIOUS
  <2>2. Len(new) = (IF n + 1 < l THEN l ELSE n + 1) BY ONLY <1>11, <2>1
  <2> QED BY ONLY <1>3, <2>1, <2>2
<1>14. \A i \in 1..n : new[i] # 0 BY ONLY <1>5, <1>12
<1>15. CString(new) = SubSeq(new, 1, n) BY ONLY <1>3, <1>11, <1>12, <1>13, <1>14, CStringIs
<1>16. SubSeq(new, 1, n) = s
  <2>1. PICK u : u = SubSeq(new, 1, n) OBVIOUS
  <2>2. PICK l \in Nat : l = Len(new) BY ONLY <1>11
  <2>3. n <= l BY ONLY <1>3, <1>13, <2>2
  <2>4. u \in Seq(BYTE) /\ Len(u) = n /\ \A i \in 1..n : u[i] = new[i]
    BY ONLY <1>3, <1>11, <2>1, <2>2, <2>3
  <2>5. u \in [1..n -> BYTE] BY ONLY <2>4
  <2>6. \A i \in 1..n : u[i] = s[i] BY ONLY <1>12, <2>4
  <2>7. u = s BY ONLY <1>5, <2>5, <2>6
  <2> QED BY ONLY <2>1, <2>7
<1>17. \A i \in 1..n : new[i] \in Figures BY ONLY <1>5, <1>12
<1>18. Written(new, bytes, val)
  <2>1. IsTrimmedNumeral(CString(new), val) BY ONLY <1>2, <1>15, <1>16
  <2>2. n = Len(uint64_to_str(val)) BY ONLY <1>1, <1>3
  <2> QED BY ONLY <2>1, <2>2, <1>3, <1>11, <1>12, <1>17 DEF Written
<1> QED BY ONLY <1>1, <1>8, <1>10, <1>18

LEMMA PaddedIs ==
  ASSUME NEW bytes \in Seq(BYTE)
  PROVE  Padded(bytes) \in Image /\ Stored(Zeros, Prefix(bytes, FM_SIZE)) = Padded(bytes)
<1>1. PICK n \in Nat : n = FM_SIZE BY ImageSize
<1>2. PICK l \in Nat : l = Len(bytes) OBVIOUS
<1>3. Zeros \in [1..n -> BYTE] BY <1>1 DEF Zeros, BYTE
<1>4. Zeros \in Seq(BYTE) /\ Len(Zeros) = n BY <1>3
<1>5. PICK new : new = Prefix(bytes, n) OBVIOUS
<1>6. PICK k \in Nat : k = IF n > l THEN l ELSE n OBVIOUS
<1>7. new \in Seq(BYTE) /\ Len(new) = k /\ \A i \in 1..k : new[i] = bytes[i] BY <1>2, <1>5, <1>6, PrefixIs
<1>8. PICK s : s = Stored(Zeros, new) OBVIOUS
<1>9. s \in Seq(BYTE) /\ Len(s) = n
      /\ (\A i \in 1..k : s[i] = new[i]) /\ \A i \in 1..n : i > k => s[i] = Zeros[i]
  <2>1. PICK z \in Seq(BYTE) : z = Zeros BY <1>4
  <2>2. s \in Seq(BYTE) /\ Len(s) = (IF Len(new) < Len(z) THEN Len(z) ELSE Len(new))
        /\ (\A i \in 1..Len(new) : s[i] = new[i]) /\ \A i \in 1..Len(z) : i > Len(new) => s[i] = z[i]
    <3>1. IsStored(Stored(z, new), z, new) BY ONLY <1>7, <2>1, StoredIs
    <3> QED BY ONLY <1>8, <2>1, <3>1 DEF IsStored
  <2>3. Len(z) = n BY <1>4, <2>1
  <2> QED BY <1>6, <1>7, <2>1, <2>2, <2>3
<1>10. s \in [1..n -> BYTE] BY <1>9
<1>11. ASSUME NEW i \in 1..n PROVE s[i] = IF i <= l THEN bytes[i] ELSE 0
  <2>1. CASE i <= l BY <1>6, <1>7, <1>9, <2>1
  <2>2. CASE ~(i <= l) BY <1>1, <1>6, <1>9, <2>2 DEF Zeros
  <2> QED BY <2>1, <2>2
<1>12. Padded(bytes) = s BY <1>1, <1>2, <1>10, <1>11 DEF Padded
<1> QED BY <1>1, <1>5, <1>8, <1>10, <1>12 DEF Image, BYTE

\* The programs with a host that detect edges.
Detects == prog \in {"sobel", "sobel-approx"}
lena == "lena.img.bin"
sobel_out == "sobel.out"
Picture == Padded(FileAt(lena))
OneOpen == fd = 3 /\ DOMAIN holds = 0..3
\* What the statements have printed before the k-th of them.
Said(k) ==
  IF k = 1 THEN 0 ELSE IF k <= 6 THEN 1 ELSE IF k = 7 THEN 2 ELSE IF k <= 9 THEN 3
  ELSE IF k <= 11 THEN 4 ELSE IF k <= 13 THEN 5 ELSE 6

Kept == FilesOK /\ BuffersOK /\ tmem["ifm_buf"] \in Image /\ ifm_use \in Image
Descriptors ==
  /\ (pc = 3 => FileOpen(lena)) /\ (pc = 19 => FileOpen(sobel_out))
  /\ (pc \in {4, 20} => OneOpen) /\ (pc \notin {3, 4, 19, 20} => DOMAIN holds = 0..2)
Spoken ==
  /\ \E S : printed \in Seq(S)
  /\ pc <= 15 => Len(printed) = Said(pc)
  /\ pc = 15 => IsTrimmedNumeral(CString(tmem["ibuf"]), checksum(ifm_use))
  /\ pc >= 16 => Len(printed) >= 7 /\ IsTrimmedNumeral(printed[7], checksum(ifm_use))
Shown ==
  /\ pc <= 3 => tmem["ifm_buf"] = Zeros
  /\ pc >= 3 => lena \in DOMAIN dir
  /\ pc \in {4, 5} => tmem["ifm_buf"] = Picture
  /\ pc >= 6 /\ pc <= 12 => ifm_use = Picture
  /\ pc >= 9 /\ pc <= 12 => Convolved(ofm_x, exact, Picture, wt_x)
  /\ pc >= 11 /\ pc <= 12 => Convolved(ofm_y, exact, Picture, wt_y)
  /\ pc >= 13 => IsSobel(exact, Picture, ifm_use) /\ tmem["ifm_buf"] = ifm_use
  /\ pc >= 20 => sobel_out \in DOMAIN dir /\ SubSeq(FileAt(sobel_out), 1, FM_SIZE) = ifm_use
SobelState == pc \in 1..22 /\ Kept /\ Descriptors /\ Spoken /\ Shown
SobelInv == Detects /\ ~failed => SobelState

LEMMA ZerosIs == Zeros \in Image
<1>1. 0 \in 0..255 OBVIOUS
<1> QED BY <1>1 DEF Zeros, Image

LEMMA BuffersAre ==
  /\ "ifm_buf" \in DOMAIN BUFFERS /\ "ibuf" \in DOMAIN BUFFERS /\ "buf" \in DOMAIN BUFFERS
  /\ "str2" \in DOMAIN BUFFERS /\ BUFFERS["ifm_buf"] = Zeros
  /\ BUFFERS \in [DOMAIN BUFFERS -> Seq(BYTE)]
BY ArraysAssumption DEF Zeros

LEMMA SobelStart == ProgramsInit => SobelInv
<1> SUFFICES ASSUME ProgramsInit, Detects PROVE SobelState BY DEF SobelInv
<1>1. SysInit /\ prog \in PROGS /\ pc = 1 /\ fd = 0 /\ ifm_use \in {Zeros}
  BY DEF ProgramsInit, Detects
<1>2. holds = [f \in 0..2 |-> IF f = 0 THEN STDIN ELSE STDOUT] /\ dir \in DISKS /\ data \in DATAS
      /\ tmem = BUFFERS /\ printed = <<>>
  BY <1>1 DEF SysInit
<1>3. FilesOK BY <1>2, DisksAssumption DEF FilesOK
<1>4. BuffersOK BY <1>2, BuffersAre DEF BuffersOK
<1>5. Kept BY <1>1, <1>2, <1>3, <1>4, BuffersAre, ZerosIs DEF Kept
<1>6. DOMAIN holds = 0..2 BY <1>2
<1>7. Descriptors BY <1>1, <1>6 DEF Descriptors
<1>8. printed \in Seq({}) /\ Len(printed) = 0
  <2>1. <<>> \in Seq({}) OBVIOUS
  <2> QED BY <1>2, <2>1
<1>9. Spoken BY <1>1, <1>8 DEF Spoken, Said
<1>10. Shown BY <1>1, <1>2, BuffersAre DEF Shown
<1> QED BY <1>1, <1>5, <1>7, <1>9, <1>10 DEF SobelState

\* What a step leaves alone.
LEMMA SameFiles ==
  ASSUME UNCHANGED <<dir, data>>
  PROVE  FilesOK' = FilesOK /\ Picture' = Picture /\ FileAt(sobel_out)' = FileAt(sobel_out)
BY DEF FilesOK, Picture, FileAt, lena, sobel_out, Padded

LEMMA SobelStays == SobelInv /\ UNCHANGED programsVars => SobelInv'
<1> SUFFICES ASSUME SobelInv, UNCHANGED programsVars PROVE SobelInv' OBVIOUS
<1>1. UNCHANGED <<fds, open, offset, holds, dir, data, tmem, printed, prog, pc, fd, ifm_use, ofm_x, ofm_y, failed>>
  BY DEF programsVars, sysVars, table, disk, rest, progVars
<1>2. /\ FilesOK' = FilesOK /\ Picture' = Picture /\ FileAt(sobel_out)' = FileAt(sobel_out)
  BY <1>1, SameFiles
<1>3. Kept' = Kept BY <1>1, <1>2 DEF Kept, BuffersOK
<1>4. FileOpen(lena)' = FileOpen(lena) /\ FileOpen(sobel_out)' = FileOpen(sobel_out)
  BY <1>1 DEF FileOpen, Leads, lookup, lena, sobel_out
<1>5. Descriptors' = Descriptors BY <1>1, <1>4 DEF Descriptors, OneOpen
<1>6. Spoken' = Spoken BY <1>1 DEF Spoken
<1>7. Shown' = Shown BY <1>1, <1>2 DEF Shown, exact
<1>8. SobelState' = SobelState BY <1>1, <1>3, <1>5, <1>6, <1>7 DEF SobelState
<1> QED BY <1>1, <1>8 DEF SobelInv, Detects

SobelStep == SobelState /\ Detects /\ Main = sobel /\ FdsInv /\ ~failed'

LEMMA SobelPrints ==
  ASSUME SobelStep, tohost_printstr PROVE SobelState'
<1>1. /\ pc \in {1, 6, 7, 9, 11, 13, 15, 16, 17} /\ (pc = 15 => st.op = "printbuf") /\ (pc # 15 => st.op = "print")
  <2>1. CASE Now("print")
    <3>1. pc \in {1, 6, 7, 9, 11, 13, 16, 17} BY <2>1, SobelAt DEF SobelStep
    <3> QED BY <2>1, <3>1 DEF Now
  <2>2. CASE Now("printbuf")
    <3>1. pc = 15 BY <2>2, SobelAt DEF SobelStep
    <3> QED BY <2>2, <3>1 DEF Now
  <2> QED BY <2>1, <2>2 DEF tohost_printstr
<1>2. PICK text : /\ printed' = Append(printed, text) /\ (pc = 15 => text = CString(tmem["ibuf"]))
  <2>1. CASE Now("print") /\ sys_printstr(<<st.x>>) BY <1>1, <2>1 DEF sys_printstr, Now
  <2>2. CASE Now("printbuf") /\ sys_printstr(CString(tmem[st.x]))
    <3>1. pc = 15 BY <1>1, <2>2 DEF Now
    <3>2. st = St("printbuf", "ibuf", 0) BY <3>1, SobelStatements DEF st, SobelStep
    <3>3. st.x = "ibuf" BY ONLY <3>2, OpIs
    <3> QED BY <2>2, <3>3 DEF sys_printstr
  <2> QED BY <2>1, <2>2 DEF tohost_printstr
<1>3. UNCHANGED <<fds, open, offset, holds, dir, data, tmem, prog, fd, ifm_use, ofm_x, ofm_y>> /\ pc' = pc + 1
  BY DEF tohost_printstr, sys_printstr, Called, table, disk, progVars
<1>4. FilesOK' = FilesOK /\ Picture' = Picture /\ FileAt(sobel_out)' = FileAt(sobel_out) BY <1>3, SameFiles
<1>5. Kept' BY <1>3, <1>4 DEF Kept, BuffersOK, SobelStep, SobelState
<1>6. pc' \in {2, 7, 8, 10, 12, 14, 16, 17, 18} BY <1>1, <1>3
<1>7. Descriptors'
  <2>1. DOMAIN holds = 0..2 BY <1>1 DEF SobelStep, SobelState, Descriptors
  <2> QED BY <1>3, <1>6, <2>1 DEF Descriptors
<1>8. Spoken'
  <2>1. (\E S : printed \in Seq(S)) /\ (pc <= 15 => Len(printed) = Said(pc))
        /\ (pc = 15 => IsTrimmedNumeral(CString(tmem["ibuf"]), checksum(ifm_use)))
        /\ (pc >= 16 => Len(printed) >= 7 /\ IsTrimmedNumeral(printed[7], checksum(ifm_use)))
    BY DEF SobelStep, SobelState, Spoken
  <2>2. PICK p : p = Append(printed, text) OBVIOUS
  <2>3. /\ \E S : p \in Seq(S)
        /\ Len(printed) \in Nat /\ Len(p) = Len(printed) + 1 /\ p[Len(printed) + 1] = text
        /\ \A i \in 1..Len(printed) : p[i] = printed[i]
    <3>1. \E S : printed \in Seq(S) BY <2>1
    <3>2. Appended(printed, text, Append(printed, text)) BY ONLY <3>1, AppendIs
    <3> QED BY ONLY <2>2, <3>2 DEF Appended
  <2>4. p = printed' BY <1>2, <2>2
  <2>5. PICK n \in Nat : n = Len(printed) BY <2>3
  <2>6. pc <= 14 => Said(pc + 1) = Said(pc) + 1 BY <1>1 DEF Said
  <2>7. pc = 15 => n = 6 BY <2>1, <2>5 DEF Said
  <2>8. pc' <= 15 => Len(p) = Said(pc') BY <1>1, <1>3, <2>1, <2>3, <2>5, <2>6
  <2>9. pc' >= 16 => Len(p) >= 7 /\ IsTrimmedNumeral(p[7], checksum(ifm_use))
    <3>1. CASE pc = 15
      <4>1. n + 1 = 7 /\ text = CString(tmem["ibuf"]) BY <1>2, <2>7, <3>1
      <4>2. p[n + 1] = text /\ Len(p) = n + 1 BY ONLY <2>3, <2>5
      <4> QED BY <2>1, <3>1, <4>1, <4>2
    <3>2. CASE pc >= 16
      <4>1. n >= 7 /\ 7 \in 1..n /\ IsTrimmedNumeral(printed[7], checksum(ifm_use)) BY <2>1, <2>5, <3>2
      <4>2. p[7] = printed[7] /\ Len(p) >= 7 BY <2>3, <2>5, <4>1
      <4> QED BY <4>1, <4>2
    <3> QED BY <1>1, <1>3, <3>1, <3>2
  <2>10. pc' # 15 BY <1>6
  <2> QED BY <1>3, <2>3, <2>4, <2>8, <2>9, <2>10 DEF Spoken
<1>9. Shown' BY <1>1, <1>3, <1>4 DEF Shown, exact, SobelStep, SobelState
<1> QED BY <1>5, <1>6, <1>7, <1>8, <1>9 DEF SobelState

LEMMA SobelOpens ==
  ASSUME SobelStep, tohost_open PROVE SobelState'
<1>1. (pc = 2 /\ st.op = "open") \/ (pc = 18 /\ st.op = "create")
  <2>1. CASE Now("open")
    <3>1. pc = 2 BY <2>1, SobelAt DEF SobelStep
    <3> QED BY <2>1, <3>1 DEF Now
  <2>2. CASE Now("create")
    <3>1. pc = 18 BY <2>2, SobelAt DEF SobelStep
    <3> QED BY <2>2, <3>1 DEF Now
  <2> QED BY <2>1, <2>2 DEF tohost_open
<1>2. PICK n : n = IF pc = 2 THEN lena ELSE sobel_out OBVIOUS
<1>3. st.x = n
  <2>1. CASE pc = 2
    <3>1. st = St("open", "lena.img.bin", 0) BY <2>1, SobelStatements DEF st, SobelStep
    <3>2. st.x = "lena.img.bin" BY ONLY <3>1, OpIs
    <3> QED BY <1>2, <2>1, <3>2 DEF lena
  <2>2. CASE pc = 18
    <3>1. st = St("create", "sobel.out", 0) BY <2>2, SobelStatements DEF st, SobelStep
    <3>2. st.x = "sobel.out" BY ONLY <3>1, OpIs
    <3> QED BY <1>2, <2>2, <3>2 DEF sobel_out
  <2> QED BY <1>1, <2>1, <2>2
<1>4. PICK creat : creat = (st.op = "create") OBVIOUS
<1>5. sys_openat(AT_FDCWD, n, creat) /\ fd' = ret' /\ ~(ret' < 0) /\ pc' = pc + 1
      /\ UNCHANGED <<ifm_use, ofm_x, ofm_y, prog>>
  BY <1>3, <1>4 DEF tohost_open, Called, SobelStep
<1>6. FilesOK /\ DOMAIN holds = 0..2 /\ FdsInv
  BY <1>1 DEF SobelStep, SobelState, Kept, Descriptors
<1>7. OpenedTo(n) /\ FilesOK' /\ UNCHANGED <<tmem, printed, exit>> BY ONLY <1>5, <1>6, OpenIs
<1>8. FileOpen(n)' BY ONLY <1>5, <1>7, LeadsThere
<1>9. \A m \in DOMAIN dir : FileKept(m) BY <1>7 DEF OpenedTo
<1>10. Kept' BY <1>5, <1>7 DEF Kept, BuffersOK, SobelStep, SobelState
<1>11. pc' \in {3, 19} /\ (pc' = 3 => n = lena) /\ (pc' = 19 => n = sobel_out) BY <1>1, <1>2, <1>5
<1>12. Descriptors'
  <2>1. pc' = 3 => FileOpen(lena)' BY ONLY <1>8, <1>11
  <2>2. pc' = 19 => FileOpen(sobel_out)' BY ONLY <1>8, <1>11
  <2>3. pc' \notin {4, 20} /\ pc' \in {3, 19} BY <1>11
  <2> QED BY ONLY <2>1, <2>2, <2>3 DEF Descriptors
<1>13. Spoken' BY <1>1, <1>5, <1>7, <1>11 DEF Spoken, Said, SobelStep, SobelState
<1>14. Shown'
  <2>1. CASE pc = 2
    <3>1. tmem["ifm_buf"] = Zeros BY <2>1 DEF SobelStep, SobelState, Shown
    <3>2. lena \in DOMAIN dir' BY <1>2, <1>7, <2>1 DEF OpenedTo
    <3> QED BY <1>5, <1>7, <2>1, <3>1, <3>2 DEF Shown, exact
  <2>2. CASE pc = 18
    <3>1. lena \in DOMAIN dir /\ IsSobel(exact, Picture, ifm_use) /\ tmem["ifm_buf"] = ifm_use
      BY <2>2 DEF SobelStep, SobelState, Shown
    <3>2. FileKept(lena) BY <1>9, <3>1
    <3>3. lena \in DOMAIN dir' /\ Picture' = Picture BY <3>2 DEF FileKept, Picture, FileAt, Padded
    <3> QED BY <1>5, <1>7, <2>2, <3>1, <3>3 DEF Shown, exact
  <2> QED BY <1>1, <2>1, <2>2
<1> QED BY <1>10, <1>11, <1>12, <1>13, <1>14 DEF SobelState

LEMMA PrefixPadded ==
  ASSUME FilesOK, NEW n \in DOMAIN dir
  PROVE  /\ Padded(FileAt(n)) \in Image
         /\ Stored(Zeros, Prefix(data[dir[n]], FM_SIZE)) = Padded(FileAt(n))
<1>1. data[dir[n]] \in Seq(BYTE) BY DEF FilesOK
<1> QED BY <1>1, PaddedIs DEF FileAt

LEMMA SobelReads ==
  ASSUME SobelStep, tohost_read PROVE SobelState'
<1>1. pc = 3
  <2>1. Now("read") BY DEF tohost_read
  <2> QED BY <2>1, SobelAt DEF SobelStep
<1>2. st = St("read", "ifm_buf", FM_SIZE) BY <1>1, SobelStatements DEF st, SobelStep
<1>3. st.x = "ifm_buf" /\ st.n = FM_SIZE BY ONLY <1>2, OpIs
<1>4. PICK p : p = "ifm_buf" OBVIOUS
<1>5. sys_read(fd, p, FM_SIZE) /\ ~(ret' < 0) /\ pc' = pc + 1 /\ UNCHANGED <<prog, fd, ifm_use, ofm_x, ofm_y>>
  BY <1>3, <1>4 DEF tohost_read, Called, SobelStep, progVars
<1>6. FilesOK /\ BuffersOK /\ FileOpen(lena) /\ tmem[p] = Zeros /\ lena \in DOMAIN dir
      /\ p \in DOMAIN BUFFERS /\ FM_SIZE \in Nat /\ DOMAIN holds = 0..3 /\ fd = 3
  BY <1>1, <1>4, BuffersAre, ImageSize DEF SobelStep, SobelState, Kept, Descriptors, Shown, FileOpen, Leads
<1>7. /\ tmem' = [tmem EXCEPT ![p] = Stored(@, Prefix(data[dir[lena]], FM_SIZE))]
      /\ UNCHANGED <<disk, fds, open, raw, holds, printed, exit>>
  BY ONLY <1>5, <1>6, ReadIs
<1>8. Picture \in Image /\ Stored(Zeros, Prefix(data[dir[lena]], FM_SIZE)) = Picture
  BY <1>6, PrefixPadded DEF Picture
<1>9. tmem[p] \in Seq(BYTE) /\ p \in DOMAIN tmem /\ tmem \in [DOMAIN BUFFERS -> Seq(BYTE)] BY <1>6 DEF BuffersOK
<1>10. tmem' = [tmem EXCEPT ![p] = Picture] BY <1>6, <1>7, <1>8
<1>11. Picture \in Seq(BYTE)
  <2>1. PICK n \in Nat : n = FM_SIZE BY ImageSize
  <2>2. Picture \in [1..n -> BYTE] BY <1>8, <2>1 DEF Image, BYTE
  <2> QED BY <2>2
<1>12. tmem' \in [DOMAIN BUFFERS -> Seq(BYTE)] /\ tmem'[p] = Picture BY ONLY <1>6, <1>9, <1>10, <1>11
<1>13. UNCHANGED <<dir, data>> BY <1>7 DEF disk
<1>14. FilesOK' = FilesOK /\ Picture' = Picture BY <1>13, SameFiles
<1>15. Kept' BY <1>4, <1>5, <1>6, <1>8, <1>12, <1>14 DEF Kept, BuffersOK, SobelStep, SobelState
<1>16. Descriptors' BY <1>1, <1>5, <1>6, <1>7 DEF Descriptors, OneOpen
<1>17. Spoken' BY <1>1, <1>5, <1>7 DEF Spoken, Said, SobelStep, SobelState
<1>18. Shown' BY <1>1, <1>4, <1>5, <1>6, <1>12, <1>13, <1>14 DEF Shown
<1> QED BY <1>1, <1>5, <1>15, <1>16, <1>17, <1>18 DEF SobelState

LEMMA SobelWrites ==
  ASSUME SobelStep, tohost_write PROVE SobelState'
<1>1. pc = 19
  <2>1. Now("write") BY DEF tohost_write
  <2> QED BY <2>1, SobelAt DEF SobelStep
<1>2. st = St("write", "ifm_buf", FM_SIZE) BY <1>1, SobelStatements DEF st, SobelStep
<1>3. st.x = "ifm_buf" /\ st.n = FM_SIZE BY ONLY <1>2, OpIs
<1>4. PICK p : p = "ifm_buf" OBVIOUS
<1>5. sys_write(fd, p, FM_SIZE) /\ ~(ret' < 0) /\ pc' = pc + 1 /\ UNCHANGED <<prog, fd, ifm_use, ofm_x, ofm_y>>
  BY <1>3, <1>4 DEF tohost_write, Called, SobelStep, progVars
<1>6. FilesOK /\ FileOpen(sobel_out) /\ DOMAIN holds = 0..3 /\ fd = 3 /\ lena \in DOMAIN dir
      /\ tmem[p] = ifm_use /\ ifm_use \in Image /\ IsSobel(exact, Picture, ifm_use) /\ FM_SIZE \in Nat
      /\ sobel_out \in DOMAIN dir
  BY <1>1, <1>4, ImageSize DEF SobelStep, SobelState, Kept, Descriptors, Shown, FileOpen, Leads
<1>7. tmem[p] \in Seq(BYTE) /\ FM_SIZE <= Len(tmem[p]) /\ SubSeq(tmem[p], 1, FM_SIZE) = ifm_use
  <2>1. PICK n \in Nat : n = FM_SIZE BY <1>6
  <2>2. ifm_use \in [1..n -> BYTE] BY <1>6, <2>1 DEF Image, BYTE
  <2>3. ifm_use \in Seq(BYTE) /\ Len(ifm_use) = n BY <2>2
  <2>4. SubSeq(ifm_use, 1, n) = ifm_use BY <2>3
  <2> QED BY <1>6, <2>1, <2>3, <2>4
<1>8. /\ FilesOK' /\ \A m \in DOMAIN dir : m # sobel_out => data'[dir[m]] = data[dir[m]]
      /\ Len(data'[dir[sobel_out]]) >= FM_SIZE
      /\ SubSeq(data'[dir[sobel_out]], 1, FM_SIZE) = SubSeq(tmem[p], 1, FM_SIZE)
      /\ UNCHANGED <<dir, fds, open, raw, holds, tmem, printed, exit>>
  BY ONLY <1>5, <1>6, <1>7, WriteIs
<1>9. lena # sobel_out BY DEF lena, sobel_out
<1>10. Picture' = Picture BY <1>6, <1>8, <1>9 DEF Picture, FileAt, Padded
<1>11. sobel_out \in DOMAIN dir' /\ SubSeq(FileAt(sobel_out)', 1, FM_SIZE) = ifm_use
  BY <1>6, <1>7, <1>8 DEF FileAt
<1>12. Kept' BY <1>5, <1>8 DEF Kept, BuffersOK, SobelStep, SobelState
<1>13. Descriptors' BY <1>1, <1>5, <1>6, <1>8 DEF Descriptors, OneOpen
<1>14. Spoken' BY <1>1, <1>5, <1>8 DEF Spoken, SobelStep, SobelState
<1>15. Shown' BY <1>1, <1>4, <1>5, <1>6, <1>8, <1>10, <1>11 DEF Shown, exact
<1> QED BY <1>1, <1>5, <1>12, <1>13, <1>14, <1>15 DEF SobelState

LEMMA SobelCloses ==
  ASSUME SobelStep, tohost_close PROVE SobelState'
<1>1. pc \in {4, 20}
  <2>1. Now("close") BY DEF tohost_close
  <2> QED BY <2>1, SobelAt DEF SobelStep
<1>2. sys_close(fd) /\ ~(ret' < 0) /\ pc' = pc + 1 /\ UNCHANGED <<prog, fd, ifm_use, ofm_x, ofm_y>>
  BY DEF tohost_close, Called, SobelStep, progVars
<1>3. DOMAIN holds = 0..3 /\ fd = 3 BY <1>1 DEF SobelStep, SobelState, Descriptors, OneOpen
<1>4. DOMAIN holds' = 0..2 /\ UNCHANGED <<disk, tmem, printed, exit>> BY ONLY <1>2, <1>3, CloseIs
<1>5. UNCHANGED <<dir, data, tmem, printed>> BY <1>4 DEF disk
<1>6. FilesOK' = FilesOK /\ Picture' = Picture /\ FileAt(sobel_out)' = FileAt(sobel_out) BY <1>5, SameFiles
<1>7. Kept' BY <1>2, <1>5, <1>6 DEF Kept, BuffersOK, SobelStep, SobelState
<1>8. Descriptors' BY <1>1, <1>2, <1>4 DEF Descriptors
<1>9. Spoken' BY <1>1, <1>2, <1>5 DEF Spoken, Said, SobelStep, SobelState
<1>10. Shown' BY <1>1, <1>2, <1>5, <1>6 DEF Shown, exact, SobelStep, SobelState
<1> QED BY <1>1, <1>2, <1>7, <1>8, <1>9, <1>10 DEF SobelState

LEMMA ImageIs ==
  ASSUME NEW image \in Image, NEW bytes \in Image
  PROVE  /\ image \in Seq(BYTE) /\ Len(image) = FM_SIZE /\ SubSeq(image, 1, FM_SIZE) = image
         /\ Stored(bytes, image) = image
<1>1. PICK n \in Nat : n = FM_SIZE BY ImageSize
<1>2. image \in [1..n -> BYTE] /\ bytes \in [1..n -> BYTE] BY <1>1 DEF Image, BYTE
<1>3. image \in Seq(BYTE) /\ Len(image) = n /\ bytes \in Seq(BYTE) /\ Len(bytes) = n BY <1>2
<1>4. SubSeq(image, 1, n) = image BY <1>3
<1>5. PICK s : s = Stored(bytes, image) OBVIOUS
<1>6. s \in Seq(BYTE) /\ Len(s) = (IF Len(image) < Len(bytes) THEN Len(bytes) ELSE Len(image))
      /\ \A i \in 1..Len(image) : s[i] = image[i]
  <2>1. IsStored(Stored(bytes, image), bytes, image) BY ONLY <1>3, StoredIs
  <2> QED BY ONLY <1>5, <2>1 DEF IsStored
<1>7. s \in [1..n -> BYTE]
  <2>1. Len(s) = n BY <1>3, <1>6
  <2> QED BY ONLY <1>6, <2>1
<1>8. s = image BY ONLY <1>2, <1>3, <1>6, <1>7
<1> QED BY <1>1, <1>3, <1>4, <1>5, <1>8

LEMMA SobelNumbers ==
  ASSUME SobelStep, Number PROVE SobelState'
<1>1. pc = 14 /\ st.op = "checksum"
  <2>1. ~Now("number") BY SobelAt DEF SobelStep
  <2>2. Now("checksum") BY <2>1 DEF Number
  <2> QED BY <2>2, SobelAt DEF SobelStep, Now
<1>2. st = St("checksum", "ibuf", 0) BY <1>1, SobelStatements DEF st, SobelStep
<1>3. st.x = "ibuf" BY ONLY <1>2, OpIs
<1>4. PICK p : p = "ibuf" OBVIOUS
<1>5. PICK val : val = checksum(ifm_use) OBVIOUS
<1>6. Kept BY DEF SobelStep, SobelState
<1>7. Small(val)
  <2>1. ifm_use \in Image BY <1>6 DEF Kept
  <2> QED BY <1>5, <2>1, ChecksumIs DEF Small
<1>8. ~Hangs(val) BY ONLY <1>7, SmallIs
<1>9. Store(p, Append(uint64_to_str(val), 0)) /\ Done /\ UNCHANGED progVars
  <2>1. /\ IF Hangs(val) THEN pc' = 0 /\ UNCHANGED <<prog, failed, input, sysVars, harnessVars>>
           ELSE Store(p, Append(uint64_to_str(val), 0)) /\ Done /\ UNCHANGED exit
        /\ UNCHANGED progVars
    BY <1>1, <1>3, <1>4, <1>5 DEF Number
  <2> QED BY <1>8, <2>1
<1>10. PICK bytes \in Seq(BYTE) : bytes = tmem[p]
  BY <1>4, <1>6, BuffersAre DEF Kept, BuffersOK
<1>11. PICK new : new = Stored(bytes, Append(uint64_to_str(val), 0)) OBVIOUS
<1>12. Written(new, bytes, val) BY ONLY <1>7, <1>11, NumberIs
<1>13. new \in Seq(BYTE) /\ IsTrimmedNumeral(CString(new), val) BY <1>12 DEF Written
<1>14. tmem' = [tmem EXCEPT ![p] = new] BY <1>9, <1>10, <1>11 DEF Store, Stored
<1>15. tmem \in [DOMAIN BUFFERS -> Seq(BYTE)] /\ p \in DOMAIN BUFFERS
  BY <1>4, <1>6, BuffersAre DEF Kept, BuffersOK
<1>16. tmem' \in [DOMAIN BUFFERS -> Seq(BYTE)] /\ tmem'[p] = new /\ tmem'["ifm_buf"] = tmem["ifm_buf"]
  BY <1>4, <1>13, <1>14, <1>15
<1>17. pc' = pc + 1 /\ UNCHANGED <<dir, data, fds, open, offset, holds, printed, prog, fd, ifm_use, ofm_x, ofm_y>>
  BY <1>9 DEF Done, progVars, table, disk
<1>18. FilesOK' = FilesOK /\ Picture' = Picture /\ FileAt(sobel_out)' = FileAt(sobel_out) BY <1>17, SameFiles
<1>19. Kept' BY <1>6, <1>16, <1>17, <1>18 DEF Kept, BuffersOK
<1>20. Descriptors' BY <1>1, <1>17 DEF Descriptors, SobelStep, SobelState
<1>21. Spoken' BY <1>1, <1>4, <1>5, <1>13, <1>16, <1>17 DEF Spoken, Said, SobelStep, SobelState
<1>22. Shown' BY <1>1, <1>16, <1>17, <1>18 DEF Shown, exact, SobelStep, SobelState
<1> QED BY <1>1, <1>17, <1>19, <1>20, <1>21, <1>22 DEF SobelState

LEMMA SobelWidens ==
  ASSUME SobelStep, Widen PROVE SobelState'
<1>1. pc = 5
  <2>1. Now("widen") BY DEF Widen
  <2> QED BY <2>1, SobelAt DEF SobelStep
<1>2. /\ ifm_use' = SubSeq(tmem["ifm_buf"], 1, FM_SIZE) /\ pc' = pc + 1
      /\ UNCHANGED <<dir, data, fds, open, offset, holds, printed, tmem, prog, fd, ofm_x, ofm_y>>
  BY DEF Widen, Done, table, disk
<1>3. tmem["ifm_buf"] = Picture /\ tmem["ifm_buf"] \in Image BY <1>1 DEF SobelStep, SobelState, Kept, Shown
<1>4. ifm_use' = Picture /\ ifm_use' \in Image BY <1>2, <1>3, ImageIs
<1>5. FilesOK' = FilesOK /\ Picture' = Picture /\ FileAt(sobel_out)' = FileAt(sobel_out) BY <1>2, SameFiles
<1>6. Kept' BY <1>2, <1>4, <1>5 DEF Kept, BuffersOK, SobelStep, SobelState
<1>7. Descriptors' BY <1>1, <1>2 DEF Descriptors, SobelStep, SobelState
<1>8. Spoken' BY <1>1, <1>2 DEF Spoken, Said, SobelStep, SobelState
<1>9. Shown' BY <1>1, <1>2, <1>4, <1>5 DEF Shown, SobelStep, SobelState
<1> QED BY <1>1, <1>2, <1>6, <1>7, <1>8, <1>9 DEF SobelState

LEMMA SobelConvolves ==
  ASSUME SobelStep, Convolve PROVE SobelState'
<1>1. /\ \/ pc = 8 /\ ofm_x' = conv2D_sw(exact, ifm_use, wt_x) /\ UNCHANGED ofm_y
         \/ pc = 10 /\ ofm_y' = conv2D_sw(exact, ifm_use, wt_y) /\ UNCHANGED ofm_x
      /\ pc' = pc + 1
      /\ UNCHANGED <<dir, data, fds, open, offset, holds, printed, tmem, prog, fd, ifm_use>>
  BY SobelAt DEF SobelStep, Convolve, Done, table, disk
<1>2. ifm_use \in Image /\ ifm_use = Picture BY <1>1 DEF SobelStep, SobelState, Kept, Shown
<1>3. /\ Convolved(conv2D_sw(exact, ifm_use, wt_x), exact, ifm_use, wt_x)
      /\ Convolved(conv2D_sw(exact, ifm_use, wt_y), exact, ifm_use, wt_y)
  BY ONLY <1>2, WeightsAre, ConvolutionIs
<1>4. FilesOK' = FilesOK /\ Picture' = Picture /\ FileAt(sobel_out)' = FileAt(sobel_out) BY <1>1, SameFiles
<1>5. exact' = exact BY <1>1 DEF exact
<1>6. Kept' BY <1>1, <1>4 DEF Kept, BuffersOK, SobelStep, SobelState
<1>7. Descriptors' BY <1>1 DEF Descriptors, SobelStep, SobelState
<1>8. Spoken' BY <1>1 DEF Spoken, Said, SobelStep, SobelState
<1>9. Shown' BY <1>1, <1>2, <1>3, <1>4, <1>5 DEF Shown, SobelStep, SobelState
<1> QED BY <1>1, <1>6, <1>7, <1>8, <1>9 DEF SobelState

LEMMA SobelCombines ==
  ASSUME SobelStep, CombineFeatures PROVE SobelState'
<1>1. pc = 12
  <2>1. Now("combine") BY DEF CombineFeatures
  <2> QED BY <2>1, SobelAt DEF SobelStep
<1>2. PICK mag : mag = Combine(exact, ofm_x, ofm_y) OBVIOUS
<1>3. /\ ifm_use' = mag /\ Store("ifm_buf", mag) /\ pc' = pc + 1
      /\ UNCHANGED <<dir, data, fds, open, offset, holds, printed, prog, fd, ofm_x, ofm_y>>
  BY <1>2 DEF CombineFeatures, SobelStep, Detects, Done, table, disk
<1>4. /\ ifm_use \in Image /\ tmem["ifm_buf"] \in Image /\ tmem \in [DOMAIN BUFFERS -> Seq(BYTE)]
      /\ ifm_use = Picture
      /\ Convolved(ofm_x, exact, Picture, wt_x) /\ Convolved(ofm_y, exact, Picture, wt_y)
  BY <1>1 DEF SobelStep, SobelState, Kept, BuffersOK, Shown
<1>5. exact \in BOOLEAN /\ exact' = exact BY <1>3 DEF exact
<1>6. PICK image \in Image : image = Picture BY <1>4
<1>7. PICK ex \in BOOLEAN : ex = exact BY <1>5
<1>8. Combine(ex, ofm_x, ofm_y) \in Image /\ IsSobel(ex, image, Combine(ex, ofm_x, ofm_y))
  <2>1. Convolved(ofm_x, ex, image, wt_x) /\ Convolved(ofm_y, ex, image, wt_y) BY <1>4, <1>6, <1>7
  <2> QED BY ONLY <2>1, ex \in BOOLEAN, image \in Image, Edges
<1>9. mag \in Image /\ IsSobel(exact, Picture, mag) BY ONLY <1>2, <1>6, <1>7, <1>8
<1>10. mag \in Seq(BYTE) /\ Stored(tmem["ifm_buf"], mag) = mag BY ONLY <1>4, <1>9, ImageIs
<1>11. tmem' = [tmem EXCEPT !["ifm_buf"] = mag] BY <1>3, <1>10 DEF Store, Stored
<1>12. tmem' \in [DOMAIN BUFFERS -> Seq(BYTE)] /\ tmem'["ifm_buf"] = mag
  BY <1>4, <1>10, <1>11, BuffersAre
<1>13. FilesOK' = FilesOK /\ Picture' = Picture /\ FileAt(sobel_out)' = FileAt(sobel_out) BY <1>3, SameFiles
<1>14. Kept' BY <1>3, <1>9, <1>12, <1>13 DEF Kept, BuffersOK, SobelStep, SobelState
<1>15. Descriptors' BY <1>1, <1>3 DEF Descriptors, SobelStep, SobelState
<1>16. Spoken' BY <1>1, <1>3 DEF Spoken, Said, SobelStep, SobelState
<1>17. Shown' BY <1>1, <1>3, <1>5, <1>9, <1>12, <1>13 DEF Shown, SobelStep, SobelState
<1> QED BY <1>1, <1>3, <1>14, <1>15, <1>16, <1>17 DEF SobelState

LEMMA SobelExits ==
  ASSUME SobelStep, tohost_exit PROVE SobelState'
<1>1. pc = 21
  <2>1. Now("exit") BY DEF tohost_exit
  <2> QED BY <2>1, SobelAt DEF SobelStep
<1>2. /\ pc' = pc + 1
      /\ UNCHANGED <<dir, data, fds, open, offset, holds, printed, tmem, prog, fd, ifm_use, ofm_x, ofm_y>>
  BY DEF tohost_exit, Done, table, disk, progVars
<1>3. FilesOK' = FilesOK /\ Picture' = Picture /\ FileAt(sobel_out)' = FileAt(sobel_out) BY <1>2, SameFiles
<1>4. Kept' BY <1>2, <1>3 DEF Kept, BuffersOK, SobelStep, SobelState
<1>5. Descriptors' BY <1>1, <1>2 DEF Descriptors, SobelStep, SobelState
<1>6. Spoken' BY <1>1, <1>2 DEF Spoken, Said, SobelStep, SobelState
<1>7. Shown' BY <1>1, <1>2, <1>3 DEF Shown, exact, SobelStep, SobelState
<1> QED BY <1>1, <1>2, <1>4, <1>5, <1>6, <1>7 DEF SobelState

\* No step changes the program, and a call that has failed has failed.
LEMMA SameProgram == [ProgramsNext]_programsVars => prog' = prog /\ (failed => failed') /\ input' = input
<1>1. UNCHANGED programsVars => prog' = prog /\ failed' = failed /\ input' = input BY DEF programsVars
<1>2. Called \/ Done => prog' = prog /\ (failed => failed') /\ input' = input
  <2>1. CASE Called
    <3>1. failed' = (failed \/ ret' < 0) BY <2>1 DEF Called
    <3>2. failed => failed' BY ONLY <3>1, Zenon
    <3> QED BY <2>1, <3>2 DEF Called
  <2>2. CASE Done
    <3>1. failed' = failed BY <2>2 DEF Done
    <3>2. failed => failed' BY ONLY <3>1
    <3> QED BY <2>2, <3>2 DEF Done
  <2> QED BY <2>1, <2>2
<1>3. Number => prog' = prog /\ (failed => failed') /\ input' = input BY <1>2 DEF Number
<1>4. BareTurn => prog' = prog /\ failed' = failed /\ input' = input BY DEF BareTurn
<1> QED BY <1>1, <1>2, <1>3, <1>4
    DEF ProgramsNext, tohost_printstr, tohost_open, tohost_read, tohost_write, tohost_close, Terminate,
        Widen, Convolve, CombineFeatures, Insertion, Fill, tohost_exit, Leave, AnyCall

LEMMA SobelNext == FdsInv /\ SobelInv /\ [ProgramsNext]_programsVars => SobelInv'
<1> SUFFICES ASSUME FdsInv, SobelInv, [ProgramsNext]_programsVars, Detects', ~failed' PROVE SobelState'
  BY DEF SobelInv
<1>1. Detects /\ ~failed BY SameProgram DEF Detects
<1>2. SobelStep BY <1>1, MainIs DEF SobelStep, SobelInv, Detects
<1>3. CASE UNCHANGED programsVars BY <1>3, SobelStays DEF SobelInv
<1>4. prog \notin DOMAIN ANY /\ prog \notin DOMAIN Bare
  <2>1. prog \in Named BY <1>1 DEF Detects, Named
  <2>2. prog \notin DOMAIN Bare BY <1>1 DEF Detects, Bare
  <2> QED BY <2>1, <2>2, NamesAssumption
<1>5. ~AnyCall /\ ~BareTurn BY <1>4 DEF AnyCall, BareTurn
<1>6. ~Terminate /\ ~Insertion /\ ~Fill /\ ~Leave
  BY <1>2, SobelAt DEF SobelStep, Terminate, Insertion, Fill, Leave
<1> QED BY <1>2, <1>3, <1>5, <1>6, SobelPrints, SobelOpens, SobelReads, SobelWrites, SobelCloses,
           SobelNumbers, SobelWidens, SobelConvolves, SobelCombines, SobelExits DEF ProgramsNext

-----------------------------------------------------------------------------
(* The sobel of src/software.                                                *)

\* The one without a host.
Alone == prog = "sobel-bare"
AloneState ==
  /\ pc \in 1..5 /\ ifm_use \in Image
  /\ pc \in {2, 3} => Convolved(ofm_x, exact, ifm_use, wt_x)
  /\ pc = 3 => Convolved(ofm_y, exact, ifm_use, wt_y)
  /\ pc >= 4 => IsSobel(exact, ifm_use, A)
AloneInv == Alone => AloneState

LEMMA BareStatements ==
  /\ Len(sobel_bare) = 4
  /\ sobel_bare[1].op = "conv_x" /\ sobel_bare[2].op = "conv_y" /\ sobel_bare[3].op = "combine"
  /\ sobel_bare[4].op = "return"
BY DEF sobel_bare, Do, St

LEMMA AloneAt ==
  ASSUME Main = sobel_bare, NEW op, Now(op)
  PROVE  (pc = 1 /\ op = "conv_x") \/ (pc = 2 /\ op = "conv_y") \/ (pc = 3 /\ op = "combine") \/ (pc = 4 /\ op = "return")
<1>1. pc \in 1..4 /\ sobel_bare[pc].op = op BY BareStatements DEF Now, st
<1> QED BY <1>1, BareStatements

LEMMA AloneStart == ProgramsInit => AloneInv
<1> SUFFICES ASSUME ProgramsInit, Alone PROVE AloneState BY DEF AloneInv
<1>1. pc = 1 /\ ifm_use \in IMAGES BY DEF ProgramsInit, Alone
<1>2. ifm_use \in Image BY <1>1, ArraysAssumption DEF Image, BYTE
<1> QED BY <1>1, <1>2 DEF AloneState

LEMMA AloneNext == AloneInv /\ [ProgramsNext]_programsVars => AloneInv'
<1> SUFFICES ASSUME AloneInv, [ProgramsNext]_programsVars, Alone' PROVE AloneState' BY DEF AloneInv
<1>1. Alone BY SameProgram DEF Alone
<1>2. AloneState /\ Main = sobel_bare BY <1>1, MainIs DEF AloneInv, Alone
<1>3. exact \in BOOLEAN /\ exact' = exact BY SameProgram DEF exact
<1>4. CASE UNCHANGED programsVars
  <2>1. UNCHANGED <<pc, ifm_use, ofm_x, ofm_y, A>> BY <1>4 DEF programsVars, progVars
  <2> QED BY <1>2, <1>3, <2>1 DEF AloneState
<1>5. prog \notin DOMAIN ANY /\ prog \notin DOMAIN Bare
  <2>1. prog \in Named BY <1>1 DEF Alone, Named
  <2>2. prog \notin DOMAIN Bare BY <1>1 DEF Alone, Bare
  <2> QED BY <2>1, <2>2, NamesAssumption
<1>6. ~AnyCall /\ ~BareTurn BY <1>5 DEF AnyCall, BareTurn
<1>7. \A op : Now(op) => op \in {"conv_x", "conv_y", "combine", "return"}
  <2>1. ASSUME NEW op, Now(op) PROVE op \in {"conv_x", "conv_y", "combine", "return"} BY <1>2, <2>1, AloneAt
  <2> QED BY <2>1
<1>8. /\ ~tohost_printstr /\ ~tohost_open /\ ~tohost_read /\ ~tohost_write /\ ~tohost_close
      /\ ~Number /\ ~Terminate /\ ~Widen /\ ~Insertion /\ ~Fill /\ ~tohost_exit
  <2>1. /\ ~Now("print") /\ ~Now("printbuf") /\ ~Now("open") /\ ~Now("create") /\ ~Now("read")
        /\ ~Now("write") /\ ~Now("close") /\ ~Now("number") /\ ~Now("checksum") /\ ~Now("terminate")
        /\ ~Now("widen") /\ ~Now("select") /\ ~Now("fill") /\ ~Now("exit")
    BY <1>7
  <2>2. ~tohost_printstr /\ ~tohost_open /\ ~tohost_read /\ ~tohost_write /\ ~tohost_close
    BY ONLY <2>1 DEF tohost_printstr, tohost_open, tohost_read, tohost_write, tohost_close
  <2>3. ~Number /\ ~Terminate /\ ~Widen /\ ~Insertion /\ ~Fill /\ ~tohost_exit
    BY ONLY <2>1 DEF Number, Terminate, Widen, Insertion, Fill, tohost_exit
  <2> QED BY <2>2, <2>3
<1>9. CASE Convolve
  <2>1. /\ \/ pc = 1 /\ ofm_x' = conv2D_sw(exact, ifm_use, wt_x) /\ UNCHANGED ofm_y
           \/ pc = 2 /\ ofm_y' = conv2D_sw(exact, ifm_use, wt_y) /\ UNCHANGED ofm_x
        /\ pc' = pc + 1 /\ UNCHANGED ifm_use
    BY <1>2, <1>9, AloneAt DEF Convolve, Done
  <2>2. ifm_use \in Image BY <1>2 DEF AloneState
  <2>3. /\ Convolved(conv2D_sw(exact, ifm_use, wt_x), exact, ifm_use, wt_x)
        /\ Convolved(conv2D_sw(exact, ifm_use, wt_y), exact, ifm_use, wt_y)
    BY ONLY <2>2, WeightsAre, ConvolutionIs
  <2>4. CASE pc = 1
    <3>1. pc' = 2 /\ Convolved(ofm_x', exact, ifm_use, wt_x) BY <2>1, <2>3, <2>4
    <3> QED BY <1>3, <2>1, <2>2, <3>1 DEF AloneState
  <2>5. CASE pc = 2
    <3>1. pc' = 3 /\ Convolved(ofm_y', exact, ifm_use, wt_y) /\ ofm_x' = ofm_x BY <2>1, <2>3, <2>5
    <3>2. Convolved(ofm_x, exact, ifm_use, wt_x) BY <1>2, <2>5 DEF AloneState
    <3> QED BY <1>3, <2>1, <2>2, <3>1, <3>2 DEF AloneState
  <2> QED BY <2>1, <2>4, <2>5
<1>10. CASE CombineFeatures
  <2>1. pc = 3 BY <1>2, <1>10, AloneAt DEF CombineFeatures
  <2>2. pc' = pc + 1 /\ A' = Combine(exact, ofm_x, ofm_y) /\ UNCHANGED ifm_use
    BY <1>1, <1>10 DEF CombineFeatures, Done, Alone
  <2>3. /\ ifm_use \in Image /\ Convolved(ofm_x, exact, ifm_use, wt_x) /\ Convolved(ofm_y, exact, ifm_use, wt_y)
    BY <1>2, <2>1 DEF AloneState
  <2>4. PICK ex \in BOOLEAN : ex = exact BY <1>3
  <2>5. IsSobel(ex, ifm_use, Combine(ex, ofm_x, ofm_y))
    <3>1. Convolved(ofm_x, ex, ifm_use, wt_x) /\ Convolved(ofm_y, ex, ifm_use, wt_y) BY <2>3, <2>4
    <3> QED BY ONLY <2>3, <3>1, ex \in BOOLEAN, Edges
  <2> QED BY <1>2, <1>3, <2>1, <2>2, <2>4, <2>5 DEF AloneState
<1>11. CASE Leave
  <2>1. pc = 4 BY <1>2, <1>11, AloneAt DEF Leave
  <2>2. pc' = pc + 1 /\ UNCHANGED <<ifm_use, ofm_x, ofm_y, A>> BY <1>11 DEF Leave, Done, progVars
  <2> QED BY <1>2, <1>3, <2>1, <2>2 DEF AloneState
<1> QED BY <1>4, <1>6, <1>8, <1>9, <1>10, <1>11 DEF ProgramsNext

LEMMA SobelDone == SobelInv /\ AloneInv => SobelExact
<1> SUFFICES ASSUME SobelInv, AloneInv PROVE SobelExact OBVIOUS
<1>1. ASSUME prog \in {"sobel", "sobel-approx"}, Ended, ~failed
      PROVE  LET out == SubSeq(FileAt("sobel.out"), 1, FM_SIZE) IN
             /\ IsSobel(exact, Padded(FileAt("lena.img.bin")), out)
             /\ IsTrimmedNumeral(printed[7], checksum(out))
  <2>1. SobelState /\ Main = sobel BY <1>1, MainIs DEF SobelInv, Detects
  <2>2. pc \in 1..22 /\ pc > 21 BY <1>1, <2>1, SobelStatements DEF SobelState, Ended
  <2>3. pc = 22 BY <2>2
  <2>4. /\ IsSobel(exact, Picture, ifm_use) /\ SubSeq(FileAt(sobel_out), 1, FM_SIZE) = ifm_use
        /\ IsTrimmedNumeral(printed[7], checksum(ifm_use))
    BY <2>1, <2>3 DEF SobelState, Spoken, Shown
  <2>5. PICK out : out = SubSeq(FileAt("sobel.out"), 1, FM_SIZE) OBVIOUS
  <2>6. out = ifm_use /\ Picture = Padded(FileAt("lena.img.bin")) BY ONLY <2>4, <2>5 DEF Picture, lena, sobel_out
  <2> QED BY ONLY <2>4, <2>5, <2>6
<1>2. ASSUME prog = "sobel-bare", Ended PROVE IsSobel(TRUE, ifm_use, A)
  <2>1. AloneState /\ Main = sobel_bare BY <1>2, MainIs DEF AloneInv, Alone
  <2>2. pc \in 1..5 /\ pc > 4 BY <1>2, <2>1, BareStatements DEF AloneState, Ended
  <2>3. IsSobel(exact, ifm_use, A) BY <2>1, <2>2 DEF AloneState
  <2>4. exact = TRUE BY <1>2 DEF exact
  <2> QED BY ONLY <2>3, <2>4, Zenon
<1> QED BY <1>1, <1>2 DEF SobelExact

\* sobel.c:147, for images of any size: the sobel programs write the magnitude
\* of the image's gradients, cut off at 255, and print the digits of the checksum
\* of that, but for the zeros at its end, which are lost (ExecLib.c:115).
THEOREM SobelIs == ProgramsSpec => []SobelExact
<1>1. ProgramsInit => FdsInv /\ SobelInv /\ AloneInv
  <2>1. ProgramsInit => FdsInv BY FdsInit DEF ProgramsInit
  <2> QED BY <2>1, SobelStart, AloneStart
<1>2. FdsInv /\ SobelInv /\ AloneInv /\ [ProgramsNext]_programsVars => (FdsInv /\ SobelInv /\ AloneInv)'
  BY FdsProgram, SobelNext, AloneNext
<1> QED BY <1>1, <1>2, SobelDone, PTL DEF ProgramsSpec

-----------------------------------------------------------------------------
(* moreThanExit: a message goes into a file and comes back.                  *)

\* A number of one digit.
LEMMA OneDigit == ASSUME NEW val \in 1..9 PROVE Len(uint64_to_str(val)) = 1
<1>1. Small(val) BY DEF Small
<1>2. PICK m : Holds(m) /\ val < Ten(m) BY <1>1, SmallIs
<1>3. val \in Nat /\ val \in Nat \ {0} /\ val # 0 OBVIOUS
<1>4. Len(uint64_to_str(val)) \in 1..9 BY ONLY <1>1, NumeralIs
<1>5. Len(uint64_to_str(val)) <= Power(val) BY ONLY <1>2, <1>3, Numeral
<1>6. Power(val) \in 1..m /\ Ten(Power(val) - 1) <= val BY ONLY <1>2, <1>3, PowerIs
<1>7. PICK p : p = Power(val) OBVIOUS
<1>8. m \in Nat BY <1>2 DEF Holds
<1>9. p \in 1..m /\ p - 1 \in Nat BY <1>6, <1>7, <1>8
<1>10. Ten(1) = 10
  <2>1. 0 \in Nat /\ 0 + 1 = 1 OBVIOUS
  <2>2. Ten(0) = 1 /\ Ten(0 + 1) = 10 * Ten(0) BY ONLY <2>1, TenIs
  <2> QED BY <2>1, <2>2
<1>11. ~(1 <= p - 1)
  <2>1. ASSUME 1 <= p - 1 PROVE FALSE
    <3>1. PICK n \in Nat : n = p - 1 BY <1>9
    <3>2. 1 \in 0..n BY <2>1, <3>1
    <3>3. Ten(1) <= Ten(n) BY ONLY <3>1, <3>2, TenIs
    <3>4. PICK t \in Nat : t = Ten(n) BY <3>1, TenIs
    <3>5. t <= val BY <1>6, <1>7, <3>1, <3>4
    <3> QED BY <1>10, <3>3, <3>4, <3>5
  <2> QED BY <2>1
<1>12. p = 1 BY <1>9, <1>11
<1>13. PICK l : l = Len(uint64_to_str(val)) OBVIOUS
<1>14. l \in 1..9 /\ l <= 1 BY ONLY <1>4, <1>5, <1>7, <1>12, <1>13
<1>15. l = 1 BY ONLY <1>14
<1> QED BY ONLY <1>13, <1>15

\* The program that writes a message and reads it again.
Sends == prog = "moreThanExit"
test_file == "Test"
\* What the statements have printed before the k-th of them.
Sent(k) ==
  IF k = 1 THEN 0 ELSE IF k <= 3 THEN 1 ELSE IF k <= 5 THEN 2 ELSE IF k = 6 THEN 3 ELSE IF k <= 9 THEN 4
  ELSE IF k <= 11 THEN 5 ELSE IF k <= 13 THEN 6 ELSE IF k = 14 THEN 7 ELSE IF k <= 17 THEN 8 ELSE 9

\* The message at the start of a buffer or a file; a buffer with one character.
Echoed(bytes) ==
  /\ Len(bytes) > Len(MESSAGE) /\ bytes[Len(MESSAGE) + 1] = 0
  /\ \A i \in 1..Len(MESSAGE) : bytes[i] = MESSAGE[i]
Holding(bytes) == Len(bytes) >= Len(MESSAGE) /\ SubSeq(bytes, 1, Len(MESSAGE)) = MESSAGE
Cleared(bytes) == \A i \in 1..Len(bytes) : i >= 2 => bytes[i] = 0

SendKept ==
  /\ FilesOK /\ BuffersOK /\ tmem["str2"] = BUFFERS["str2"]
  /\ Len(tmem["buf"]) = Len(BUFFERS["buf"])
SendDescriptors ==
  /\ pc \in {3, 4, 5, 6, 7, 11, 12, 13, 14, 15} => FileOpen(test_file)
  /\ pc \in {8, 16, 17, 18} => OneOpen
  /\ pc \in {1, 2, 9, 10, 19, 20} => DOMAIN holds = 0..2
SendSpoken ==
  /\ (\E S : printed \in Seq(S)) /\ Len(printed) = Sent(pc)
  /\ pc \in {5, 13} => IsTrimmedNumeral(CString(tmem["buf"]), 3)
  /\ pc >= 6 => IsTrimmedNumeral(printed[3], 3)
  /\ pc >= 14 => IsTrimmedNumeral(printed[7], 3)
  /\ pc >= 18 => printed[9] = MESSAGE
SendShown ==
  /\ pc <= 15 => Cleared(tmem["buf"])
  /\ pc \in {16, 17} => Echoed(tmem["buf"])
  /\ pc >= 8 => test_file \in DOMAIN dir /\ Holding(FileAt(test_file))
SendState == pc \in 1..20 /\ SendKept /\ SendDescriptors /\ SendSpoken /\ SendShown
SendInv == Sends /\ ~failed => SendState
SendStep == SendState /\ Sends /\ Main = moreThanExit /\ FdsInv /\ ~failed'

LEMMA SendStatements ==
  /\ Len(moreThanExit) = 19
  /\ moreThanExit[1] = St("print", "open to write", 0) /\ moreThanExit[2] = St("create", "Test", 0)
  /\ moreThanExit[3] = St("print", "got", 0) /\ moreThanExit[4] = St("number", "buf", 0)
  /\ moreThanExit[5] = St("printbuf", "buf", 0) /\ moreThanExit[6] = St("print", "from host", 0)
  /\ moreThanExit[7] = St("write", "str2", Len(MESSAGE)) /\ moreThanExit[8] = St("close", "", 0)
  /\ moreThanExit[9] = St("print", "open to read", 0) /\ moreThanExit[10] = St("open", "Test", 0)
  /\ moreThanExit[11] = St("print", "got", 0) /\ moreThanExit[12] = St("number", "buf", 0)
  /\ moreThanExit[13] = St("printbuf", "buf", 0) /\ moreThanExit[14] = St("print", "from host", 0)
  /\ moreThanExit[15] = St("read", "buf", Len(MESSAGE))
  /\ moreThanExit[16] = St("terminate", "buf", Len(MESSAGE) + 1)
  /\ moreThanExit[17] = St("printbuf", "buf", 0) /\ moreThanExit[18] = St("close", "", 0)
  /\ moreThanExit[19] = St("exit", "", 0)
BY DEF moreThanExit, Say, Do, strlen_e

LEMMA SendAt ==
  ASSUME Main = moreThanExit, NEW op, Now(op)
  PROVE  /\ pc \in 1..19 /\ (op = "print" => pc \in {1, 3, 6, 9, 11, 14})
         /\ (op = "create" => pc = 2) /\ (op = "open" => pc = 10) /\ (op = "number" => pc \in {4, 12})
         /\ (op = "printbuf" => pc \in {5, 13, 17}) /\ (op = "write" => pc = 7) /\ (op = "read" => pc = 15)
         /\ (op = "close" => pc \in {8, 18}) /\ (op = "terminate" => pc = 16) /\ (op = "exit" => pc = 19)
         /\ op \notin {"checksum", "widen", "conv_x", "conv_y", "combine", "select", "fill", "return"}
<1>1. pc \in 1..19 /\ moreThanExit[pc].op = op BY SendStatements DEF Now, st
<1>2. /\ moreThanExit[1].op = "print" /\ moreThanExit[2].op = "create" /\ moreThanExit[3].op = "print"
      /\ moreThanExit[4].op = "number" /\ moreThanExit[5].op = "printbuf" /\ moreThanExit[6].op = "print"
      /\ moreThanExit[7].op = "write" /\ moreThanExit[8].op = "close" /\ moreThanExit[9].op = "print"
      /\ moreThanExit[10].op = "open" /\ moreThanExit[11].op = "print" /\ moreThanExit[12].op = "number"
      /\ moreThanExit[13].op = "printbuf" /\ moreThanExit[14].op = "print" /\ moreThanExit[15].op = "read"
      /\ moreThanExit[16].op = "terminate" /\ moreThanExit[17].op = "printbuf" /\ moreThanExit[18].op = "close"
      /\ moreThanExit[19].op = "exit"
  BY DEF moreThanExit, Say, Do, St
<1>3. \/ (pc = 1 /\ op = "print") \/ (pc = 2 /\ op = "create") \/ (pc = 3 /\ op = "print")
      \/ (pc = 4 /\ op = "number") \/ (pc = 5 /\ op = "printbuf") \/ (pc = 6 /\ op = "print")
      \/ (pc = 7 /\ op = "write") \/ (pc = 8 /\ op = "close") \/ (pc = 9 /\ op = "print")
      \/ (pc = 10 /\ op = "open") \/ (pc = 11 /\ op = "print") \/ (pc = 12 /\ op = "number")
      \/ (pc = 13 /\ op = "printbuf") \/ (pc = 14 /\ op = "print") \/ (pc = 15 /\ op = "read")
      \/ (pc = 16 /\ op = "terminate") \/ (pc = 17 /\ op = "printbuf") \/ (pc = 18 /\ op = "close")
      \/ (pc = 19 /\ op = "exit")
  BY <1>1, <1>2
<1> QED BY <1>1, <1>3

LEMMA MessageIs ==
  /\ MESSAGE \in Seq(BYTE) /\ Len(MESSAGE) \in Nat \ {0} /\ \A i \in 1..Len(MESSAGE) : MESSAGE[i] # 0
  /\ Len(BUFFERS["buf"]) \in Nat /\ Len(MESSAGE) + 1 < Len(BUFFERS["buf"]) /\ Cleared(BUFFERS["buf"])
  /\ Holding(BUFFERS["str2"]) /\ BUFFERS["buf"] \in Seq(BYTE) /\ BUFFERS["str2"] \in Seq(BYTE)
<1>1. MESSAGE \in Seq(CHAR \ {0}) /\ MESSAGE # <<>> /\ CHAR \subseteq BYTE BY ProgramsAssumption
<1>2. PICK n \in Nat : n = Len(MESSAGE) BY <1>1
<1>3. n # 0 BY <1>1, <1>2
<1>4. MESSAGE \in [1..n -> CHAR \ {0}] BY <1>1, <1>2
<1>5. MESSAGE \in [1..n -> BYTE] BY <1>1, <1>4
<1>6. MESSAGE \in Seq(BYTE) BY <1>2, <1>5
<1>7. \A i \in 1..n : MESSAGE[i] # 0 BY <1>4
<1>8. BUFFERS["buf"] \in Seq(BYTE) /\ BUFFERS["str2"] \in Seq(BYTE) BY BuffersAre
<1>9. PICK l \in Nat : l = Len(BUFFERS["buf"]) BY <1>8
<1>10. n + 1 < l /\ \A i \in 1..l : BUFFERS["buf"][i] = 0 BY <1>2, <1>9, ArraysAssumption
<1>11. Cleared(BUFFERS["buf"]) BY <1>9, <1>10 DEF Cleared
<1>12. PICK k \in Nat : k = Len(BUFFERS["str2"]) BY <1>8
<1>13. k > n /\ SubSeq(BUFFERS["str2"], 1, n) = MESSAGE BY <1>2, <1>12, ArraysAssumption
<1>14. Holding(BUFFERS["str2"]) BY <1>2, <1>12, <1>13 DEF Holding
<1> QED BY <1>2, <1>3, <1>6, <1>7, <1>8, <1>9, <1>10, <1>11, <1>14

LEMMA SendStart == ProgramsInit => SendInv
<1> SUFFICES ASSUME ProgramsInit, Sends PROVE SendState BY DEF SendInv
<1>1. SysInit /\ pc = 1 BY DEF ProgramsInit
<1>2. holds = [f \in 0..2 |-> IF f = 0 THEN STDIN ELSE STDOUT] /\ dir \in DISKS /\ data \in DATAS
      /\ tmem = BUFFERS /\ printed = <<>>
  BY <1>1 DEF SysInit
<1>3. FilesOK BY <1>2, DisksAssumption DEF FilesOK
<1>4. SendKept BY <1>2, <1>3, BuffersAre DEF SendKept, BuffersOK
<1>5. DOMAIN holds = 0..2 BY <1>2
<1>6. SendDescriptors BY <1>1, <1>5 DEF SendDescriptors
<1>7. printed \in Seq({}) /\ Len(printed) = 0
  <2>1. <<>> \in Seq({}) OBVIOUS
  <2> QED BY <1>2, <2>1
<1>8. SendSpoken BY <1>1, <1>7 DEF SendSpoken, Sent
<1>9. SendShown BY <1>1, <1>2, MessageIs DEF SendShown
<1> QED BY <1>1, <1>4, <1>6, <1>8, <1>9 DEF SendState

LEMMA SameFile == UNCHANGED <<dir, data>> => FilesOK' = FilesOK /\ FileAt(test_file)' = FileAt(test_file)
BY DEF FilesOK, FileAt, test_file

LEMMA SendStays == SendInv /\ UNCHANGED programsVars => SendInv'
<1> SUFFICES ASSUME SendInv, UNCHANGED programsVars PROVE SendInv' OBVIOUS
<1>1. UNCHANGED <<fds, open, offset, holds, dir, data, tmem, printed, prog, pc, fd, failed>>
  BY DEF programsVars, sysVars, table, disk, rest, progVars
<1>2. FilesOK' = FilesOK /\ FileAt(test_file)' = FileAt(test_file) BY <1>1, SameFile
<1>3. SendKept' = SendKept BY <1>1, <1>2 DEF SendKept, BuffersOK
<1>4. FileOpen(test_file)' = FileOpen(test_file) BY <1>1 DEF FileOpen, Leads, lookup, test_file
<1>5. SendDescriptors' = SendDescriptors BY <1>1, <1>4 DEF SendDescriptors, OneOpen
<1>6. SendSpoken' = SendSpoken BY <1>1 DEF SendSpoken
<1>7. SendShown' = SendShown BY <1>1, <1>2 DEF SendShown
<1>8. SendState' = SendState BY <1>1, <1>3, <1>5, <1>6, <1>7 DEF SendState
<1> QED BY <1>1, <1>8 DEF SendInv, Sends

LEMMA Echo == ASSUME NEW bytes \in Seq(BYTE), Echoed(bytes) PROVE CString(bytes) = MESSAGE
<1>1. PICK n \in Nat : n = Len(MESSAGE) BY MessageIs
<1>2. n < Len(bytes) /\ bytes[n + 1] = 0 /\ \A i \in 1..n : bytes[i] = MESSAGE[i] BY <1>1 DEF Echoed
<1>3. \A i \in 1..n : bytes[i] # 0 BY <1>1, <1>2, MessageIs
<1>4. CString(bytes) = SubSeq(bytes, 1, n)
  <2>1. bytes \in Seq(BYTE) OBVIOUS
  <2> QED BY ONLY <1>1, <1>2, <1>3, <2>1, CStringIs
<1>5. SubSeq(bytes, 1, n) = MESSAGE
  <2>1. PICK u : u = SubSeq(bytes, 1, n) OBVIOUS
  <2>2. PICK l \in Nat : l = Len(bytes) OBVIOUS
  <2>3. u \in Seq(BYTE) /\ Len(u) = n /\ \A i \in 1..n : u[i] = bytes[i] BY <1>1, <1>2, <2>1, <2>2
  <2>4. u \in [1..n -> BYTE] /\ MESSAGE \in [1..n -> BYTE] BY <1>1, <2>3, MessageIs
  <2>5. \A i \in 1..n : u[i] = MESSAGE[i] BY ONLY <1>2, <2>3
  <2> QED BY ONLY <2>1, <2>4, <2>5
<1> QED BY <1>4, <1>5

LEMMA SendPrints ==
  ASSUME SendStep, tohost_printstr PROVE SendState'
<1>1. pc \in {1, 3, 6, 9, 11, 14} \/ (pc \in {5, 13, 17} /\ Now("printbuf") /\ ~Now("print"))
  <2>1. CASE Now("print") BY <2>1, SendAt DEF SendStep
  <2>2. CASE ~Now("print") /\ Now("printbuf") BY <2>2, SendAt DEF SendStep
  <2> QED BY <2>1, <2>2 DEF tohost_printstr
<1>2. PICK text : /\ printed' = Append(printed, text) /\ (pc \in {5, 13, 17} => text = CString(tmem["buf"]))
  <2>1. CASE Now("print")
    <3>1. pc \notin {5, 13, 17} BY <1>1, <2>1
    <3> QED BY <3>1 DEF tohost_printstr, sys_printstr
  <2>2. CASE ~Now("print")
    <3>1. Now("printbuf") /\ sys_printstr(CString(tmem[st.x])) BY <2>2 DEF tohost_printstr
    <3>2. pc \in {5, 13, 17} BY <3>1, SendAt DEF SendStep
    <3>3. st = St("printbuf", "buf", 0) BY <3>2, SendStatements DEF st, SendStep
    <3>4. st.x = "buf" BY ONLY <3>3, OpIs
    <3> QED BY <3>1, <3>4 DEF sys_printstr
  <2> QED BY <2>1, <2>2
<1>3. UNCHANGED <<fds, open, offset, holds, dir, data, tmem, prog, fd>> /\ pc' = pc + 1
  BY DEF tohost_printstr, sys_printstr, Called, table, disk, progVars
<1>4. FilesOK' = FilesOK /\ FileAt(test_file)' = FileAt(test_file) BY <1>3, SameFile
<1>5. FileOpen(test_file)' = FileOpen(test_file) BY <1>3 DEF FileOpen, Leads, lookup, test_file
<1>6. SendKept' BY <1>3, <1>4 DEF SendKept, BuffersOK, SendStep, SendState
<1>7. pc \in {1, 3, 5, 6, 9, 11, 13, 14, 17} BY <1>1
<1>8. pc' \in {2, 4, 6, 7, 10, 12, 14, 15, 18} BY <1>3, <1>7
<1>9. SendDescriptors' BY <1>3, <1>5, <1>7 DEF SendDescriptors, OneOpen, SendStep, SendState
<1>10. SendSpoken'
  <2>1. SendSpoken BY DEF SendStep, SendState
  <2>2. PICK p : p = Append(printed, text) OBVIOUS
  <2>3. (\E S : printed \in Seq(S)) /\ Len(printed) = Sent(pc) BY <2>1 DEF SendSpoken
  <2>4. /\ \E S : p \in Seq(S)
        /\ Len(printed) \in Nat /\ Len(p) = Len(printed) + 1 /\ p[Len(printed) + 1] = text
        /\ \A i \in 1..Len(printed) : p[i] = printed[i]
    <3>1. \E S : printed \in Seq(S) BY <2>3
    <3>2. Appended(printed, text, Append(printed, text)) BY ONLY <3>1, AppendIs
    <3> QED BY ONLY <2>2, <3>2 DEF Appended
  <2>5. p = printed' BY <1>2, <2>2
  <2>6. PICK n \in Nat : n = Len(printed) BY <2>4
  <2>7. n = Sent(pc) /\ Sent(pc + 1) = Sent(pc) + 1 BY <1>7, <2>3, <2>6 DEF Sent
  <2>8. Len(p) = Sent(pc') /\ p[n + 1] = text /\ \A i \in 1..n : p[i] = printed[i]
    BY <1>3, <2>4, <2>6, <2>7
  <2>9. pc' >= 6 => IsTrimmedNumeral(p[3], 3)
    <3>1. CASE pc = 5
      <4>1. n = 2 /\ n + 1 = 3 BY <2>7, <3>1 DEF Sent
      <4>2. p[3] = CString(tmem["buf"]) BY <1>2, <2>8, <3>1, <4>1
      <4> QED BY <2>1, <3>1, <4>2 DEF SendSpoken
    <3>2. CASE pc >= 6
      <4>1. 3 \in 1..n BY <1>7, <2>7, <3>2 DEF Sent
      <4>2. p[3] = printed[3] BY <2>8, <4>1
      <4> QED BY <2>1, <3>2, <4>2 DEF SendSpoken
    <3> QED BY <1>3, <1>7, <3>1, <3>2
  <2>10. pc' >= 14 => IsTrimmedNumeral(p[7], 3)
    <3>1. CASE pc = 13
      <4>1. n = 6 /\ n + 1 = 7 BY <2>7, <3>1 DEF Sent
      <4>2. p[7] = CString(tmem["buf"]) BY <1>2, <2>8, <3>1, <4>1
      <4> QED BY <2>1, <3>1, <4>2 DEF SendSpoken
    <3>2. CASE pc >= 14
      <4>1. 7 \in 1..n BY <1>7, <2>7, <3>2 DEF Sent
      <4>2. p[7] = printed[7] BY <2>8, <4>1
      <4> QED BY <2>1, <3>2, <4>2 DEF SendSpoken
    <3> QED BY <1>3, <1>7, <3>1, <3>2
  <2>11. pc' >= 18 => p[9] = MESSAGE
    <3>1. CASE pc = 17
      <4>1. n = 8 /\ n + 1 = 9 BY <2>7, <3>1 DEF Sent
      <4>2. p[9] = CString(tmem["buf"]) BY <1>2, <2>8, <3>1, <4>1
      <4>3. tmem["buf"] \in Seq(BYTE) /\ Echoed(tmem["buf"])
        BY <3>1, BuffersAre DEF SendStep, SendState, SendKept, BuffersOK, SendShown
      <4> QED BY <4>2, <4>3, Echo
    <3> QED BY <1>3, <1>7, <3>1
  <2>12. pc' \notin {5, 13} BY <1>8
  <2> QED BY <2>4, <2>5, <2>8, <2>9, <2>10, <2>11, <2>12 DEF SendSpoken
<1>11. SendShown' BY <1>3, <1>4, <1>7 DEF SendShown, SendStep, SendState
<1> QED BY <1>6, <1>8, <1>9, <1>10, <1>11 DEF SendState

LEMMA SendOpens ==
  ASSUME SendStep, tohost_open PROVE SendState'
<1>1. pc \in {2, 10}
  <2>1. Now("open") \/ Now("create") BY DEF tohost_open
  <2> QED BY <2>1, SendAt DEF SendStep
<1>2. st.x = test_file
  <2>1. st \in {St("create", "Test", 0), St("open", "Test", 0)} BY <1>1, SendStatements DEF st, SendStep
  <2> QED BY ONLY <2>1, OpIs DEF test_file
<1>3. PICK n : n = test_file OBVIOUS
<1>4. PICK creat : creat = (st.op = "create") OBVIOUS
<1>5. sys_openat(AT_FDCWD, n, creat) /\ fd' = ret' /\ ~(ret' < 0) /\ pc' = pc + 1 /\ UNCHANGED prog
  BY <1>2, <1>3, <1>4 DEF tohost_open, Called, SendStep
<1>6. FilesOK /\ DOMAIN holds = 0..2 /\ FdsInv
  BY <1>1 DEF SendStep, SendState, SendKept, SendDescriptors
<1>7. OpenedTo(n) /\ FilesOK' /\ UNCHANGED <<tmem, printed, exit>> BY ONLY <1>5, <1>6, OpenIs
<1>8. FileOpen(n)' BY ONLY <1>5, <1>7, LeadsThere
<1>9. FileOpen(test_file)' BY ONLY <1>3, <1>8
<1>10. SendKept' BY <1>7 DEF SendKept, BuffersOK, SendStep, SendState
<1>11. pc' \in {3, 11} BY <1>1, <1>5
<1>12. SendDescriptors' BY <1>9, <1>11 DEF SendDescriptors
<1>13. SendSpoken' BY <1>1, <1>5, <1>7 DEF SendSpoken, Sent, SendStep, SendState
<1>14. SendShown'
  <2>1. CASE pc = 2
    <3>1. Cleared(tmem["buf"]) BY <2>1 DEF SendStep, SendState, SendShown
    <3> QED BY <1>5, <1>7, <2>1, <3>1 DEF SendShown
  <2>2. CASE pc = 10
    <3>1. test_file \in DOMAIN dir /\ Holding(FileAt(test_file)) /\ Cleared(tmem["buf"])
      BY <2>2 DEF SendStep, SendState, SendShown
    <3>2. FileKept(test_file) BY <1>7, <3>1 DEF OpenedTo
    <3>3. test_file \in DOMAIN dir' /\ FileAt(test_file)' = FileAt(test_file) BY <3>2 DEF FileKept, FileAt
    <3> QED BY <1>5, <1>7, <2>2, <3>1, <3>3 DEF SendShown
  <2> QED BY <1>1, <2>1, <2>2
<1> QED BY <1>10, <1>11, <1>12, <1>13, <1>14 DEF SendState

LEMMA SendWrites ==
  ASSUME SendStep, tohost_write PROVE SendState'
<1>1. pc = 7
  <2>1. Now("write") BY DEF tohost_write
  <2> QED BY <2>1, SendAt DEF SendStep
<1>2. st = St("write", "str2", Len(MESSAGE)) BY <1>1, SendStatements DEF st, SendStep
<1>3. st.x = "str2" /\ st.n = Len(MESSAGE) BY ONLY <1>2, OpIs
<1>4. PICK p : p = "str2" OBVIOUS
<1>5. PICK k \in Nat : k = Len(MESSAGE) BY MessageIs
<1>6. sys_write(fd, p, k) /\ ~(ret' < 0) /\ pc' = pc + 1 /\ UNCHANGED <<prog, fd>>
  BY <1>3, <1>4, <1>5 DEF tohost_write, Called, SendStep, progVars
<1>7. FilesOK /\ FileOpen(test_file) /\ DOMAIN holds = 0..3 /\ fd = 3 /\ test_file \in DOMAIN dir
      /\ tmem[p] = BUFFERS["str2"]
  BY <1>1, <1>4 DEF SendStep, SendState, SendKept, SendDescriptors, FileOpen, Leads
<1>8. tmem[p] \in Seq(BYTE) /\ k <= Len(tmem[p]) /\ SubSeq(tmem[p], 1, k) = MESSAGE
  BY <1>5, <1>7, MessageIs DEF Holding
<1>9. /\ FilesOK' /\ \A m \in DOMAIN dir : m # test_file => data'[dir[m]] = data[dir[m]]
      /\ Len(data'[dir[test_file]]) >= k
      /\ SubSeq(data'[dir[test_file]], 1, k) = SubSeq(tmem[p], 1, k)
      /\ UNCHANGED <<dir, fds, open, raw, holds, tmem, printed, exit>>
  BY ONLY <1>6, <1>7, <1>8, <1>5, WriteIs
<1>10. test_file \in DOMAIN dir' /\ Holding(FileAt(test_file)')
  BY <1>5, <1>7, <1>8, <1>9 DEF FileAt, Holding
<1>11. SendKept' BY <1>9 DEF SendKept, BuffersOK, SendStep, SendState
<1>12. SendDescriptors' BY <1>1, <1>6, <1>7, <1>9 DEF SendDescriptors, OneOpen
<1>13. SendSpoken' BY <1>1, <1>6, <1>9 DEF SendSpoken, Sent, SendStep, SendState
<1>14. SendShown' BY <1>1, <1>6, <1>9, <1>10 DEF SendShown, SendStep, SendState
<1> QED BY <1>1, <1>6, <1>11, <1>12, <1>13, <1>14 DEF SendState

LEMMA SendCloses ==
  ASSUME SendStep, tohost_close PROVE SendState'
<1>1. pc \in {8, 18}
  <2>1. Now("close") BY DEF tohost_close
  <2> QED BY <2>1, SendAt DEF SendStep
<1>2. sys_close(fd) /\ ~(ret' < 0) /\ pc' = pc + 1 /\ UNCHANGED <<prog, fd>>
  BY DEF tohost_close, Called, SendStep, progVars
<1>3. DOMAIN holds = 0..3 /\ fd = 3 BY <1>1 DEF SendStep, SendState, SendDescriptors, OneOpen
<1>4. DOMAIN holds' = 0..2 /\ UNCHANGED <<disk, tmem, printed, exit>> BY ONLY <1>2, <1>3, CloseIs
<1>5. UNCHANGED <<dir, data, tmem, printed>> BY <1>4 DEF disk
<1>6. FilesOK' = FilesOK /\ FileAt(test_file)' = FileAt(test_file) BY <1>5, SameFile
<1>7. SendKept' BY <1>5, <1>6 DEF SendKept, BuffersOK, SendStep, SendState
<1>8. SendDescriptors' BY <1>1, <1>2, <1>4 DEF SendDescriptors
<1>9. SendSpoken' BY <1>1, <1>2, <1>5 DEF SendSpoken, Sent, SendStep, SendState
<1>10. SendShown' BY <1>1, <1>2, <1>5, <1>6 DEF SendShown, SendStep, SendState
<1> QED BY <1>1, <1>2, <1>7, <1>8, <1>9, <1>10 DEF SendState

LEMMA SendExits ==
  ASSUME SendStep, tohost_exit PROVE SendState'
<1>1. pc = 19
  <2>1. Now("exit") BY DEF tohost_exit
  <2> QED BY <2>1, SendAt DEF SendStep
<1>2. pc' = pc + 1 /\ UNCHANGED <<dir, data, fds, open, offset, holds, printed, tmem, prog, fd>>
  BY DEF tohost_exit, Done, table, disk, progVars
<1>3. FilesOK' = FilesOK /\ FileAt(test_file)' = FileAt(test_file) BY <1>2, SameFile
<1>4. SendKept' BY <1>2, <1>3 DEF SendKept, BuffersOK, SendStep, SendState
<1>5. SendDescriptors' BY <1>1, <1>2 DEF SendDescriptors, SendStep, SendState
<1>6. SendSpoken' BY <1>1, <1>2 DEF SendSpoken, Sent, SendStep, SendState
<1>7. SendShown' BY <1>1, <1>2, <1>3 DEF SendShown, SendStep, SendState
<1> QED BY <1>1, <1>2, <1>4, <1>5, <1>6, <1>7 DEF SendState

LEMMA SendNumbers ==
  ASSUME SendStep, Number PROVE SendState'
<1>1. pc \in {4, 12} /\ st.op = "number"
  <2>1. ~Now("checksum") BY SendAt DEF SendStep
  <2>2. Now("number") BY <2>1 DEF Number
  <2> QED BY <2>2, SendAt DEF SendStep, Now
<1>2. st = St("number", "buf", 0) BY <1>1, SendStatements DEF st, SendStep
<1>3. st.x = "buf" BY ONLY <1>2, OpIs
<1>4. PICK p : p = "buf" OBVIOUS
<1>5. FileOpen(test_file) /\ SendKept /\ Cleared(tmem["buf"])
  BY <1>1 DEF SendStep, SendState, SendDescriptors, SendShown
<1>6. PICK val \in 1..9 : val = 3 OBVIOUS
<1>7. fd = val BY <1>5, <1>6 DEF FileOpen, Leads
<1>8. Small(val) /\ val > 0 BY DEF Small
<1>9. ~Hangs(val) BY ONLY <1>8, SmallIs
<1>10. Store(p, Append(uint64_to_str(val), 0)) /\ Done /\ UNCHANGED progVars
  <2>1. /\ IF Hangs(val) THEN pc' = 0 /\ UNCHANGED <<prog, failed, input, sysVars, harnessVars>>
           ELSE Store(p, Append(uint64_to_str(val), 0)) /\ Done /\ UNCHANGED exit
        /\ UNCHANGED progVars
    BY <1>1, <1>3, <1>4, <1>7 DEF Number
  <2> QED BY <1>9, <2>1
<1>11. tmem \in [DOMAIN BUFFERS -> Seq(BYTE)] /\ p \in DOMAIN BUFFERS
  BY <1>4, <1>5, BuffersAre DEF SendKept, BuffersOK
<1>12. PICK bytes \in Seq(BYTE) : bytes = tmem[p] BY <1>11
<1>13. PICK new : new = Stored(bytes, Append(uint64_to_str(val), 0)) OBVIOUS
<1>14. Written(new, bytes, val) BY ONLY <1>8, <1>13, NumberIs
<1>15. PICK l \in Nat : l = Len(bytes) OBVIOUS
<1>16. l > 2 /\ Len(BUFFERS["buf"]) = l
  <2>1. Len(BUFFERS["buf"]) = l BY <1>4, <1>5, <1>12, <1>15 DEF SendKept
  <2>2. PICK n \in Nat \ {0} : n = Len(MESSAGE) BY MessageIs
  <2>3. n + 1 < l BY <2>1, <2>2, MessageIs
  <2> QED BY <2>1, <2>3
<1>17. /\ new \in Seq(BYTE) /\ IsTrimmedNumeral(CString(new), val) /\ Len(new) = l
       /\ new[2] = 0 /\ \A i \in 1..l : i > 2 => new[i] = bytes[i]
  <2>2. PICK k : k = Len(uint64_to_str(val)) OBVIOUS
  <2>3. k = 1 BY ONLY <2>2, val \in 1..9, OneDigit
  <2>4. /\ new \in Seq(BYTE) /\ IsTrimmedNumeral(CString(new), val)
        /\ Len(new) = (IF k + 1 < Len(bytes) THEN Len(bytes) ELSE k + 1)
        /\ \A i \in 1..Len(bytes) : i > k + 1 => new[i] = bytes[i]
        /\ new[k + 1] = 0
    BY ONLY <1>14, <2>2 DEF Written
  <2> QED BY ONLY <1>15, <1>16, <2>3, <2>4, l \in Nat
<1>18. Cleared(new)
  <2>1. \A i \in 1..l : i >= 2 => bytes[i] = 0 BY <1>4, <1>5, <1>12, <1>15 DEF Cleared
  <2>2. \A i \in 1..l : i >= 2 => i = 2 \/ i > 2 OBVIOUS
  <2> QED BY ONLY <1>17, <2>1, <2>2 DEF Cleared
<1>19. tmem' = [tmem EXCEPT ![p] = new] BY <1>10, <1>12, <1>13 DEF Store, Stored
<1>20. tmem' \in [DOMAIN BUFFERS -> Seq(BYTE)] /\ tmem'[p] = new /\ tmem'["str2"] = tmem["str2"]
  BY <1>4, <1>11, <1>17, <1>19, BuffersAre
<1>21. pc' = pc + 1 /\ UNCHANGED <<dir, data, fds, open, offset, holds, printed, prog, fd>>
  BY <1>10 DEF Done, progVars, table, disk
<1>22. FilesOK' = FilesOK /\ FileAt(test_file)' = FileAt(test_file) BY <1>21, SameFile
<1>23. FileOpen(test_file)' = FileOpen(test_file) BY <1>21 DEF FileOpen, Leads, lookup, test_file
<1>24. SendKept' BY <1>4, <1>5, <1>16, <1>17, <1>20, <1>22 DEF SendKept, BuffersOK
<1>25. SendDescriptors' BY <1>1, <1>5, <1>21, <1>23 DEF SendDescriptors
<1>26. IsTrimmedNumeral(CString(tmem["buf"])', 3) BY <1>4, <1>6, <1>17, <1>20
<1>27. SendSpoken' BY <1>1, <1>21, <1>26 DEF SendSpoken, Sent, SendStep, SendState
<1>28. SendShown' BY <1>1, <1>4, <1>18, <1>20, <1>21, <1>22 DEF SendShown, SendStep, SendState
<1> QED BY <1>1, <1>21, <1>24, <1>25, <1>27, <1>28 DEF SendState

LEMMA EchoStored ==
  ASSUME NEW bytes \in Seq(BYTE), Cleared(bytes), Len(bytes) > Len(MESSAGE) + 1, NEW file \in Seq(BYTE), Holding(file)
  PROVE  LET new == Stored(bytes, Prefix(file, Len(MESSAGE))) IN
         new \in Seq(BYTE) /\ Len(new) = Len(bytes) /\ Echoed(new)
<1>1. PICK n \in Nat \ {0} : n = Len(MESSAGE) BY MessageIs
<1>2. PICK m \in Seq(BYTE) : m = MESSAGE BY MessageIs
<1>3. PICK k \in Nat : k = Len(file) OBVIOUS
<1>4. k >= n /\ SubSeq(file, 1, n) = m BY <1>1, <1>2, <1>3 DEF Holding
<1>5. Prefix(file, n) = m
  <2>1. ~(n > k) BY <1>4
  <2> QED BY <1>3, <1>4, <2>1 DEF Prefix
<1>6. PICK new : new = Stored(bytes, m) OBVIOUS
<1>7. PICK l \in Nat : l = Len(bytes) OBVIOUS
<1>8. l > n + 1 /\ Len(m) = n BY <1>1, <1>2, <1>7
<1>9. /\ new \in Seq(BYTE) /\ Len(new) = (IF Len(m) < Len(bytes) THEN Len(bytes) ELSE Len(m))
      /\ \A i \in 1..Len(m) : new[i] = m[i]
      /\ \A i \in 1..Len(bytes) : i > Len(m) => new[i] = bytes[i]
  <2>1. bytes \in Seq(BYTE) /\ m \in Seq(BYTE) OBVIOUS
  <2>2. IsStored(Stored(bytes, m), bytes, m) BY ONLY <2>1, StoredIs
  <2> QED BY ONLY <1>6, <2>2 DEF IsStored
<1>10. Len(new) = l /\ (\A i \in 1..n : new[i] = m[i]) /\ new[n + 1] = bytes[n + 1]
  <2>1. n + 1 \in 1..l /\ n + 1 > n /\ n < l BY <1>8
  <2> QED BY ONLY <1>7, <1>8, <1>9, <2>1
<1>11. bytes[n + 1] = 0
  <2>1. n + 1 \in 1..l /\ n + 1 >= 2 BY <1>8
  <2> QED BY <1>7, <2>1 DEF Cleared
<1>12. l > n BY <1>8
<1>13. Echoed(new) BY ONLY <1>1, <1>2, <1>10, <1>11, <1>12 DEF Echoed
<1> QED BY ONLY <1>1, <1>5, <1>6, <1>7, <1>9, <1>10, <1>13

LEMMA SendReads ==
  ASSUME SendStep, tohost_read PROVE SendState'
<1>1. pc = 15
  <2>1. Now("read") BY DEF tohost_read
  <2> QED BY <2>1, SendAt DEF SendStep
<1>2. st = St("read", "buf", Len(MESSAGE)) BY <1>1, SendStatements DEF st, SendStep
<1>3. st.x = "buf" /\ st.n = Len(MESSAGE) BY ONLY <1>2, OpIs
<1>4. PICK p : p = "buf" OBVIOUS
<1>5. PICK k \in Nat : k = Len(MESSAGE) BY MessageIs
<1>6. sys_read(fd, p, k) /\ ~(ret' < 0) /\ pc' = pc + 1 /\ UNCHANGED <<prog, fd>>
  BY <1>3, <1>4, <1>5 DEF tohost_read, Called, SendStep, progVars
<1>7. FilesOK /\ BuffersOK /\ FileOpen(test_file) /\ test_file \in DOMAIN dir /\ p \in DOMAIN BUFFERS
      /\ DOMAIN holds = 0..3 /\ fd = 3 /\ Cleared(tmem[p]) /\ Holding(FileAt(test_file))
      /\ Len(tmem[p]) = Len(BUFFERS["buf"])
  BY <1>1, <1>4, BuffersAre DEF SendStep, SendState, SendKept, SendDescriptors, SendShown, FileOpen, Leads
<1>8. /\ tmem' = [tmem EXCEPT ![p] = Stored(@, Prefix(data[dir[test_file]], k))]
      /\ UNCHANGED <<disk, fds, open, raw, holds, printed, exit>>
  BY ONLY <1>5, <1>6, <1>7, ReadIs
<1>9. tmem[p] \in Seq(BYTE) /\ tmem \in [DOMAIN BUFFERS -> Seq(BYTE)] BY <1>7 DEF BuffersOK
<1>10. PICK file \in Seq(BYTE) : file = data[dir[test_file]] BY <1>7 DEF FilesOK
<1>11. PICK bytes \in Seq(BYTE) : bytes = tmem[p] BY <1>9
<1>12. Cleared(bytes) /\ Len(bytes) > Len(MESSAGE) + 1 /\ Holding(file)
  BY <1>5, <1>7, <1>10, <1>11, MessageIs DEF FileAt
<1>13. PICK new : new = Stored(bytes, Prefix(file, Len(MESSAGE))) OBVIOUS
<1>14. new \in Seq(BYTE) /\ Len(new) = Len(bytes) /\ Echoed(new)
  <2>1. bytes \in Seq(BYTE) /\ file \in Seq(BYTE) OBVIOUS
  <2> QED BY ONLY <1>12, <1>13, <2>1, EchoStored
<1>15. tmem' = [tmem EXCEPT ![p] = new] BY <1>5, <1>8, <1>10, <1>11, <1>13
<1>16. tmem' \in [DOMAIN BUFFERS -> Seq(BYTE)] /\ tmem'[p] = new /\ tmem'["str2"] = tmem["str2"]
  BY <1>4, <1>7, <1>9, <1>14, <1>15, BuffersAre
<1>17. UNCHANGED <<dir, data>> BY <1>8 DEF disk
<1>18. FilesOK' = FilesOK /\ FileAt(test_file)' = FileAt(test_file) BY <1>17, SameFile
<1>19. SendKept' BY <1>4, <1>7, <1>11, <1>14, <1>16, <1>18 DEF SendKept, BuffersOK, SendStep, SendState
<1>20. SendDescriptors' BY <1>1, <1>6, <1>7, <1>8 DEF SendDescriptors, OneOpen
<1>21. SendSpoken' BY <1>1, <1>6, <1>8 DEF SendSpoken, Sent, SendStep, SendState
<1>22. SendShown' BY <1>1, <1>4, <1>6, <1>7, <1>14, <1>16, <1>17, <1>18 DEF SendShown
<1> QED BY <1>1, <1>6, <1>19, <1>20, <1>21, <1>22 DEF SendState

LEMMA SendTerminates ==
  ASSUME SendStep, Terminate PROVE SendState'
<1>1. pc = 16
  <2>1. Now("terminate") BY DEF Terminate
  <2> QED BY <2>1, SendAt DEF SendStep
<1>2. st = St("terminate", "buf", Len(MESSAGE) + 1) BY <1>1, SendStatements DEF st, SendStep
<1>3. st.x = "buf" /\ st.n = Len(MESSAGE) + 1 BY ONLY <1>2, OpIs
<1>4. PICK p : p = "buf" OBVIOUS
<1>5. PICK n \in Nat : n = Len(MESSAGE) BY MessageIs
<1>6. /\ tmem' = [tmem EXCEPT ![p][n + 1 + 1] = 0] /\ pc' = pc + 1
      /\ UNCHANGED <<dir, data, fds, open, offset, holds, printed, prog, fd>>
  BY <1>3, <1>4, <1>5 DEF Terminate, Done, progVars, table, disk
<1>7. SendKept /\ Echoed(tmem[p]) BY <1>1, <1>4 DEF SendStep, SendState, SendShown
<1>8. tmem \in [DOMAIN BUFFERS -> Seq(BYTE)] /\ p \in DOMAIN BUFFERS
  BY <1>4, <1>7, BuffersAre DEF SendKept, BuffersOK
<1>9. PICK bytes \in Seq(BYTE) : bytes = tmem[p] BY <1>8
<1>10. PICK l \in Nat : l = Len(bytes) OBVIOUS
<1>11. PICK new : new = [bytes EXCEPT ![n + 1 + 1] = 0] OBVIOUS
<1>12. new \in Seq(BYTE) /\ Len(new) = l /\ \A i \in 1..l : i <= n + 1 => new[i] = bytes[i]
  <2>1. 0 \in BYTE BY DEF BYTE
  <2>2. bytes \in [1..l -> BYTE] BY <1>10
  <2>3. new \in [1..l -> BYTE] BY <1>11, <2>1, <2>2
  <2>4. \A i \in 1..l : i <= n + 1 => new[i] = bytes[i] BY <1>11, <2>2
  <2>5. new \in Seq(BYTE) /\ Len(new) = l BY <2>3
  <2> QED BY <2>4, <2>5
<1>13. Echoed(new)
  <2>1. l > n /\ bytes[n + 1] = 0 /\ \A i \in 1..n : bytes[i] = MESSAGE[i] BY <1>5, <1>7, <1>9, <1>10 DEF Echoed
  <2>2. n + 1 \in 1..l /\ \A i \in 1..n : i \in 1..l /\ i <= n + 1 BY <2>1
  <2>3. new[n + 1] = 0 /\ \A i \in 1..n : new[i] = MESSAGE[i] BY <1>12, <2>1, <2>2
  <2> QED BY <1>5, <1>12, <2>1, <2>3 DEF Echoed
<1>14. tmem' = [tmem EXCEPT ![p] = new] BY <1>6, <1>9, <1>11
<1>15. tmem' \in [DOMAIN BUFFERS -> Seq(BYTE)] /\ tmem'[p] = new /\ tmem'["str2"] = tmem["str2"]
  BY <1>4, <1>8, <1>12, <1>14, BuffersAre
<1>16. FilesOK' = FilesOK /\ FileAt(test_file)' = FileAt(test_file) BY <1>6, SameFile
<1>17. SendKept' BY <1>4, <1>7, <1>9, <1>10, <1>12, <1>15, <1>16 DEF SendKept, BuffersOK
<1>18. SendDescriptors' BY <1>1, <1>6 DEF SendDescriptors, OneOpen, SendStep, SendState
<1>19. SendSpoken' BY <1>1, <1>6 DEF SendSpoken, Sent, SendStep, SendState
<1>20. SendShown'
  <2>1. test_file \in DOMAIN dir /\ Holding(FileAt(test_file)) BY <1>1 DEF SendShown, SendStep, SendState
  <2>2. pc' = 17 BY <1>1, <1>6
  <2>3. Echoed(tmem'["buf"]) BY ONLY <1>4, <1>13, <1>15
  <2> QED BY ONLY <1>6, <1>16, <2>1, <2>2, <2>3 DEF SendShown
<1> QED BY <1>1, <1>6, <1>17, <1>18, <1>19, <1>20 DEF SendState

LEMMA SendNext == FdsInv /\ SendInv /\ [ProgramsNext]_programsVars => SendInv'
<1> SUFFICES ASSUME FdsInv, SendInv, [ProgramsNext]_programsVars, Sends', ~failed' PROVE SendState'
  BY DEF SendInv
<1>1. Sends /\ ~failed BY SameProgram DEF Sends
<1>2. SendStep BY <1>1, MainIs DEF SendStep, SendInv, Sends
<1>3. CASE UNCHANGED programsVars BY <1>3, SendStays DEF SendInv
<1>4. prog \notin DOMAIN ANY /\ prog \notin DOMAIN Bare
  <2>1. prog \in Named BY <1>1 DEF Sends, Named
  <2>2. prog \notin DOMAIN Bare BY <1>1 DEF Sends, Bare
  <2> QED BY <2>1, <2>2, NamesAssumption
<1>5. ~AnyCall /\ ~BareTurn BY <1>4 DEF AnyCall, BareTurn
<1>6. ~Widen /\ ~Convolve /\ ~CombineFeatures /\ ~Insertion /\ ~Fill /\ ~Leave
  BY <1>2, SendAt DEF SendStep, Widen, Convolve, CombineFeatures, Insertion, Fill, Leave
<1> QED BY <1>2, <1>3, <1>5, <1>6, SendPrints, SendOpens, SendReads, SendWrites, SendCloses,
           SendNumbers, SendTerminates, SendExits DEF ProgramsNext

LEMMA SendDone == SendInv /\ Sends /\ Ended /\ ~failed => DOMAIN holds = {0, 1, 2} /\ MessageBack
<1> SUFFICES ASSUME SendInv, Sends, Ended, ~failed PROVE DOMAIN holds = {0, 1, 2} /\ MessageBack OBVIOUS
<1>1. SendState /\ Main = moreThanExit BY MainIs DEF SendInv, Sends
<1>2. pc \in 1..20 /\ pc > 19 BY <1>1, SendStatements DEF SendState, Ended
<1>3. pc = 20 BY <1>2
<1>4. DOMAIN holds = 0..2 BY <1>1, <1>3 DEF SendState, SendDescriptors
<1>5. MessageBack BY <1>1, <1>3 DEF SendState, SendSpoken, SendShown, MessageBack, Holding, test_file
<1> QED BY <1>4, <1>5

-----------------------------------------------------------------------------
(* insertionSort.                                                            *)

\* The first of the least from i on.
FirstLeast(a, i, n, j) ==
  j \in i..n /\ (\A k \in i..n : a[j] <= a[k]) /\ \A k \in i..(j - 1) : a[j] < a[k]
LEMMA LeastExists ==
  ASSUME NEW n \in Nat, NEW a \in [1..n -> Int], NEW i \in 1..n
  PROVE  \E j : FirstLeast(a, i, n, j)
<1>1. PICK Failing : Failing = {m \in i..n : ~\E j : FirstLeast(a, i, m, j)} OBVIOUS
<1>2. ASSUME NEW m \in Failing, \A y \in Failing : m <= y PROVE FALSE
  <2>1. m \in i..n /\ ~\E j : FirstLeast(a, i, m, j) BY <1>1
  <2>2. CASE m = i
    <3>1. FirstLeast(a, i, m, i)
      <4>1. \A k \in i..m : k = i BY <2>2
      <4>2. a[i] \in Int /\ a[i] <= a[i] OBVIOUS
      <4>3. i \in i..m /\ \A k \in i..(i - 1) : FALSE BY <2>2
      <4> QED BY ONLY <4>1, <4>2, <4>3 DEF FirstLeast
    <3> QED BY <2>1, <3>1
  <2>3. CASE m # i
    <3>1. PICK l \in Int : l = m - 1 BY <2>1
    <3>2. l \in i..n /\ l \notin Failing /\ m = l + 1 BY <1>2, <2>1, <2>3, <3>1
    <3>3. PICK j : FirstLeast(a, i, l, j) BY <1>1, <3>2
    <3>4. j \in i..l /\ (\A k \in i..l : a[j] <= a[k]) /\ \A k \in i..(j - 1) : a[j] < a[k]
      BY <3>3 DEF FirstLeast
    <3>5. \A k \in i..m : k \in i..l \/ k = m BY <3>2
    <3>6. a[m] \in Int /\ a[j] \in Int /\ \A k \in i..l : a[k] \in Int BY <2>1, <3>2, <3>4
    <3>7. CASE a[m] < a[j]
      <4>1. m \in i..m /\ \A k \in i..(m - 1) : k \in i..l BY <2>1, <3>2
      <4>2. \A k \in i..l : a[m] < a[k] BY <3>4, <3>6, <3>7
      <4>3. \A k \in i..m : a[m] <= a[k] BY <3>5, <3>6, <4>2
      <4>4. FirstLeast(a, i, m, m) BY ONLY <4>1, <4>2, <4>3 DEF FirstLeast
      <4> QED BY <2>1, <4>4
    <3>8. CASE ~(a[m] < a[j])
      <4>1. \A k \in i..m : a[j] <= a[k] BY <3>4, <3>5, <3>6, <3>8
      <4>2. j \in i..m BY <3>2, <3>4
      <4>3. FirstLeast(a, i, m, j) BY ONLY <3>4, <4>1, <4>2 DEF FirstLeast
      <4> QED BY <2>1, <4>3
    <3> QED BY <3>7, <3>8
  <2> QED BY <2>2, <2>3
<1>3. Failing \in SUBSET Nat BY <1>1
<1>4. Failing # {} => \E x \in Failing : \A y \in Failing : x <= y BY ONLY <1>3, Least
<1>5. Failing = {} BY ONLY <1>2, <1>4
<1>6. n \in i..n OBVIOUS
<1> QED BY <1>1, <1>5, <1>6

\* The first numbers of a are in order, and no greater than any behind them.
SortedUpTo(a, n, k) == \A i, j \in 1..n : i < j /\ i < k => a[i] <= a[j]
OneToOne(f, n) == \A i, j \in 1..n : f[i] = f[j] => i = j
Shuffled(a, b, n) == \E from \in [1..n -> 1..n] : OneToOne(from, n) /\ \A i \in 1..n : a[i] = b[from[i]]

LEMMA SwapIs ==
  ASSUME NEW n \in Nat, NEW a \in [1..n -> Int], NEW b \in [1..n -> Int], NEW i \in 1..n, NEW m,
         FirstLeast(a, i, n, m), SortedUpTo(a, n, i), Shuffled(a, b, n)
  PROVE  LET c == [a EXCEPT ![i] = a[m], ![m] = a[i]] IN
         c \in [1..n -> Int] /\ SortedUpTo(c, n, i + 1) /\ Shuffled(c, b, n)
<1>1. m \in 1..n /\ m \in i..n /\ \A k \in i..n : a[m] <= a[k] BY DEF FirstLeast
<1>2. PICK s : s = [k \in 1..n |-> IF k = m THEN i ELSE IF k = i THEN m ELSE k] OBVIOUS
<1>3. s \in [1..n -> 1..n] /\ OneToOne(s, n) /\ s[i] = m /\ \A k \in 1..n : k < i => s[k] = k
  <2>1. s \in [1..n -> 1..n] BY <1>1, <1>2
  <2>2. OneToOne(s, n) BY <1>1, <1>2 DEF OneToOne
  <2>3. s[i] = m /\ \A k \in 1..n : k < i => s[k] = k BY <1>1, <1>2
  <2> QED BY <2>1, <2>2, <2>3
<1>4. \A k \in 1..n : k >= i => s[k] \in i..n BY <1>1, <1>2
<1>5. PICK c : c = [a EXCEPT ![i] = a[m], ![m] = a[i]] OBVIOUS
<1>6. c \in [1..n -> Int] BY <1>1, <1>5
<1>7. \A k \in 1..n : c[k] = a[s[k]] BY <1>1, <1>2, <1>5
<1>8. SortedUpTo(c, n, i + 1)
  <2>1. ASSUME NEW k \in 1..n, NEW j \in 1..n, k < j, k < i + 1 PROVE c[k] <= c[j]
    <3>1. CASE k < i
      <4>1. c[k] = a[k] BY <1>3, <1>7, <3>1
      <4>2. s[j] \in 1..n /\ k < s[j]
        <5>1. CASE j < i BY <1>3, <2>1, <5>1
        <5>2. CASE j >= i BY <1>4, <3>1, <5>2
        <5> QED BY <5>1, <5>2
      <4>3. a[k] <= a[s[j]] BY <3>1, <4>2 DEF SortedUpTo
      <4> QED BY <1>7, <4>1, <4>3
    <3>2. CASE k = i
      <4>1. c[k] = a[m] /\ s[j] \in i..n BY <1>3, <1>4, <1>7, <2>1, <3>2
      <4> QED BY <1>1, <1>7, <4>1
    <3> QED BY <2>1, <3>1, <3>2
  <2> QED BY <2>1 DEF SortedUpTo
<1>9. Shuffled(c, b, n)
  <2>1. PICK from \in [1..n -> 1..n] : OneToOne(from, n) /\ \A k \in 1..n : a[k] = b[from[k]] BY DEF Shuffled
  <2>2. PICK f : f = [k \in 1..n |-> from[s[k]]] OBVIOUS
  <2>3. f \in [1..n -> 1..n] BY <1>3, <2>2
  <2>4. OneToOne(f, n)
    <3>1. ASSUME NEW k \in 1..n, NEW j \in 1..n, f[k] = f[j] PROVE k = j
      <4>1. s[k] \in 1..n /\ s[j] \in 1..n /\ from[s[k]] = from[s[j]] BY <1>3, <2>2, <3>1
      <4>2. s[k] = s[j] BY <2>1, <4>1 DEF OneToOne
      <4> QED BY <1>3, <4>2 DEF OneToOne
    <3> QED BY <3>1 DEF OneToOne
  <2>5. \A k \in 1..n : c[k] = b[f[k]] BY <1>3, <1>7, <2>1, <2>2
  <2> QED BY <2>3, <2>4, <2>5 DEF Shuffled
<1> QED BY <1>5, <1>6, <1>8, <1>9

Sorts == prog = "insertionSort"
SortState ==
  /\ A \in Seq(Int) /\ input \in Seq(Int) /\ Len(A) = Len(input) /\ pc \in 1..(Len(A) + 1)
  /\ SortedUpTo(A, Len(A), pc) /\ Shuffled(A, input, Len(A))
SortInv == Sorts => SortState

LEMMA SortStart == ProgramsInit => SortInv
<1> SUFFICES ASSUME ProgramsInit, Sorts PROVE SortState BY DEF SortInv
<1>1. A \in ARRAYS /\ input = A /\ pc = 1 BY DEF ProgramsInit, Sorts
<1>2. A \in Seq(Int) BY <1>1, ArraysAssumption
<1>3. PICK n \in Nat : n = Len(A) BY <1>2
<1>4. SortedUpTo(A, n, 1) BY DEF SortedUpTo
<1>5. Shuffled(A, A, n)
  <2>1. PICK f : f = [k \in 1..n |-> k] OBVIOUS
  <2>2. f \in [1..n -> 1..n] /\ OneToOne(f, n) BY <2>1 DEF OneToOne
  <2>3. \A k \in 1..n : A[k] = A[f[k]] BY <2>1
  <2> QED BY <2>2, <2>3 DEF Shuffled
<1>6. pc \in 1..(n + 1) BY <1>1
<1> QED BY <1>1, <1>2, <1>3, <1>4, <1>5, <1>6 DEF SortState

LEMMA SortAt ==
  ASSUME SortState, Main = insertionSort(Len(A)), NEW op, Now(op)
  PROVE  /\ pc \in 1..Len(A)
         /\ \/ op = "select" /\ pc < Len(A) /\ st.n = pc
            \/ op = "exit" /\ pc = Len(A)
<1>1. PICK n \in Nat : n = Len(A) BY DEF SortState
<1>2. Main = [i \in 1..n |-> IF i < n THEN St("select", "", i) ELSE St("exit", "", 0)] BY <1>1 DEF insertionSort
<1>3. PICK s : s = Main OBVIOUS
<1>4. s = [i \in 1..n |-> IF i < n THEN St("select", "", i) ELSE St("exit", "", 0)] BY ONLY <1>2, <1>3
<1>5. Len(s) = n
  <2>1. PICK T : T = {s[i] : i \in 1..n} OBVIOUS
  <2>2. s \in [1..n -> T] BY <1>4, <2>1
  <2> QED BY <2>2
<1>6. pc \in 1..n /\ st = s[pc] /\ st.op = op BY <1>3, <1>5 DEF Now, st
<1>7. CASE pc < n
  <2>1. st = St("select", "", pc) BY <1>4, <1>6, <1>7
  <2>2. PICK k : k = pc OBVIOUS
  <2>3. st = [op |-> "select", x |-> "", n |-> k] BY ONLY <2>1, <2>2 DEF St
  <2>4. st.op = "select" /\ st.n = k BY ONLY <2>3
  <2> QED BY <1>1, <1>6, <1>7, <2>2, <2>4
<1>8. CASE ~(pc < n)
  <2>1. pc = n BY <1>6, <1>8
  <2>2. st = St("exit", "", 0) BY <1>4, <1>6, <1>8
  <2>3. st.op = "exit" BY ONLY <2>2, OpIs
  <2> QED BY <1>1, <1>6, <2>1, <2>3
<1> QED BY <1>7, <1>8

LEMMA SortSelects ==
  ASSUME SortState, Main = insertionSort(Len(A)), Insertion PROVE SortState'
<1>1. pc \in 1..Len(A) /\ pc < Len(A) /\ st.n = pc
  <2>1. Now("select") BY DEF Insertion
  <2> QED BY <2>1, SortAt
<1>2. PICK n \in Nat : n = Len(A) BY DEF SortState
<1>3. A \in [1..n -> Int] /\ input \in [1..n -> Int] BY <1>2 DEF SortState
<1>4. PICK i \in 1..n : i = pc BY <1>1, <1>2
<1>5. PICK m : m = CHOOSE j \in i..n : /\ \A k \in i..n : A[j] <= A[k]
                                     /\ \A k \in i..(j - 1) : A[j] < A[k]
  OBVIOUS
<1>6. FirstLeast(A, i, n, m)
  <2>1. \E j : FirstLeast(A, i, n, j) BY ONLY <1>3, n \in Nat, i \in 1..n, LeastExists
  <2> QED BY ONLY <1>5, <2>1 DEF FirstLeast
<1>7. A' = [A EXCEPT ![i] = A[m], ![m] = A[i]] BY <1>1, <1>2, <1>4, <1>5 DEF Insertion
<1>8. SortedUpTo(A, n, i) /\ Shuffled(A, input, n) BY <1>2, <1>4 DEF SortState
<1>9. PICK a \in [1..n -> Int] : a = A BY <1>3
<1>10. PICK b \in [1..n -> Int] : b = input BY <1>3
<1>11. PICK c : c = [a EXCEPT ![i] = a[m], ![m] = a[i]] OBVIOUS
<1>12. c \in [1..n -> Int] /\ SortedUpTo(c, n, i + 1) /\ Shuffled(c, b, n)
  <2>1. FirstLeast(a, i, n, m) /\ SortedUpTo(a, n, i) /\ Shuffled(a, b, n) BY ONLY <1>6, <1>8, <1>9, <1>10
  <2> QED BY ONLY <1>11, <2>1, n \in Nat, i \in 1..n, a \in [1..n -> Int], b \in [1..n -> Int], SwapIs
<1>13. A' = c BY <1>7, <1>9, <1>11
<1>14. c \in Seq(Int) /\ Len(c) = n BY <1>12
<1>15. pc' = i + 1 /\ input' = input BY <1>4 DEF Insertion, Done
<1>16. pc' \in 1..(n + 1) BY <1>15
<1>17. b \in Seq(Int) /\ Len(b) = n BY <1>10, <1>2 DEF SortState
<1> QED BY ONLY <1>10, <1>12, <1>13, <1>14, <1>15, <1>16, <1>17 DEF SortState

LEMMA SortNext == SortInv /\ [ProgramsNext]_programsVars => SortInv'
<1> SUFFICES ASSUME SortInv, [ProgramsNext]_programsVars, Sorts' PROVE SortState' BY DEF SortInv
<1>1. Sorts BY SameProgram DEF Sorts
<1>2. SortState /\ Main = insertionSort(Len(A)) BY <1>1, MainIs DEF SortInv, Sorts
<1>3. CASE UNCHANGED programsVars
  <2>1. UNCHANGED <<pc, A, input>> BY <1>3 DEF programsVars, progVars
  <2> QED BY <1>2, <2>1 DEF SortState
<1>4. prog \notin DOMAIN ANY /\ prog \notin DOMAIN Bare
  <2>1. prog \in Named BY <1>1 DEF Sorts, Named
  <2>2. prog \notin DOMAIN Bare BY <1>1 DEF Sorts, Bare
  <2> QED BY <2>1, <2>2, NamesAssumption
<1>5. ~AnyCall /\ ~BareTurn BY <1>4 DEF AnyCall, BareTurn
<1>6. \A op : Now(op) => op \in {"select", "exit"}
  <2>1. ASSUME NEW op, Now(op) PROVE op \in {"select", "exit"} BY <1>2, <2>1, SortAt
  <2> QED BY <2>1
<1>7. /\ ~tohost_printstr /\ ~tohost_open /\ ~tohost_read /\ ~tohost_write /\ ~tohost_close
      /\ ~Number /\ ~Terminate /\ ~Widen /\ ~Convolve /\ ~CombineFeatures /\ ~Fill /\ ~Leave
  BY <1>6 DEF tohost_printstr, tohost_open, tohost_read, tohost_write, tohost_close, Number, Terminate, Widen,
              Convolve, CombineFeatures, Fill, Leave
<1>8. CASE Insertion BY <1>2, <1>8, SortSelects
<1>9. CASE tohost_exit
  <2>1. PICK n \in Nat : n = Len(A) BY <1>2 DEF SortState
  <2>2. pc = n
    <3>1. Now("exit") BY <1>9 DEF tohost_exit
    <3> QED BY <1>2, <2>1, <3>1, SortAt
  <2>3. pc' = n + 1 /\ UNCHANGED <<A, input>> BY <1>9, <2>2 DEF tohost_exit, Done, progVars
  <2>4. SortedUpTo(A, n, n + 1)
    <3>1. SortedUpTo(A, n, n) BY <1>2, <2>1, <2>2 DEF SortState
    <3> QED BY <3>1 DEF SortedUpTo
  <2>5. pc' \in 1..(n + 1) BY <2>3
  <2> QED BY <1>2, <2>1, <2>3, <2>4, <2>5 DEF SortState
<1> QED BY <1>3, <1>5, <1>7, <1>8, <1>9 DEF ProgramsNext

LEMMA SortDone == SortInv /\ Sorts /\ Ended => Sorted
<1> SUFFICES ASSUME SortInv, Sorts, Ended PROVE Sorted OBVIOUS
<1>1. SortState /\ Main = insertionSort(Len(A)) BY MainIs DEF SortInv, Sorts
<1>2. PICK n \in Nat : n = Len(A) BY <1>1 DEF SortState
<1>3. pc > n
  <2>1. PICK s : s = Main OBVIOUS
  <2>2. s = [i \in 1..n |-> IF i < n THEN St("select", "", i) ELSE St("exit", "", 0)]
    BY <1>1, <1>2, <2>1 DEF insertionSort
  <2>3. PICK T : T = {s[i] : i \in 1..n} OBVIOUS
  <2>4. s \in [1..n -> T] BY <2>2, <2>3
  <2>5. Len(s) = n BY <2>4
  <2> QED BY <2>1, <2>5 DEF Ended
<1>4. SortedUpTo(A, n, pc) /\ Shuffled(A, input, n) /\ pc \in 1..(n + 1) BY <1>1, <1>2 DEF SortState
<1>5. DOMAIN A = 1..n /\ DOMAIN input = 1..n BY <1>1, <1>2 DEF SortState
<1>6. \A i, j \in 1..n : i < j => A[i] <= A[j] BY <1>3, <1>4 DEF SortedUpTo
<1>7. \E from \in [1..n -> 1..n] : /\ \A i, j \in 1..n : from[i] = from[j] => i = j
                                   /\ \A i \in 1..n : A[i] = input[from[i]]
  BY <1>4 DEF Shuffled, OneToOne
<1>8. PICK d : d = 1..n OBVIOUS
<1>9. DOMAIN A = d /\ DOMAIN input = d BY ONLY <1>5, <1>8
<1>10. \A i, j \in d : i < j => A[i] <= A[j] BY ONLY <1>6, <1>8
<1>11. \E from \in [d -> d] : /\ \A i, j \in d : from[i] = from[j] => i = j
                              /\ \A i \in d : A[i] = input[from[i]]
  BY ONLY <1>7, <1>8
<1> QED BY ONLY <1>9, <1>10, <1>11 DEF Sorted

-----------------------------------------------------------------------------
(* What the programs have open in the end.                                   *)

\* The programs that open nothing.
OpensNothing == {"sobel-bare", "insertionSort", "simple", "c_example", "hello"}
QuietInv == prog \in PROGS /\ (prog \in OpensNothing => DOMAIN holds = 0..2)

LEMMA QuietAt ==
  ASSUME SortInv, prog \in OpensNothing, NEW op, Now(op) PROVE op \notin {"open", "create", "close"}
<1>1. CASE prog = "sobel-bare"
  <2>1. Main = sobel_bare BY <1>1, MainIs
  <2> QED BY <2>1, AloneAt
<1>2. CASE prog = "insertionSort"
  <2>1. SortState /\ Main = insertionSort(Len(A)) BY <1>2, MainIs DEF SortInv, Sorts
  <2> QED BY <2>1, SortAt
<1>3. CASE prog = "simple"
  <2>1. Main = simple /\ Len(simple) = 2 /\ simple[1].op = "fill" /\ simple[2].op = "exit"
    BY <1>3, MainIs DEF simple, Do, St
  <2>2. pc \in 1..2 /\ simple[pc].op = op BY <2>1 DEF Now, st
  <2> QED BY <2>1, <2>2
<1>4. CASE prog = "c_example"
  <2>1. Main = c_example /\ Len(c_example) = 1 /\ c_example[1].op = "return" BY <1>4, MainIs DEF c_example, St
  <2>2. pc \in 1..1 /\ c_example[pc].op = op BY <2>1 DEF Now, st
  <2> QED BY <2>1, <2>2
<1>5. CASE prog = "hello"
  <2>1. Main = hello /\ Len(hello) = 1 /\ hello[1].op = "return" BY <1>5, MainIs DEF hello, St
  <2>2. pc \in 1..1 /\ hello[pc].op = op BY <2>1 DEF Now, st
  <2> QED BY <2>1, <2>2
<1> QED BY <1>1, <1>2, <1>3, <1>4, <1>5 DEF OpensNothing

LEMMA QuietStart == ProgramsInit => QuietInv
<1> SUFFICES ASSUME ProgramsInit PROVE QuietInv OBVIOUS
<1>1. holds = [f \in 0..2 |-> IF f = 0 THEN STDIN ELSE STDOUT] /\ prog \in PROGS BY DEF ProgramsInit, SysInit
<1> QED BY <1>1 DEF QuietInv

LEMMA QuietNext == SortInv /\ QuietInv /\ [ProgramsNext]_programsVars => QuietInv'
<1> SUFFICES ASSUME SortInv, QuietInv, [ProgramsNext]_programsVars PROVE QuietInv' OBVIOUS
<1>1. prog' = prog BY SameProgram
<1>2. ASSUME prog \in OpensNothing PROVE holds' = holds
  <2>1. ~Now("open") /\ ~Now("create") /\ ~Now("close") BY <1>2, QuietAt
  <2>2. ~tohost_open /\ ~tohost_close BY <2>1 DEF tohost_open, tohost_close
  <2>3. prog \notin DOMAIN ANY
    <3>1. prog \in Named BY <1>2 DEF OpensNothing, Named
    <3> QED BY <3>1, NamesAssumption
  <2>4. ~AnyCall BY <2>3 DEF AnyCall
  <2>5. UNCHANGED table => holds' = holds BY DEF table
  <2>6. UNCHANGED sysVars => holds' = holds BY <2>5 DEF sysVars
  <2>7. UNCHANGED programsVars => holds' = holds BY <2>6 DEF programsVars
  <2>8. tohost_printstr => holds' = holds BY <2>5 DEF tohost_printstr, sys_printstr
  <2>9. tohost_read => holds' = holds BY DEF tohost_read, sys_read
  <2>10. tohost_write => holds' = holds BY DEF tohost_write, sys_write
  <2>11. Number => holds' = holds BY <2>5, <2>6 DEF Number, Done
  <2>12. \/ Terminate \/ Widen \/ Convolve \/ CombineFeatures \/ Insertion \/ Fill \/ tohost_exit \/ Leave
         => holds' = holds
    BY <2>5 DEF Terminate, Widen, Convolve, CombineFeatures, Insertion, Fill, tohost_exit, Leave, Done
  <2>13. BareTurn => holds' = holds BY <2>6 DEF BareTurn
  <2> QED BY <2>2, <2>4, <2>7, <2>8, <2>9, <2>10, <2>11, <2>12, <2>13 DEF ProgramsNext
<1> QED BY <1>1, <1>2 DEF QuietInv

\* What a program has open in the end.
LEMMA ClosedInTheEnd ==
  SobelInv /\ SendInv /\ QuietInv /\ Ended /\ ~failed => DOMAIN holds = {0, 1, 2}
<1> SUFFICES ASSUME SobelInv, SendInv, QuietInv, Ended, ~failed PROVE DOMAIN holds = {0, 1, 2} OBVIOUS
<1>1. prog \in Named BY NamesAssumption DEF QuietInv, Ended
<1>2. CASE Detects
  <2>1. SobelState /\ Main = sobel BY <1>2, MainIs DEF SobelInv, Detects
  <2>2. pc \in 1..22 /\ pc > 21 BY <2>1, SobelStatements DEF SobelState, Ended
  <2>3. pc = 22 BY <2>2
  <2>4. DOMAIN holds = 0..2 BY <2>1, <2>3 DEF SobelState, Descriptors
  <2> QED BY <2>4
<1>3. CASE Sends BY <1>3, SendDone
<1>4. CASE prog \in OpensNothing
  <2>1. DOMAIN holds = 0..2 BY <1>4 DEF QuietInv
  <2> QED BY <2>1
<1> QED BY <1>1, <1>2, <1>3, <1>4 DEF Named, Detects, Sends, OpensNothing

-----------------------------------------------------------------------------
(* The programs that run without a host, and the loop of sim_main.cc.        *)

\* What a program without a host stores to the console, and how much of it with
\* its first k stores.
StoreRecords == [addr : Int, data : Int]
Characters(p) == IF p = "c_hello" THEN MESSAGE ELSE <<72, 72, 10>>
Count(p, k) == IF p = "c_hello" THEN k ELSE IF k = 0 THEN 0 ELSE IF k <= 4 THEN k - 1 ELSE 3

LEMMA SWIs ==
  /\ \A a, d : SW(a, d).addr = a /\ SW(a, d).data = d
  /\ \A a, d \in Int : SW(a, d) \in StoreRecords
BY DEF SW, StoreRecords

LEMMA AddressesAre ==
  /\ CONSOLE_ADDR \in Nat /\ HALT_ADDR \in Nat /\ CONSOLE_ADDR # HALT_ADDR
  /\ 4 \in PORTS /\ 4 # CONSOLE_ADDR /\ 4 # HALT_ADDR /\ CONSOLE_ADDR \in PORTS /\ HALT_ADDR \in PORTS
  /\ Idle \in StoreRecords /\ Idle.addr = -1 /\ PORTS \subseteq Nat
<1>1. -1 \in Int /\ 0 \in Int OBVIOUS
<1>2. Idle \in StoreRecords /\ Idle.addr = -1 BY <1>1, SWIs DEF Idle
<1> QED BY <1>2, HarnessAssumption, StoresAssumption

\* Of each store: what it asks for.
StoreIs(p, s, k) ==
  /\ s \in StoreRecords /\ s.addr \in PORTS
  /\ s.addr = CONSOLE_ADDR => Count(p, k) = Count(p, k - 1) + 1 /\ s.data = Characters(p)[Count(p, k)]
  /\ s.addr # CONSOLE_ADDR => Count(p, k) = Count(p, k - 1)
BareIs(p, B, N) ==
  /\ N \in Nat \ {0} /\ Len(B) = N /\ B \in Seq(StoreRecords) /\ \A k \in 1..N : StoreIs(p, B[k], k)
  /\ p = "c_hello" => \A k \in 1..N : B[k].addr = CONSOLE_ADDR /\ B[k].data # 0
  /\ p = "asm_example" =>
       /\ N = 5 /\ B[1].addr = 4 /\ B[1].data = 720 /\ B[5].addr = HALT_ADDR
       /\ \A k \in 1..N : k # 1 => B[k] # B[1] /\ B[k].addr # 4
       /\ \A k \in 1..N : B[k].addr = HALT_ADDR => k = 5

LEMMA HelloIs == BareIs("c_hello", c_hello, Len(c_hello))
<1>1. PICK n \in Nat : n = Len(MESSAGE) BY MessageIs
<1>2. n # 0 BY <1>1, MessageIs
<1>3. MESSAGE \in [1..n -> BYTE] BY <1>1, MessageIs
<1>4. PICK B : B = c_hello OBVIOUS
<1>5. B = [i \in 1..n |-> SW(CONSOLE_ADDR, MESSAGE[i])] BY <1>3, <1>4 DEF c_hello
<1>6. ASSUME NEW k \in 1..n
      PROVE  B[k] \in StoreRecords /\ B[k].addr = CONSOLE_ADDR /\ B[k].data = MESSAGE[k] /\ MESSAGE[k] # 0
  <2>1. MESSAGE[k] \in Int
    <3>1. MESSAGE[k] \in BYTE BY <1>3
    <3>2. \A b \in BYTE : b \in Int BY DEF BYTE
    <3> QED BY ONLY <3>1, <3>2
  <2>2. B[k] = SW(CONSOLE_ADDR, MESSAGE[k]) BY <1>5
  <2>3. CONSOLE_ADDR \in Int BY AddressesAre
  <2>4. B[k] \in StoreRecords /\ B[k].addr = CONSOLE_ADDR /\ B[k].data = MESSAGE[k] BY ONLY <2>1, <2>2, <2>3, SWIs
  <2> QED BY <1>1, <2>4, MessageIs
<1>7. B \in [1..n -> StoreRecords] BY <1>5, <1>6
<1>8. B \in Seq(StoreRecords) /\ Len(B) = n BY <1>7
<1>9. PICK p : p = "c_hello" OBVIOUS
<1>10. \A k \in 1..n : StoreIs(p, B[k], k) BY <1>6, <1>9, AddressesAre DEF StoreIs, Count, Characters
<1>11. p # "asm_example" BY <1>9
<1>12. BareIs(p, B, n) BY <1>2, <1>6, <1>8, <1>10, <1>11 DEF BareIs
<1> QED BY <1>4, <1>8, <1>9, <1>12

LEMMA ExampleIs == BareIs("asm_example", asm_example, Len(asm_example))
<1>1. PICK B : B = asm_example OBVIOUS
<1>2. 120 * 6 = 720 OBVIOUS
<1>3. /\ Len(B) = 5 /\ B[1] = SW(4, 720) /\ B[2] = SW(CONSOLE_ADDR, 72) /\ B[3] = SW(CONSOLE_ADDR, 72)
      /\ B[4] = SW(CONSOLE_ADDR, 10) /\ B[5] = SW(HALT_ADDR, 1) /\ DOMAIN B = 1..5
  BY <1>1, <1>2 DEF asm_example
<1>4. PICK C \in Int : C = CONSOLE_ADDR BY AddressesAre
<1>5. PICK H \in Int : H = HALT_ADDR BY AddressesAre
<1>6. /\ B[1] \in StoreRecords /\ B[1].addr = 4 /\ B[1].data = 720
      /\ B[2] \in StoreRecords /\ B[2].addr = C /\ B[2].data = 72
      /\ B[3] \in StoreRecords /\ B[3].addr = C /\ B[3].data = 72
      /\ B[4] \in StoreRecords /\ B[4].addr = C /\ B[4].data = 10
      /\ B[5] \in StoreRecords /\ B[5].addr = H /\ B[5].data = 1
  BY <1>3, <1>4, <1>5, SWIs
<1>7. B \in Seq(StoreRecords)
  <2>1. B = <<SW(4, 720), SW(C, 72), SW(C, 72), SW(C, 10), SW(H, 1)>> BY <1>1, <1>2, <1>4, <1>5 DEF asm_example
  <2>2. SW(4, 720) \in StoreRecords /\ SW(C, 72) \in StoreRecords /\ SW(C, 10) \in StoreRecords /\ SW(H, 1) \in StoreRecords BY SWIs
  <2> QED BY <2>1, <2>2
<1>8. \A k \in 1..5 : k \in {1, 2, 3, 4, 5} OBVIOUS
<1>9. PICK p : p = "asm_example" OBVIOUS
<1>10. p # "c_hello" BY <1>9
<1>11. C # H /\ 4 # C /\ 4 # H /\ C \in PORTS /\ H \in PORTS /\ 4 \in PORTS BY <1>4, <1>5, AddressesAre
<1>12. Characters(p)[1] = 72 /\ Characters(p)[2] = 72 /\ Characters(p)[3] = 10 BY <1>10 DEF Characters
<1>13. Count(p, 0) = 0 /\ Count(p, 1) = 0 /\ Count(p, 2) = 1 /\ Count(p, 3) = 2 /\ Count(p, 4) = 3 /\ Count(p, 5) = 3
  BY <1>10 DEF Count
<1>14. 1 - 1 = 0 /\ 2 - 1 = 1 /\ 3 - 1 = 2 /\ 4 - 1 = 3 /\ 5 - 1 = 4 /\ 0 + 1 = 1 /\ 1 + 1 = 2 /\ 2 + 1 = 3 OBVIOUS
<1>15. StoreIs(p, B[1], 1) BY <1>4, <1>6, <1>11, <1>13, <1>14 DEF StoreIs
<1>16. StoreIs(p, B[2], 2) BY <1>4, <1>6, <1>11, <1>12, <1>13, <1>14 DEF StoreIs
<1>17. StoreIs(p, B[3], 3) BY <1>4, <1>6, <1>11, <1>12, <1>13, <1>14 DEF StoreIs
<1>18. StoreIs(p, B[4], 4) BY <1>4, <1>6, <1>11, <1>12, <1>13, <1>14 DEF StoreIs
<1>19. StoreIs(p, B[5], 5) BY <1>4, <1>6, <1>11, <1>13, <1>14 DEF StoreIs
<1>20. \A k \in 1..5 : StoreIs(p, B[k], k) BY ONLY <1>8, <1>15, <1>16, <1>17, <1>18, <1>19
<1>21. \A k \in 1..5 : k # 1 => B[k] # B[1] /\ B[k].addr # 4 BY <1>6, <1>8, <1>11
<1>22. \A k \in 1..5 : B[k].addr = HALT_ADDR => k = 5 BY <1>5, <1>6, <1>8, <1>11
<1>23. PICK N : N = 5 OBVIOUS
<1>24. BareIs(p, B, N) BY ONLY <1>3, <1>5, <1>6, <1>7, <1>10, <1>20, <1>21, <1>22, <1>23 DEF BareIs
<1> QED BY <1>1, <1>3, <1>9, <1>23, <1>24

LEMMA BareProgram == ASSUME NEW p \in DOMAIN Bare PROVE p \in {"c_hello", "asm_example"} /\ BareIs(p, Bare[p], Len(Bare[p]))
<1>1. p \in {"c_hello", "asm_example"} BY DEF Bare
<1>2. CASE p = "c_hello"
  <2>1. Bare[p] = c_hello BY <1>2 DEF Bare
  <2> QED BY <1>1, <1>2, <2>1, HelloIs
<1>3. CASE p = "asm_example"
  <2>1. Bare[p] = asm_example BY <1>3 DEF Bare
  <2> QED BY <1>1, <1>3, <2>1, ExampleIs
<1> QED BY <1>1, <1>2, <1>3

\* The stores to the console among the first of a program.
Asks(a, B, n) ==
  a = [k \in 0..n |-> IF k = 0 THEN <<>>
                      ELSE IF B[k].addr = CONSOLE_ADDR THEN Append(a[k - 1], B[k]) ELSE a[k - 1]]
AsksFor(p, s, k) ==
  s \in Seq(StoreRecords) /\ Len(s) = Count(p, k) /\ \A i \in 1..Count(p, k) : s[i].data = Characters(p)[i]

LEMMA CountIs == \A p : Count(p, 0) = 0 /\ \A k \in Nat : Count(p, k) \in Nat
BY DEF Count

LEMMA AsksExist ==
  ASSUME NEW p, NEW B, NEW n, BareIs(p, B, n)
  PROVE  \E a : Asks(a, B, n)
<1>1. n \in Nat /\ B \in [1..n -> StoreRecords] BY DEF BareIs
<1>2. PICK V : V = Seq(StoreRecords) OBVIOUS
<1>3. PICK empty : empty = <<>> OBVIOUS
<1>4. empty \in V BY <1>2, <1>3
<1>5. PICK step : step = [k \in 1..n |-> [s \in V |-> IF B[k].addr = CONSOLE_ADDR THEN Append(s, B[k]) ELSE s]]
  OBVIOUS
<1>6. step \in [1..n -> [V -> V]]
  <2>1. ASSUME NEW k \in 1..n, NEW s \in V PROVE Append(s, B[k]) \in V /\ s \in V
    <3>1. B[k] \in StoreRecords BY <1>1
    <3> QED BY <1>2, <3>1
  <2> QED BY <1>5, <2>1
<1>7. PICK f : Solution(f, n, V, empty, step) BY ONLY <1>1, <1>4, <1>6, Recursion
<1>8. f \in [0..n -> V] /\ f[0] = empty /\ \A i \in 1..n : f[i] = step[i][f[i - 1]] BY <1>7 DEF Solution
<1>9. ASSUME NEW k \in 0..n
      PROVE  f[k] = IF k = 0 THEN <<>> ELSE IF B[k].addr = CONSOLE_ADDR THEN Append(f[k - 1], B[k]) ELSE f[k - 1]
  <2>1. CASE k = 0 BY <1>3, <1>8, <2>1
  <2>2. CASE k # 0
    <3>1. PICK j \in Int : j = k - 1 OBVIOUS
    <3>2. k \in 1..n /\ j \in 0..n BY <1>1, <2>2, <3>1
    <3>3. f[j] \in V /\ f[k] = step[k][f[j]] BY <1>8, <3>1, <3>2
    <3>4. f[k] = IF B[k].addr = CONSOLE_ADDR THEN Append(f[j], B[k]) ELSE f[j] BY <1>5, <3>2, <3>3
    <3> QED BY <2>2, <3>1, <3>4
  <2> QED BY <2>1, <2>2
<1>10. Asks(f, B, n) BY <1>8, <1>9 DEF Asks
<1> QED BY <1>10

LEMMA AsksAre ==
  ASSUME NEW p, NEW B, NEW n, BareIs(p, B, n), NEW a, Asks(a, B, n)
  PROVE  \A k \in 0..n : AsksFor(p, a[k], k)
<1>1. n \in Nat /\ \A k \in 1..n : StoreIs(p, B[k], k) BY DEF BareIs
<1>2. \A k \in 0..n : a[k] = IF k = 0 THEN <<>>
                            ELSE IF B[k].addr = CONSOLE_ADDR THEN Append(a[k - 1], B[k]) ELSE a[k - 1]
  BY DEF Asks
<1>3. PICK Failing : Failing = {k \in 0..n : ~AsksFor(p, a[k], k)} OBVIOUS
<1>4. ASSUME NEW k \in Failing, \A l \in Failing : k <= l PROVE FALSE
  <2>1. k \in 0..n /\ ~AsksFor(p, a[k], k) BY <1>3
  <2>2. k # 0
    <3>1. SUFFICES ASSUME k = 0 PROVE FALSE OBVIOUS
    <3>2. a[k] = <<>> /\ Count(p, k) = 0 BY <1>2, <2>1, <3>1, CountIs
    <3> QED BY <2>1, <3>2 DEF AsksFor
  <2>3. PICK j \in Int : j = k - 1 BY <2>1
  <2>4. k \in 1..n /\ j \in 0..n /\ ~(k <= j) BY <1>1, <2>1, <2>2, <2>3
  <2>5. j \notin Failing BY <1>4, <2>4
  <2>6. AsksFor(p, a[j], j) BY <1>3, <2>4, <2>5
  <2>7. PICK s \in Seq(StoreRecords) : s = a[j] BY <2>6 DEF AsksFor
  <2>8. PICK c \in Nat : c = Count(p, j) BY <2>4, CountIs
  <2>9. Len(s) = c /\ \A i \in 1..c : s[i].data = Characters(p)[i] BY <2>6, <2>7, <2>8 DEF AsksFor
  <2>10. a[k] = IF B[k].addr = CONSOLE_ADDR THEN Append(s, B[k]) ELSE s BY <1>2, <2>2, <2>3, <2>4, <2>7
  <2>11. PICK e \in StoreRecords : e = B[k] BY <1>1, <2>4 DEF StoreIs
  <2>12. CASE e.addr = CONSOLE_ADDR
    <3>1. Count(p, k) = c + 1 /\ e.data = Characters(p)[c + 1]
      BY <1>1, <2>3, <2>4, <2>8, <2>11, <2>12 DEF StoreIs
    <3>2. PICK u : u = Append(s, e) OBVIOUS
    <3>3. u \in Seq(StoreRecords) /\ Len(u) = c + 1 /\ u[c + 1] = e /\ \A i \in 1..c : u[i] = s[i]
      BY <2>9, <3>2
    <3>4. \A i \in 1..(c + 1) : u[i].data = Characters(p)[i] BY <2>9, <3>1, <3>3
    <3>5. a[k] = u BY <2>10, <2>11, <2>12, <3>2
    <3> QED BY <2>1, <3>1, <3>3, <3>4, <3>5 DEF AsksFor
  <2>13. CASE e.addr # CONSOLE_ADDR
    <3>1. Count(p, k) = c /\ a[k] = s BY <1>1, <2>3, <2>4, <2>8, <2>10, <2>11, <2>13 DEF StoreIs
    <3> QED BY <2>1, <2>9, <3>1 DEF AsksFor
  <2> QED BY <2>12, <2>13
<1>5. Failing \in SUBSET Nat BY <1>1, <1>3
<1>6. Failing # {} => \E x \in Failing : \A y \in Failing : x <= y BY ONLY <1>5, Least
<1>7. Failing = {} BY ONLY <1>4, <1>6
<1> QED BY <1>3, <1>7

\* What is on the bus and on the screen when a program has come to its k-th store.
OnBus(p, B, n, k, b) ==
  \/ b = Idle
  \/ k > 0 /\ b = B[k]
  \/ p = "c_hello" /\ k = n /\ b = SW(CONSOLE_ADDR, 0)
OnScreen(p, n, k, s) ==
  /\ s \in Seq(Int)
  /\ ~(p = "c_hello" /\ k = n) => Len(s) = Count(p, k)
  /\ p = "c_hello" /\ k = n => Len(s) >= Count(p, k)
  /\ \A i \in 1..Len(s) : i <= Count(p, k) => s[i] = Characters(p)[i]
  /\ Len(s) > Count(p, k) => s[Len(s)] = 0
ScreenAt(p, B, n, k, b, s) ==
  /\ s \in Seq(Int)
  /\ ~(p = "c_hello" /\ k = n) => Len(s) = Count(p, k) - (IF b.addr = CONSOLE_ADDR THEN 1 ELSE 0)
  /\ p = "c_hello" /\ k = n => IF b = B[n] THEN Len(s) = Count(p, k) - 1 ELSE Len(s) >= Count(p, k)
  /\ \A i \in 1..Len(s) : i <= Count(p, k) => s[i] = Characters(p)[i]
  /\ Len(s) > Count(p, k) => s[Len(s)] = 0

\* What the console shows when a turn in which the clock rises has printed.
LEMMA PrintsOnce ==
  ASSUME NEW p, NEW B, NEW n, BareIs(p, B, n), NEW k \in 0..n, NEW b, OnBus(p, B, n, k, b),
         NEW s, ScreenAt(p, B, n, k, b, s)
  PROVE  OnScreen(p, n, k, IF b # Idle /\ b.addr = CONSOLE_ADDR THEN Append(s, b.data) ELSE s)
<1>1. n \in Nat \ {0} /\ \A l \in 1..n : StoreIs(p, B[l], l) BY DEF BareIs
<1>2. PICK q \in Nat : q = Count(p, k) BY <1>1, CountIs
<1>3. PICK c \in Nat : c = Len(s) BY DEF ScreenAt
<1>4. /\ s \in Seq(Int)
      /\ ~(p = "c_hello" /\ k = n) => c = q - (IF b.addr = CONSOLE_ADDR THEN 1 ELSE 0)
      /\ p = "c_hello" /\ k = n => IF b = B[n] THEN c = q - 1 ELSE c >= q
      /\ \A i \in 1..c : i <= q => s[i] = Characters(p)[i]
      /\ c > q => s[c] = 0
  BY <1>2, <1>3 DEF ScreenAt
<1>5. CASE b.addr # CONSOLE_ADDR
  <2>1. p = "c_hello" => b # B[n] BY <1>1, <1>5 DEF BareIs
  <2>2. OnScreen(p, n, k, s) BY <1>2, <1>3, <1>4, <1>5, <2>1 DEF OnScreen
  <2> QED BY <1>5, <2>2
<1>6. CASE b.addr = CONSOLE_ADDR
  <2>1. b # Idle BY <1>6, AddressesAre
  <2>2. b.data \in Int
    <3>1. 0 \in Int OBVIOUS
    <3>2. k > 0 => B[k] \in StoreRecords BY <1>1 DEF StoreIs
    <3>3. \A e \in StoreRecords : e.data \in Int BY DEF StoreRecords
    <3>4. SW(CONSOLE_ADDR, 0).data = 0 BY SWIs
    <3> QED BY <2>1, <3>1, <3>2, <3>3, <3>4 DEF OnBus
  <2>3. PICK u : u = Append(s, b.data) OBVIOUS
  <2>4. u \in Seq(Int) /\ Len(u) = c + 1 /\ u[c + 1] = b.data /\ \A i \in 1..c : u[i] = s[i]
    BY <1>3, <1>4, <2>2, <2>3
  <2>5. CASE k > 0 /\ b = B[k]
    <3>1. q = Count(p, k - 1) + 1 /\ b.data = Characters(p)[q] BY <1>1, <1>2, <1>6, <2>5 DEF StoreIs
    <3>2. c = q - 1 BY <1>4, <1>6, <2>5
    <3>3. Len(u) = q /\ \A i \in 1..q : u[i] = Characters(p)[i]
      <4>1. ASSUME NEW i \in 1..q PROVE u[i] = Characters(p)[i]
        <5>1. i = q \/ i \in 1..c BY <3>2
        <5>2. CASE i = q BY <2>4, <3>1, <3>2, <5>2
        <5>3. CASE i \in 1..c BY <1>4, <2>4, <3>2, <5>3
        <5> QED BY <5>1, <5>2, <5>3
      <4>2. Len(u) = q BY <2>4, <3>2
      <4> QED BY <4>1, <4>2
    <3>4. OnScreen(p, n, k, u) BY <1>2, <2>4, <3>3 DEF OnScreen
    <3> QED BY <1>6, <2>1, <2>3, <3>4
  <2>6. CASE p = "c_hello" /\ k = n /\ b = SW(CONSOLE_ADDR, 0)
    <3>1. b.data = 0 BY <2>6, SWIs
    <3>2. B[n].data # 0 BY <1>1, <2>6 DEF BareIs
    <3>3. b # B[n] BY <3>1, <3>2
    <3>4. c >= q BY <1>4, <2>6, <3>3
    <3>5. \A i \in 1..(c + 1) : i <= q => u[i] = Characters(p)[i]
      <4>1. ASSUME NEW i \in 1..(c + 1), i <= q PROVE u[i] = Characters(p)[i]
        <5>1. i \in 1..c BY <3>4, <4>1
        <5> QED BY <1>4, <2>4, <4>1, <5>1
      <4> QED BY <4>1
    <3>6. c + 1 >= q /\ u[c + 1] = 0 BY <2>4, <3>1, <3>4
    <3>7. OnScreen(p, n, k, u) BY ONLY <1>2, <2>4, <2>6, <3>5, <3>6 DEF OnScreen
    <3> QED BY <1>6, <2>1, <2>3, <3>7
  <2> QED BY <2>1, <2>5, <2>6 DEF OnBus
<1> QED BY <1>5, <1>6

\* What is next on the bus: nothing, the next store, or what comes behind the last.
LEMMA NextOnBus ==
  ASSUME NEW p, NEW B, NEW n, BareIs(p, B, n), NEW k \in 0..n, NEW s, OnScreen(p, n, k, s)
  PROVE  /\ ScreenAt(p, B, n, k, Idle, s)
         /\ k < n => ScreenAt(p, B, n, k + 1, B[k + 1], s)
         /\ p = "c_hello" /\ k = n => ScreenAt(p, B, n, k, SW(CONSOLE_ADDR, 0), s)
<1>1. n \in Nat \ {0} /\ \A l \in 1..n : StoreIs(p, B[l], l) BY DEF BareIs
<1>2. PICK q \in Nat : q = Count(p, k) BY <1>1, CountIs
<1>3. PICK c \in Nat : c = Len(s) BY DEF OnScreen
<1>4. /\ s \in Seq(Int)
      /\ ~(p = "c_hello" /\ k = n) => c = q
      /\ p = "c_hello" /\ k = n => c >= q
      /\ \A i \in 1..c : i <= q => s[i] = Characters(p)[i]
      /\ c > q => s[c] = 0
  BY <1>2, <1>3 DEF OnScreen
<1>5. p = "c_hello" => B[n].addr = CONSOLE_ADDR /\ B[n].data # 0 BY <1>1 DEF BareIs
<1>6. ScreenAt(p, B, n, k, Idle, s)
  <2>1. Idle.addr # CONSOLE_ADDR BY AddressesAre
  <2>2. p = "c_hello" => Idle # B[n] BY <1>5, <2>1
  <2> QED BY <1>2, <1>3, <1>4, <2>1, <2>2 DEF ScreenAt
<1>7. p = "c_hello" /\ k = n => ScreenAt(p, B, n, k, SW(CONSOLE_ADDR, 0), s)
  <2>1. SUFFICES ASSUME p = "c_hello" /\ k = n PROVE ScreenAt(p, B, n, k, SW(CONSOLE_ADDR, 0), s) OBVIOUS
  <2>2. PICK b : b = SW(CONSOLE_ADDR, 0) OBVIOUS
  <2>3. b.data = 0 BY <2>2, SWIs
  <2>4. b # B[n] BY <1>5, <2>1, <2>3
  <2>5. ScreenAt(p, B, n, k, b, s) BY <1>2, <1>3, <1>4, <2>1, <2>4 DEF ScreenAt
  <2> QED BY <2>2, <2>5
<1>8. ASSUME k < n PROVE ScreenAt(p, B, n, k + 1, B[k + 1], s)
  <2>1. PICK l \in Nat : l = k + 1 OBVIOUS
  <2>2. l \in 1..n /\ k = l - 1 BY <1>1, <1>8, <2>1
  <2>3. PICK b : b = B[l] OBVIOUS
  <2>4. StoreIs(p, b, l) BY <1>1, <2>2, <2>3
  <2>5. Count(p, l) = IF b.addr = CONSOLE_ADDR THEN q + 1 ELSE q BY <1>2, <2>2, <2>4 DEF StoreIs
  <2>6. c = q BY <1>4, <1>8
  <2>7. p = "c_hello" /\ l = n => b = B[n] /\ b.addr = CONSOLE_ADDR BY <1>5, <2>3
  <2>8. ScreenAt(p, B, n, l, b, s) BY <1>3, <1>4, <2>5, <2>6, <2>7 DEF ScreenAt
  <2> QED BY <2>1, <2>3, <2>8
<1> QED BY <1>6, <1>7, <1>8

\* The programs that run without a host.
ProductKept(p, B, k, b, m) == p = "asm_example" /\ k > 0 /\ b # B[1] => m[4] = 720
Stopped(p, n, k) == finish_flag => time > TIME_LIMIT \/ (p = "asm_example" /\ k = n)
ScreenState(p, B, n) ==
  /\ pc \in 1..(n + 1) /\ clock \in {0, 1} /\ time \in Nat /\ DOMAIN kept = PORTS
  /\ OnBus(p, B, n, pc - 1, bus) /\ ScreenAt(p, B, n, pc - 1, bus, screen)
  /\ ProductKept(p, B, pc - 1, bus, kept) /\ Stopped(p, n, pc - 1)
ScreenInv == \A p \in DOMAIN Bare : prog = p => ScreenState(p, Bare[p], Len(Bare[p]))

LEMMA ScreenStart == ProgramsInit => ScreenInv
<1> SUFFICES ASSUME ProgramsInit, NEW p \in DOMAIN Bare, prog = p PROVE ScreenState(p, Bare[p], Len(Bare[p]))
  BY DEF ScreenInv
<1>1. PICK B : B = Bare[p] OBVIOUS
<1>2. PICK n : n = Len(B) OBVIOUS
<1>4. BareIs(p, B, n) BY <1>1, <1>2, BareProgram
<1>5. n \in Nat \ {0} BY <1>4 DEF BareIs
<1>6. /\ pc = 1 /\ clock = 0 /\ time = 0 /\ kept = [a \in PORTS |-> 0] /\ bus = Idle /\ screen = <<>> /\ finish_flag = FALSE
  BY DEF ProgramsInit, HarnessInit
<1>7. pc - 1 = 0 /\ pc \in 1..(n + 1) /\ 0 \in 0..n BY <1>5, <1>6
<1>8. OnScreen(p, n, 0, screen)
  <2>1. screen \in Seq(Int) /\ Len(screen) = 0 BY <1>6
  <2>2. Count(p, 0) = 0 BY CountIs
  <2> QED BY <1>5, <2>1, <2>2 DEF OnScreen
<1>9. ScreenAt(p, B, n, 0, bus, screen) BY <1>4, <1>6, <1>7, <1>8, NextOnBus
<1> QED BY <1>1, <1>2, <1>6, <1>7, <1>9 DEF ScreenState, OnBus, ProductKept, Stopped

\* A turn of the loop, with the store that the core puts on the bus.
LEMMA TurnIs ==
  ASSUME NEW p \in {"c_hello", "asm_example"}, NEW B, NEW n, BareIs(p, B, n), ScreenState(p, B, n), NEW out, LoopTurn(out),
         NEW l, pc' = l, l \in pc..(n + 1),
         ~CoreMoves => l = pc /\ out = Idle,
         \/ l = pc /\ out = Idle
         \/ l = pc + 1 /\ out = B[pc]
         \/ l = pc /\ p = "c_hello" /\ pc = n + 1 /\ out = SW(CONSOLE_ADDR, 0)
  PROVE  /\ pc' \in 1..(n + 1) /\ clock' \in {0, 1} /\ time' \in Nat /\ DOMAIN kept' = PORTS
         /\ OnBus(p, B, n, l - 1, bus') /\ ScreenAt(p, B, n, l - 1, bus', screen')
         /\ ProductKept(p, B, l - 1, bus', kept') /\ Stopped(p, n, l - 1)'
<1>1. n \in Nat \ {0} /\ \A j \in 1..n : StoreIs(p, B[j], j) BY DEF BareIs
<1>2. PICK k \in 0..n : k = pc - 1 /\ pc = k + 1 BY <1>1 DEF ScreenState
<1>3. PICK b : b = bus OBVIOUS
<1>4. PICK s : s = screen OBVIOUS
<1>5. /\ clock \in {0, 1} /\ time \in Nat /\ DOMAIN kept = PORTS /\ OnBus(p, B, n, k, b) /\ ScreenAt(p, B, n, k, b, s)
      /\ ProductKept(p, B, k, b, kept)
  BY <1>2, <1>3, <1>4 DEF ScreenState
<1>6. PICK j \in 0..n : j = l - 1 /\ l = j + 1 BY <1>1, <1>2
<1>7. \/ j = k /\ out = Idle
      \/ j = k + 1 /\ out = B[k + 1] /\ k < n
      \/ j = k /\ p = "c_hello" /\ k = n /\ out = SW(CONSOLE_ADDR, 0)
  BY <1>1, <1>2, <1>6
<1>8. PICK acts : acts = (time + 1 >= RESET_TIME /\ b # Idle) OBVIOUS
<1>9. /\ time' = time + 1 /\ clock' = 1 - clock
      /\ screen' = IF acts /\ b.addr = CONSOLE_ADDR /\ clock' = 1 THEN Append(s, b.data) ELSE s
      /\ kept' = IF acts /\ b.addr # HALT_ADDR /\ ~(b.addr = CONSOLE_ADDR /\ clock' = 1)
                 THEN [kept EXCEPT ![b.addr] = b.data] ELSE kept
      /\ finish_flag' = ((acts /\ b.addr = HALT_ADDR /\ b.data # 0) \/ time' > TIME_LIMIT)
      /\ bus' = IF CoreMoves THEN out ELSE b
  BY <1>3, <1>4, <1>8 DEF LoopTurn, Prints
<1>10. clock' \in {0, 1} /\ time' \in Nat /\ (CoreMoves => clock' = 1) BY <1>5, <1>9 DEF CoreMoves
<1>11. DOMAIN kept' = PORTS BY <1>5, <1>9
<1>12. OnBus(p, B, n, j, bus') /\ ScreenAt(p, B, n, j, bus', screen')
  <2>1. CASE CoreMoves
    <3>1. acts = (b # Idle) BY <1>8, <2>1 DEF CoreMoves
    <3>2. PICK t : t = IF b # Idle /\ b.addr = CONSOLE_ADDR THEN Append(s, b.data) ELSE s OBVIOUS
    <3>3. screen' = t /\ bus' = out BY <1>9, <1>10, <2>1, <3>1, <3>2
    <3>4. OnScreen(p, n, k, t)
      <4>1. BareIs(p, B, n) OBVIOUS
      <4>2. k \in 0..n OBVIOUS
      <4> QED BY ONLY <1>5, <3>2, <4>1, <4>2, PrintsOnce
    <3>5. /\ ScreenAt(p, B, n, k, Idle, t)
          /\ k < n => ScreenAt(p, B, n, k + 1, B[k + 1], t)
          /\ p = "c_hello" /\ k = n => ScreenAt(p, B, n, k, SW(CONSOLE_ADDR, 0), t)
      <4>1. BareIs(p, B, n) OBVIOUS
      <4>2. k \in 0..n OBVIOUS
      <4> QED BY ONLY <3>4, <4>1, <4>2, NextOnBus
    <3>6. ScreenAt(p, B, n, j, out, t) BY ONLY <1>7, <3>5
    <3>7. OnBus(p, B, n, j, out) BY <1>7 DEF OnBus
    <3> QED BY <3>3, <3>6, <3>7
  <2>2. CASE ~CoreMoves
    <3>1. j = k /\ bus' = b BY <1>2, <1>6, <1>9, <2>2
    <3>2. ~(acts /\ clock' = 1)
      <4>1. CASE clock = 0 BY <1>8, <2>2, <4>1 DEF CoreMoves
      <4>2. CASE clock = 1 BY <1>9, <4>2
      <4> QED BY <1>5, <4>1, <4>2
    <3>3. screen' = s BY <1>9, <3>2
    <3> QED BY <1>5, <3>1, <3>3
  <2> QED BY <2>1, <2>2
<1>13. ProductKept(p, B, j, bus', kept')
  <2> SUFFICES ASSUME p = "asm_example", j > 0, bus' # B[1] PROVE kept'[4] = 720 BY DEF ProductKept
  <2>1. /\ B[1].addr = 4 /\ B[1].data = 720 /\ \A i \in 1..n : i # 1 => B[i].addr # 4 BY <1>1 DEF BareIs
  <2>2. 4 \in PORTS /\ 4 # CONSOLE_ADDR /\ 4 # HALT_ADDR /\ Idle.addr # 4 BY AddressesAre
  <2>3. p # "c_hello" OBVIOUS
  <2>4. k > 0
    <3>1. SUFFICES ASSUME k = 0 PROVE FALSE OBVIOUS
    <3>2. j = k + 1 /\ out = B[k + 1] BY <1>7, <2>3, <3>1
    <3>3. out = B[1] BY <3>1, <3>2
    <3>4. CoreMoves BY <1>2, <1>6, <3>2
    <3> QED BY <1>9, <3>3, <3>4
  <2>5. CASE b = B[1]
    <3>1. CoreMoves BY <1>9, <2>5
    <3>2. acts
      <4>1. b # Idle BY <2>1, <2>2, <2>5
      <4> QED BY <1>8, <3>1, <4>1 DEF CoreMoves
    <3>3. b.addr = 4 /\ b.data = 720 /\ b.addr # HALT_ADDR /\ b.addr # CONSOLE_ADDR BY <2>1, <2>2, <2>5
    <3>4. kept' = [kept EXCEPT ![b.addr] = b.data] BY ONLY <1>9, <3>2, <3>3
    <3>5. kept' = [kept EXCEPT ![4] = 720] BY ONLY <3>3, <3>4
    <3> QED BY ONLY <1>5, <2>2, <3>5
  <2>6. CASE b # B[1]
    <3>1. kept[4] = 720 BY <1>5, <2>4, <2>6 DEF ProductKept
    <3>2. acts => b.addr # 4
      <4>1. b = Idle \/ (k \in 1..n /\ b = B[k]) BY <1>5, <2>3, <2>4 DEF OnBus
      <4>2. CASE b = Idle BY <1>8, <4>2
      <4>3. CASE k \in 1..n /\ b = B[k]
        <5>1. k # 1 BY <2>6, <4>3
        <5> QED BY <2>1, <4>3, <5>1
      <4> QED BY <4>1, <4>2, <4>3
    <3> QED BY <1>5, <1>9, <2>2, <3>1, <3>2
  <2> QED BY <2>5, <2>6
<1>14. Stopped(p, n, j)'
  <2> SUFFICES ASSUME finish_flag', ~(time' > TIME_LIMIT) PROVE p = "asm_example" /\ j = n BY DEF Stopped
  <2>1. b # Idle /\ b.addr = HALT_ADDR BY <1>8, <1>9
  <2>2. HALT_ADDR # CONSOLE_ADDR BY AddressesAre
  <2>3. SW(CONSOLE_ADDR, 0).addr = CONSOLE_ADDR BY SWIs
  <2>4. k \in 1..n /\ b = B[k] BY <1>5, <2>1, <2>2, <2>3 DEF OnBus
  <2>5. p # "c_hello" BY <2>1, <2>2, <2>4 DEF BareIs
  <2>6. p = "asm_example" BY <2>5
  <2>7. k = n BY <2>1, <2>4, <2>6 DEF BareIs
  <2> QED BY <1>7, <2>6, <2>7
<1> QED BY <1>2, <1>6, <1>10, <1>11, <1>12, <1>13, <1>14

LEMMA ScreenNext == ScreenInv /\ [ProgramsNext]_programsVars => ScreenInv'
<1> SUFFICES ASSUME ScreenInv, [ProgramsNext]_programsVars, NEW p \in DOMAIN Bare, prog' = p
             PROVE  ScreenState(p, Bare[p], Len(Bare[p]))'
  BY DEF ScreenInv
<1>1. prog = p BY SameProgram
<1>2. PICK B : B = Bare[p] OBVIOUS
<1>3. PICK n : n = Len(B) OBVIOUS
<1>4. BareIs(p, B, n) /\ p \in {"c_hello", "asm_example"} BY <1>2, <1>3, BareProgram
<1>5. ScreenState(p, B, n) BY <1>1, <1>2, <1>3 DEF ScreenInv
<1>6. SUFFICES ScreenState(p, B, n)' BY <1>2, <1>3
<1>7. CASE UNCHANGED programsVars
  <2>1. UNCHANGED <<pc, clock, time, bus, screen, kept, finish_flag>> BY <1>7 DEF programsVars, harnessVars
  <2> QED BY <1>5, <2>1 DEF ScreenState, OnBus, ScreenAt, ProductKept, Stopped
<1>8. \A op : ~Now(op)
  <2>1. Main = <<>> BY <1>1, MainIs
  <2>2. Len(Main) = 0 BY <2>1
  <2> QED BY <2>2 DEF Now
<1>9. ~AnyCall BY <1>1, NamesAssumption DEF AnyCall
<1>10. ~(\/ tohost_printstr \/ tohost_open \/ tohost_read \/ tohost_write \/ tohost_close
         \/ Number \/ Terminate \/ Widen \/ Convolve \/ CombineFeatures \/ Insertion \/ Fill \/ tohost_exit \/ Leave)
  BY <1>8 DEF tohost_printstr, tohost_open, tohost_read, tohost_write, tohost_close, Number, Terminate, Widen,
              Convolve, CombineFeatures, Insertion, Fill, tohost_exit, Leave
<1>11. CASE BareTurn
  <2>1. n \in Nat /\ pc \in 1..(n + 1) BY <1>4, <1>5 DEF BareIs, ScreenState
  <2>2. p = "c_hello" => Len(c_hello) = n
    <3>1. p = "c_hello" => B = c_hello BY <1>2 DEF Bare
    <3> QED BY <1>3, <3>1
  <2>3. PICK out, l :
          /\ LoopTurn(out) /\ pc' = l /\ l \in pc..(n + 1)
          /\ ~CoreMoves => l = pc /\ out = Idle
          /\ \/ l = pc /\ out = Idle
             \/ l = pc + 1 /\ out = B[pc]
             \/ l = pc /\ p = "c_hello" /\ pc = n + 1 /\ out = SW(CONSOLE_ADDR, 0)
    <3>1. CASE LoopTurn(Idle) /\ UNCHANGED pc BY <2>1, <3>1
    <3>2. CASE CoreMoves /\ pc <= n /\ LoopTurn(B[pc]) /\ pc' = pc + 1
      <4>1. pc + 1 \in pc..(n + 1) BY <2>1, <3>2
      <4> QED BY <3>2, <4>1
    <3>3. CASE CoreMoves /\ p = "c_hello" /\ pc > n /\ LoopTurn(SW(CONSOLE_ADDR, 0)) /\ UNCHANGED pc
      <4>1. pc = n + 1 BY <2>1, <3>3
      <4> QED BY <2>1, <3>3, <4>1
    <3> QED BY <1>1, <1>2, <1>3, <1>11, <2>2, <3>1, <3>2, <3>3 DEF BareTurn
  <2>4. /\ pc' \in 1..(n + 1) /\ clock' \in {0, 1} /\ time' \in Nat /\ DOMAIN kept' = PORTS
        /\ OnBus(p, B, n, l - 1, bus') /\ ScreenAt(p, B, n, l - 1, bus', screen')
        /\ ProductKept(p, B, l - 1, bus', kept') /\ Stopped(p, n, l - 1)'
    BY ONLY <1>4, <1>5, <2>3, TurnIs
  <2> QED BY <2>3, <2>4 DEF ScreenState, OnBus, ScreenAt, ProductKept, Stopped
<1> QED BY <1>7, <1>9, <1>10, <1>11 DEF ProgramsNext

LEMMA ScreenDone == ScreenInv /\ prog \in DOMAIN Bare => ScreenExact
<1> SUFFICES ASSUME ScreenInv, NEW p \in DOMAIN Bare, prog = p PROVE ScreenExact OBVIOUS
<1>1. PICK B : B = Bare[p] OBVIOUS
<1>2. PICK n : n = Len(B) OBVIOUS
<1>3. BareIs(p, B, n) /\ p \in {"c_hello", "asm_example"} BY <1>1, <1>2, BareProgram
<1>4. ScreenState(p, B, n) BY <1>1, <1>2 DEF ScreenInv
<1>5. n \in Nat \ {0} BY <1>3 DEF BareIs
<1>6. PICK k \in 0..n : k = pc - 1 /\ pc = k + 1 BY <1>4, <1>5 DEF ScreenState
<1>7. /\ OnBus(p, B, n, k, bus) /\ ScreenAt(p, B, n, k, bus, screen) /\ ProductKept(p, B, k, bus, kept)
      /\ Stopped(p, n, k)
  BY <1>4, <1>6 DEF ScreenState
<1>8. PICK a : a = CHOOSE r : Asks(r, Bare[prog], Len(Bare[prog])) OBVIOUS
<1>9. Asks(a, B, n) BY <1>1, <1>2, <1>3, <1>8, AsksExist
<1>10. AsksFor(p, a[k], k) BY <1>3, <1>6, <1>9, AsksAre
<1>11. PICK asked \in Seq(StoreRecords) : asked = a[k] BY <1>10 DEF AsksFor
<1>12. PICK q \in Nat : q = Count(p, k) BY <1>6, CountIs
<1>13. Len(asked) = q /\ \A i \in 1..q : asked[i].data = Characters(p)[i] BY <1>10, <1>11, <1>12 DEF AsksFor
<1>14. PICK c \in Nat : c = Len(screen) BY <1>7 DEF ScreenAt
<1>15. DOMAIN screen = 1..c BY <1>7, <1>14 DEF ScreenAt
<1>16. /\ ~(p = "c_hello" /\ k = n) => c = q - (IF bus.addr = CONSOLE_ADDR THEN 1 ELSE 0)
       /\ p = "c_hello" /\ k = n => IF bus = B[n] THEN c = q - 1 ELSE c >= q
       /\ \A i \in 1..c : i <= q => screen[i] = Characters(p)[i]
       /\ c > q => screen[c] = 0
  BY <1>7, <1>12, <1>14 DEF ScreenAt
<1>17. c >= q - (IF bus.addr = CONSOLE_ADDR THEN 1 ELSE 0)
  <2>1. p = "c_hello" => B[n].addr = CONSOLE_ADDR BY <1>3, <1>5 DEF BareIs
  <2> QED BY <1>16, <2>1
<1>18. \A i \in DOMAIN screen : i <= q => screen[i] = asked[i].data
  <2>1. ASSUME NEW i \in 1..c, i <= q PROVE screen[i] = asked[i].data
    <3>1. i \in 1..q BY <2>1
    <3> QED BY <1>13, <1>16, <2>1, <3>1
  <2> QED BY <1>15, <2>1
<1>19. c > q => k = n /\ p = "c_hello" /\ screen[c] = 0 BY <1>16
<1>20. finish_flag /\ time <= TIME_LIMIT => k = n /\ c = q /\ kept[4] = 720
  <2> SUFFICES ASSUME finish_flag, time <= TIME_LIMIT PROVE k = n /\ c = q /\ kept[4] = 720 OBVIOUS
  <2>1. time \in Nat BY <1>4 DEF ScreenState
  <2>2. p = "asm_example" /\ k = n BY <1>7, <2>1, HarnessAssumption DEF Stopped
  <2>3. p # "c_hello" BY <2>2
  <2>4. n = 5 /\ B[5].addr = HALT_ADDR /\ B[5] # B[1] /\ B[1].addr = 4
    <3>1. n = 5 /\ B[5].addr = HALT_ADDR /\ B[1].addr = 4 /\ \A i \in 1..n : i # 1 => B[i] # B[1]
      BY <1>3, <2>2 DEF BareIs
    <3>2. 5 \in 1..n /\ 5 # 1 BY <3>1
    <3> QED BY <3>1, <3>2
  <2>5. bus = Idle \/ bus = B[5] BY <1>7, <2>2, <2>3, <2>4 DEF OnBus
  <2>6. bus.addr # CONSOLE_ADDR /\ bus # B[1] BY <2>4, <2>5, AddressesAre
  <2>7. c = q BY <1>16, <2>3, <2>6
  <2>8. kept[4] = 720 BY <1>7, <2>2, <2>4, <2>6 DEF ProductKept
  <2> QED BY <2>2, <2>7, <2>8
<1>21. k = n => pc > n BY <1>5, <1>6
<1>22. 120 * 6 = 720 OBVIOUS
<1>23. pc - 1 = k BY <1>6
<1>24. /\ Len(screen) >= Len(asked) - (IF bus.addr = CONSOLE_ADDR THEN 1 ELSE 0)
       /\ \A i \in DOMAIN screen : i <= Len(asked) => screen[i] = asked[i].data
       /\ Len(screen) > Len(asked) => pc > Len(Bare[prog]) /\ prog = "c_hello" /\ screen[Len(screen)] = 0
       /\ finish_flag /\ time <= TIME_LIMIT =>
            pc > Len(Bare[prog]) /\ Len(screen) = Len(asked) /\ kept[4] = 120 * 6
  BY <1>1, <1>2, <1>13, <1>14, <1>17, <1>18, <1>19, <1>20, <1>21, <1>22
<1>25. asked = a[pc - 1] BY <1>11, <1>23
<1> QED BY ONLY <1>8, <1>24, <1>25 DEF ScreenExact, Asks

LEMMA ResultsDone == SobelInv /\ SendInv /\ SortInv /\ QuietInv /\ ScreenInv => ResultsExact
<1> SUFFICES ASSUME SobelInv, SendInv, SortInv, QuietInv, ScreenInv PROVE ResultsExact OBVIOUS
<1>1. ASSUME Ended, ~failed PROVE DOMAIN holds = {0, 1, 2} BY <1>1, ClosedInTheEnd
<1>2. ASSUME Ended, prog = "moreThanExit", ~failed PROVE MessageBack BY <1>2, SendDone DEF Sends
<1>3. ASSUME Ended, prog = "insertionSort" PROVE Sorted BY <1>3, SortDone DEF Sorts
<1>4. ASSUME prog \in DOMAIN Bare PROVE ScreenExact BY <1>4, ScreenDone
<1> QED BY <1>1, <1>2, <1>3, <1>4 DEF ResultsExact

\* moreThanExit.c:12-13, insertionSort.c:11, sim_main.cc:78: the message comes
\* back, any array is sorted, all files are closed in the end, and the console
\* shows what was stored to it, each once and in turn, whatever the timing.
THEOREM ResultsAre == ProgramsSpec => []ResultsExact
<1> DEFINE Inv == FdsInv /\ SobelInv /\ SendInv /\ SortInv /\ QuietInv /\ ScreenInv
<1>1. ProgramsInit => Inv
  <2>1. ProgramsInit => FdsInv BY FdsInit DEF ProgramsInit
  <2> QED BY <2>1, SobelStart, SendStart, SortStart, QuietStart, ScreenStart
<1>2. Inv /\ [ProgramsNext]_programsVars => Inv'
  BY FdsProgram, SobelNext, SendNext, SortNext, QuietNext, ScreenNext
<1>3. Inv => ResultsExact BY ResultsDone
<1> QED BY <1>1, <1>2, <1>3, PTL DEF ProgramsSpec

\* ascii.c, ExecLib.c:104: what the library writes of a number is the number,
\* and hexadecimal and decimal digits are read as what they say.
THEOREM LibraryAlwaysExact == ProgramsSpec => []LibraryExact
BY LibraryIs, PTL

-----------------------------------------------------------------------------
(* HostCall.  For every program, window and answer, the exchange through     *)
(* tohost and fromhost is the sequence of calls RemoteCalls promises.        *)

N == Len(PROGRAM)
STEPS == {"num", "arg", "ring", "poll", "ack", "result", "exit"}
WORDS == {"tohost", "fromhost", "num", "arg"}
Place == {p \in [call : 1..(N + 1), step : STEPS] : p.step = "exit" <=> p.call = N + 1}
Entry == {e \in [call : 1..(N + 1), step : STEPS, found : BOOLEAN, issued : BOOLEAN, val : Int] :
            e.step = "exit" <=> e.call = N + 1}

TypeOK ==
  /\ fetch \in Place /\ window \in Seq(Entry) /\ words \in [WORDS -> Int]
  /\ stopped \in BOOLEAN /\ served \in Seq([num : Int, arg : Int]) /\ results \in Seq(Int)

\* The places of the accesses in flight and, behind them, that of the fetch:
\* the first is where the program has got to.
At(k) == IF k \in DOMAIN window THEN window[k] ELSE fetch
Places == 1..(Len(window) + 1)

\* The places in the order of the program.
Rank(p) == 6 * p.call + (CASE p.step = "num" -> 0 [] p.step = "arg" -> 1 [] p.step = "ring" -> 2
                           [] p.step = "poll" -> 3 [] p.step = "ack" -> 4 [] p.step = "result" -> 5
                           [] p.step = "exit" -> 0)

\* Each place follows from the one before and its prediction ...
Path == \A k \in DOMAIN window :
  LET e == window[k] p == After(e.call, e.step, e.found) IN
  /\ At(k + 1).call = p.call /\ At(k + 1).step = p.step
  /\ e.step # "poll" => e.found

\* ... so that they never go back, and skip nothing.
Monotone == \A i, j \in Places : i <= j => Rank(At(i)) <= Rank(At(j))
NoGaps == \A k \in Places : \A r \in Rank(At(1))..Rank(At(k)) : \E j \in 1..k : Rank(At(j)) = r

\* Only loads have overtaken, and only loads.
Ordered == \A j, k \in DOMAIN window :
  j < k /\ window[k].issued /\ ~window[j].issued => IsLoad(window[j]) /\ IsLoad(window[k])

StoreVals == \A k \in DOMAIN window :
  window[k].issued /\ ~IsLoad(window[k]) => window[k].val = Data(window[k].call, window[k].step)

\* A poll in flight has found an answer only if the program waits at it.
Polls == \A k \in DOMAIN window :
  window[k].step = "poll" /\ window[k].issued /\ window[k].val # 0 =>
    window[k].call = At(1).call /\ At(1).step = "poll" /\ words["fromhost"] # 0

\* An answer that was loaded behind such a poll, or when it has retired, is that of
\* its call.
Known(k) ==
  \/ window[k].call = At(1).call /\ At(1).step \in {"ack", "result"}
  \/ \E i \in 1..(k - 1) : /\ window[i].step = "poll" /\ window[i].call = window[k].call
                           /\ window[i].issued /\ window[i].val # 0
AnswerTo(c) == Answer(PROGRAM[c].num, PROGRAM[c].arg)
Results == \A k \in DOMAIN window :
  window[k].step = "result" /\ window[k].issued /\ Known(k) => window[k].val = AnswerTo(window[k].call)

\* What memory and the host hold where the program has got to.
Quiet == words["tohost"] = 0 /\ words["fromhost"] = 0
Waiting(c) ==
  /\ words["tohost"] = TOHOST_CMD /\ words["fromhost"] = 0 /\ Len(served) = c - 1
  /\ words["num"] = PROGRAM[c].num /\ words["arg"] = PROGRAM[c].arg
Answered(c) == words["tohost"] = 0 /\ Len(served) = c /\ words["num"] = AnswerTo(c)
Stage ==
  LET c == At(1).call s == At(1).step IN
  /\ Len(results) = c - 1 /\ fromhost_queue = <<>>
  /\ s \in {"num", "arg", "ring"} => Quiet /\ Len(served) = c - 1
  /\ s \in {"arg", "ring"} => words["num"] = PROGRAM[c].num
  /\ s = "ring" => words["arg"] = PROGRAM[c].arg
  /\ s = "poll" => Waiting(c) \/ (Answered(c) /\ words["fromhost"] # 0)
  /\ s = "ack" => Answered(c)
  /\ s = "result" => Answered(c) /\ words["fromhost"] = 0
  /\ s = "exit" => /\ words["fromhost"] = 0 /\ words["tohost"] \in {0, 2 * EXIT_CODE + 1}
                   /\ Len(served) = c - 1

IInv == TypeOK /\ Path /\ Monotone /\ NoGaps /\ Ordered /\ StoreVals /\ Polls /\ Results /\ Stage
-----------------------------------------------------------------------------
(* Facts about places.                                                       *)

USE DEF STEPS, WORDS

LEMMA LenNat == N \in Nat
BY HostCallAssumption DEF N

LEMMA RankOf ==
  ASSUME NEW p, p.call \in Int
  PROVE  /\ p.step \in STEPS => Rank(p) \in Int
         /\ p.step \in {"num", "exit"} => Rank(p) = 6 * p.call
         /\ p.step = "arg" => Rank(p) = 6 * p.call + 1
         /\ p.step = "ring" => Rank(p) = 6 * p.call + 2
         /\ p.step = "poll" => Rank(p) = 6 * p.call + 3
         /\ p.step = "ack" => Rank(p) = 6 * p.call + 4
         /\ p.step = "result" => Rank(p) = 6 * p.call + 5
BY DEF Rank

LEMMA EnterFacts ==
  ASSUME NEW c \in 1..(N + 1)
  PROVE  Enter(c) \in Place /\ Enter(c).call = c /\ Rank(Enter(c)) = 6 * c
<1>1. N \in Nat BY LenNat
<1>2. c > Len(PROGRAM) <=> c = N + 1 BY <1>1 DEF N
<1>3. Enter(c) = [call |-> c, step |-> IF c = N + 1 THEN "exit" ELSE "num"] BY <1>2 DEF Enter
<1> QED BY <1>1, <1>3, RankOf DEF Place

\* One step of the program is one rank, but for polling and for the end.
LEMMA AfterFacts ==
  ASSUME NEW p, p.call \in 1..(N + 1), p.step \in STEPS, p.step = "exit" <=> p.call = N + 1,
         NEW f \in BOOLEAN, NEW q, q = After(p.call, p.step, f)
  PROVE  /\ q \in Place
         /\ Rank(q) = IF p.step = "exit" \/ (p.step = "poll" /\ ~f) THEN Rank(p) ELSE Rank(p) + 1
<1>0. N \in Nat BY LenNat
<1>1. CASE p.step = "result"
  <2>1. q = Enter(p.call + 1) BY <1>1 DEF After
  <2>2. p.call + 1 \in 1..(N + 1) BY <1>0, <1>1
  <2>3. q \in Place /\ Rank(q) = 6 * (p.call + 1) BY <2>1, <2>2, EnterFacts
  <2> QED BY <1>0, <1>1, <2>3, RankOf
<1>2. CASE p.step = "exit"
  <2>1. q = [call |-> p.call, step |-> "exit"] BY <1>2 DEF After
  <2>2. q.call = p.call /\ q.step = "exit" /\ q \in Place BY <1>2, <2>1 DEF Place
  <2> QED BY <1>0, <1>2, <2>2, RankOf
<1>3. CASE p.step = "num"
  <2>1. q = [call |-> p.call, step |-> "arg"] BY <1>3 DEF After
  <2>2. q.call = p.call /\ q.step = "arg" /\ q \in Place BY <1>3, <2>1 DEF Place
  <2> QED BY <1>0, <1>3, <2>2, RankOf
<1>4. CASE p.step = "arg"
  <2>1. q = [call |-> p.call, step |-> "ring"] BY <1>4 DEF After
  <2>2. q.call = p.call /\ q.step = "ring" /\ q \in Place BY <1>4, <2>1 DEF Place
  <2> QED BY <1>0, <1>4, <2>2, RankOf
<1>5. CASE p.step = "ring"
  <2>1. q = [call |-> p.call, step |-> "poll"] BY <1>5 DEF After
  <2>2. q.call = p.call /\ q.step = "poll" /\ q \in Place BY <1>5, <2>1 DEF Place
  <2> QED BY <1>0, <1>5, <2>2, RankOf
<1>8. CASE p.step = "ack"
  <2>1. q = [call |-> p.call, step |-> "result"] BY <1>8 DEF After
  <2>2. q.call = p.call /\ q.step = "result" /\ q \in Place BY <1>8, <2>1 DEF Place
  <2> QED BY <1>0, <1>8, <2>2, RankOf
<1>6. CASE p.step = "poll"
  <2>1. q = [call |-> p.call, step |-> IF f THEN "ack" ELSE "poll"] BY <1>6 DEF After
  <2>2. q.call = p.call /\ q.step = (IF f THEN "ack" ELSE "poll") /\ q \in Place BY <1>6, <2>1 DEF Place
  <2> QED BY <1>0, <1>6, <2>2, RankOf
<1> QED BY <1>1, <1>2, <1>3, <1>4, <1>5, <1>6, <1>8

LEMMA PlaceFacts ==
  ASSUME TypeOK, NEW k \in Places
  PROVE  /\ At(k).call \in 1..(N + 1) /\ At(k).step \in STEPS
         /\ At(k).step = "exit" <=> At(k).call = N + 1
         /\ Rank(At(k)) \in Int
<1>1. CASE k \in DOMAIN window
  <2>1. window[k] \in Entry BY <1>1 DEF TypeOK
  <2>2. At(k) = window[k] BY <1>1 DEF At
  <2>3. /\ window[k].call \in 1..(N + 1) /\ window[k].step \in STEPS
        /\ window[k].step = "exit" <=> window[k].call = N + 1
    BY ONLY <2>1 DEF Entry
  <2>4. window[k].call \in Int BY ONLY <2>3, LenNat
  <2>5. Rank(window[k]) \in Int BY ONLY <2>3, <2>4, RankOf
  <2> QED BY ONLY <2>2, <2>3, <2>5
<1>2. CASE k \notin DOMAIN window
  <2>1. fetch \in Place /\ At(k) = fetch BY <1>2 DEF TypeOK, At
  <2>2. /\ fetch.call \in 1..(N + 1) /\ fetch.step \in STEPS
        /\ fetch.step = "exit" <=> fetch.call = N + 1
    BY ONLY <2>1 DEF Place
  <2>3. fetch.call \in Int BY ONLY <2>2, LenNat
  <2>4. Rank(fetch) \in Int BY ONLY <2>2, <2>3, RankOf
  <2> QED BY ONLY <2>1, <2>2, <2>4
<1> QED BY <1>1, <1>2

LEMMA EntryFacts ==
  ASSUME TypeOK, NEW k \in DOMAIN window
  PROVE  /\ k \in Places /\ k + 1 \in Places /\ k \in 1..Len(window) /\ At(k) = window[k]
         /\ window[k] \in Entry
         /\ window[k].call \in 1..(N + 1) /\ window[k].step \in STEPS
         /\ window[k].step = "exit" <=> window[k].call = N + 1
         /\ window[k].found \in BOOLEAN /\ window[k].issued \in BOOLEAN /\ window[k].val \in Int
<1>1. window \in Seq(Entry) BY DEF TypeOK
<1>2. Len(window) \in Nat /\ k \in 1..Len(window) /\ window[k] \in Entry BY ONLY <1>1, k \in DOMAIN window
<1>3. /\ window[k].call \in 1..(N + 1) /\ window[k].step \in STEPS
      /\ window[k].step = "exit" <=> window[k].call = N + 1
      /\ window[k].found \in BOOLEAN /\ window[k].issued \in BOOLEAN /\ window[k].val \in Int
  BY ONLY <1>2 DEF Entry
<1>4. k \in Places /\ k + 1 \in Places BY ONLY <1>2 DEF Places
<1> QED BY <1>2, <1>3, <1>4 DEF At

LEMMA Initially == Init => IInv
<1> SUFFICES ASSUME Init PROVE IInv OBVIOUS
<1>1. Enter(1) \in Place /\ Enter(1).call = 1 /\ Enter(1).step \in {"num", "exit"}
  <2>1. 1 \in 1..(N + 1) BY LenNat
  <2> QED BY <2>1, EnterFacts DEF Enter
<1>2. TypeOK
  <2>1. words \in [WORDS -> Int] BY DEF Init
  <2>2. window \in Seq(Entry) /\ served \in Seq([num : Int, arg : Int]) /\ results \in Seq(Int)
    BY DEF Init
  <2> QED BY <1>1, <2>1, <2>2 DEF Init, TypeOK
<1>3. At(1) = fetch /\ fetch = Enter(1) /\ Places = {1} /\ DOMAIN window = {}
  BY DEF Init, At, Places
<1>4. Path /\ Ordered /\ StoreVals /\ Polls /\ Results
  BY <1>3 DEF Path, Ordered, StoreVals, Polls, Results
<1>5. Rank(At(1)) \in Int BY <1>2, <1>3, PlaceFacts
<1>6. Monotone BY <1>3, <1>5 DEF Monotone
<1>7. NoGaps
  <2> SUFFICES ASSUME NEW k \in Places, NEW r \in Rank(At(1))..Rank(At(k))
               PROVE \E j \in 1..k : Rank(At(j)) = r
    BY DEF NoGaps
  <2> QED BY <1>3, <1>5
<1>8. Stage BY <1>1, <1>3 DEF Init, Stage, Quiet
<1> QED BY <1>2, <1>4, <1>6, <1>7, <1>8 DEF IInv

-----------------------------------------------------------------------------
(* The core fetches.                                                         *)

LEMMA SameRank ==
  ASSUME NEW p, NEW q, p.call = q.call, p.step = q.step
  PROVE  Rank(p) = Rank(q)
BY DEF Rank

LEMMA FetchStep ==
  ASSUME IInv, Fetch
  PROVE  IInv'
<1> USE DEF IInv
<1>0. PICK n : n = Len(window) OBVIOUS
<1>1. PICK f \in BOOLEAN :
        /\ fetch.step # "poll" => f
        /\ window' = Append(window, [call |-> fetch.call, step |-> fetch.step,
                                     found |-> f, issued |-> FALSE, val |-> 0])
        /\ fetch' = After(fetch.call, fetch.step, f)
        /\ UNCHANGED <<words, host, served, results>>
  BY DEF Fetch
<1> DEFINE e == [call |-> fetch.call, step |-> fetch.step, found |-> f, issued |-> FALSE, val |-> 0]
<1>2. n \in Nat /\ DOMAIN window = 1..n /\ window \in Seq(Entry) BY <1>0 DEF TypeOK
<1>3. fetch \in Place /\ fetch.call \in 1..(N + 1) /\ fetch.step \in STEPS
      /\ (fetch.step = "exit" <=> fetch.call = N + 1)
  BY DEF TypeOK, Place
<1>4. e \in Entry BY <1>3 DEF Entry
<1>5. /\ window' \in Seq(Entry) /\ Len(window') = n + 1 /\ DOMAIN window' = 1..(n + 1)
      /\ \A k \in 1..n : window'[k] = window[k]
      /\ window'[n + 1] = e
  BY <1>0, <1>1, <1>2, <1>4
<1>6. /\ fetch' \in Place
      /\ Rank(fetch') = IF fetch.step = "exit" \/ (fetch.step = "poll" /\ ~f) THEN Rank(fetch) ELSE Rank(fetch) + 1
  BY <1>1, <1>3, AfterFacts
<1>7. TypeOK' BY <1>1, <1>5, <1>6 DEF TypeOK, host
<1>8. Places = 1..(n + 1) /\ Places' = 1..(n + 2) BY <1>0, <1>2, <1>5 DEF Places
<1>9. \A k \in 1..n : At(k)' = At(k) /\ At(k) = window[k]
  BY <1>2, <1>5 DEF At
<1>10. At(n + 1) = fetch /\ At(n + 1)' = e /\ At(n + 2)' = fetch'
  BY <1>2, <1>5 DEF At
<1>11. \A k \in Places : At(k)'.call = At(k).call /\ At(k)'.step = At(k).step
  BY <1>2, <1>8, <1>9, <1>10
<1>12. \A k \in Places : Rank(At(k))' = Rank(At(k))
  BY <1>11, SameRank
<1>13. Rank(At(n + 1)) = Rank(fetch) /\ Rank(At(n + 2))' = Rank(fetch') BY <1>10
<1> HIDE DEF e
<1>14. Rank(fetch) \in Int BY <1>3, RankOf
<1>15. Path'
  <2> SUFFICES ASSUME NEW k \in 1..(n + 1)
               PROVE LET d == window'[k] p == After(d.call, d.step, d.found) IN
                     /\ At(k + 1)'.call = p.call /\ At(k + 1)'.step = p.step
                     /\ d.step # "poll" => d.found
    BY <1>5 DEF Path
  <2>1. CASE k \in 1..n
    <3>1. k + 1 \in Places /\ k \in DOMAIN window BY <1>2, <1>8, <2>1
    <3> QED BY <1>5, <1>11, <2>1, <3>1 DEF Path
  <2>2. CASE k = n + 1
    <3>1. k + 1 = n + 2 BY <1>2, <2>2
    <3>2. At(k + 1)' = fetch' BY <1>10, <3>1
    <3> QED BY <1>1, <1>5, <2>2, <3>2 DEF e
  <2> QED BY <1>2, <2>1, <2>2
<1>16. Monotone'
  <2> SUFFICES ASSUME NEW i \in 1..(n + 2), NEW j \in 1..(n + 2), i <= j
               PROVE Rank(At(i))' <= Rank(At(j))'
    BY <1>8 DEF Monotone
  <2>1. CASE j \in Places
    <3>1. i \in Places BY <1>2, <1>8, <2>1
    <3> QED BY <1>12, <2>1, <3>1 DEF Monotone
  <2>2. CASE j = n + 2 /\ i \in Places
    <3>1. n + 1 \in Places /\ i <= n + 1 BY <1>2, <1>8, <2>2
    <3>2. Rank(At(i))' <= Rank(fetch) BY <1>12, <1>13, <2>2, <3>1 DEF Monotone
    <3>3. Rank(At(i))' \in Int BY <1>12, <2>2, PlaceFacts
    <3> QED BY <1>6, <1>13, <1>14, <2>2, <3>2, <3>3
  <2>3. CASE j = n + 2 /\ i = n + 2 BY <1>6, <1>13, <1>14, <2>3
  <2> QED BY <1>2, <1>8, <2>1, <2>2, <2>3
<1>17. NoGaps'
  <2> SUFFICES ASSUME NEW k \in 1..(n + 2), NEW r \in Rank(At(1))'..Rank(At(k))'
               PROVE \E j \in 1..k : Rank(At(j))' = r
    BY <1>8 DEF NoGaps
  <2>0. 1 \in Places /\ n + 1 \in Places BY <1>2, <1>8
  <2>1. \A m \in Places : r \in Rank(At(1))..Rank(At(m)) => \E j \in 1..m : Rank(At(j))' = r
    <3> SUFFICES ASSUME NEW m \in Places, r \in Rank(At(1))..Rank(At(m))
                 PROVE \E j \in 1..m : Rank(At(j))' = r
      OBVIOUS
    <3>1. PICK j \in 1..m : Rank(At(j)) = r BY DEF NoGaps
    <3>2. j \in Places BY <1>2, <1>8
    <3> QED BY <1>12, <3>1, <3>2
  <2>2. CASE k \in Places BY <1>12, <2>0, <2>1, <2>2
  <2>3. CASE k = n + 2
    <3>1. CASE r = Rank(At(n + 2))' BY <1>2, <2>3, <3>1
    <3>2. CASE r # Rank(At(n + 2))'
      <4>1. Rank(At(1))' = Rank(At(1)) /\ Rank(At(1)) \in Int BY <1>12, <2>0, PlaceFacts
      <4>2. r \in Rank(At(1))..Rank(At(n + 1)) BY <1>6, <1>13, <1>14, <2>3, <3>2, <4>1
      <4> QED BY <1>2, <2>0, <2>1, <2>3, <4>2
    <3> QED BY <3>1, <3>2
  <2> QED BY <1>2, <1>8, <2>2, <2>3
<1>18. Ordered'
  BY <1>2, <1>5 DEF Ordered, IsLoad, e
<1>19. StoreVals' BY <1>2, <1>5 DEF StoreVals, IsLoad, e
<1>20. 1 \in Places /\ At(1)'.call = At(1).call /\ At(1)'.step = At(1).step
  BY <1>2, <1>8, <1>11
<1>21. Polls' BY <1>1, <1>2, <1>5, <1>20 DEF Polls, e
<1>22. Results'
  <2> SUFFICES ASSUME NEW k \in 1..(n + 1), window'[k].step = "result", window'[k].issued, Known(k)'
               PROVE window'[k].val = AnswerTo(window'[k].call)
    BY <1>5 DEF Results, AnswerTo
  <2>1. k \in 1..n /\ window'[k] = window[k] /\ k \in DOMAIN window BY <1>2, <1>5 DEF e
  <2>2. \A i \in 1..(k - 1) : window'[i] = window[i] BY <1>2, <1>5, <2>1
  <2>3. Known(k) BY <1>20, <2>1, <2>2 DEF Known
  <2> QED BY <2>1, <2>3 DEF Results
<1>23. Stage' BY <1>1, <1>20 DEF Stage, host, Quiet, Waiting, Answered, AnswerTo
<1> QED BY <1>7, <1>15, <1>16, <1>17, <1>18, <1>19, <1>21, <1>22, <1>23

-----------------------------------------------------------------------------
(* The core issues.                                                          *)

LEMMA LastOf ==
  ASSUME NEW n \in Nat, NEW S, S \subseteq 1..n, S # {}
  PROVE  \E k \in S : \A j \in S : j <= k
<1> DEFINE T == {n - j : j \in S}
           R == OpToRel(<, Nat)
<1>1. T \subseteq Nat /\ T # {}
  <2>1. \A j \in S : j \in 1..n /\ n - j \in Nat OBVIOUS
  <2> QED BY <2>1
<1>2. IsWellFoundedOn(R, Nat) BY NatLessThanWellFounded
<1> HIDE DEF T, R
<1>3. PICK x \in T : \A y \in T : <<y, x>> \notin R BY <1>1, <1>2, WFMin
<1> USE DEF T, R
<1>4. PICK k \in S : x = n - k BY <1>3
<1>5. \A j \in S : ~(n - j < n - k)
  <2> SUFFICES ASSUME NEW j \in S PROVE ~(n - j < n - k) OBVIOUS
  <2>1. n - j \in T /\ n - j \in Nat /\ n - k \in Nat OBVIOUS
  <2>2. <<n - j, n - k>> \notin R BY <1>3, <1>4, <2>1
  <2> QED BY <2>1, <2>2 DEF OpToRel
<1> QED BY <1>5

LEMMA LoadDataFacts ==
  ASSUME TypeOK, NEW w \in WORDS
  PROVE  /\ LoadData(w) \in Int
         /\ \/ Buffered(w) = {} /\ LoadData(w) = words[w]
            \/ \E j \in Buffered(w) : LoadData(w) = window[j].val
<1>1. CASE Buffered(w) = {} BY <1>1 DEF LoadData, TypeOK
<1>2. CASE Buffered(w) # {}
  <2>1. Len(window) \in Nat /\ Buffered(w) \subseteq 1..Len(window) BY DEF TypeOK, Buffered
  <2>2. \E k \in Buffered(w) : \A j \in Buffered(w) : j <= k BY <1>2, <2>1, LastOf
  <2> DEFINE l == CHOOSE k \in Buffered(w) : \A j \in Buffered(w) : j <= k
  <2>3. l \in Buffered(w) BY <2>2
  <2>4. LoadData(w) = window[l].val BY <1>2 DEF LoadData
  <2> HIDE DEF l
  <2>5. l \in DOMAIN window BY <2>3 DEF Buffered
  <2>6. window[l].val \in Int BY <2>5, EntryFacts
  <2> QED BY <2>3, <2>4, <2>6
<1> QED BY <1>1, <1>2

LEMMA CallType ==
  ASSUME NEW c \in 1..N
  PROVE  PROGRAM[c] \in [num : Int, arg : Int] /\ PROGRAM[c].num \in Int /\ PROGRAM[c].arg \in Int
<1> DEFINE S == [num : Int, arg : Int]
<1>1. PROGRAM \in Seq(S) BY HostCallAssumption
<1> HIDE DEF S
<1>2. c \in 1..Len(PROGRAM) BY DEF N
<1>3. PROGRAM[c] \in S BY <1>1, <1>2
<1> QED BY <1>3 DEF S

LEMMA DataType ==
  ASSUME NEW c \in 1..(N + 1), NEW s \in STEPS, s = "exit" <=> c = N + 1, s \notin {"poll", "result"}
  PROVE  Data(c, s) \in Int
<1>1. c \in 1..N => PROGRAM[c].num \in Int /\ PROGRAM[c].arg \in Int
  BY CallType
<1>2. EXIT_CODE \in Int /\ TOHOST_CMD \in Int BY HostCallAssumption
<1>3. N \in Nat BY LenNat
<1> QED BY <1>1, <1>2, <1>3 DEF Data

\* Between the answered poll of a call and the load of its result is its store to
\* fromhost.
LEMMA AckBetween ==
  ASSUME IInv, NEW k \in Places, NEW c \in Int,
         Rank(At(1)) <= 6 * c + 4, 6 * c + 4 < Rank(At(k))
  PROVE  \E j \in DOMAIN window :
           j < k /\ window[j].step = "ack" /\ window[j].call = c /\ Rank(At(j)) = 6 * c + 4
<1> USE DEF IInv
<1>1. 1 \in Places /\ Len(window) \in Nat /\ DOMAIN window = 1..Len(window)
  BY DEF Places, TypeOK
<1>2. Rank(At(k)) \in Int /\ Rank(At(1)) \in Int BY <1>1, PlaceFacts
<1>3. PICK j \in 1..k : Rank(At(j)) = 6 * c + 4
  <2>1. 6 * c + 4 \in Rank(At(1))..Rank(At(k)) BY <1>2
  <2> QED BY <2>1 DEF NoGaps
<1>4. j # k BY <1>2, <1>3
<1>5. j \in DOMAIN window BY <1>1, <1>3, <1>4 DEF Places
<1>6. /\ At(j) = window[j] /\ window[j].call \in 1..(N + 1) /\ window[j].step \in STEPS
  BY <1>5, EntryFacts
<1>7. N \in Nat BY LenNat
<1>8. window[j].step = "ack" /\ window[j].call = c
  <2> DEFINE p == window[j]
  <2>1. p.call \in Int /\ p.step \in STEPS /\ Rank(p) = 6 * c + 4 BY <1>3, <1>6, <1>7
  <2> HIDE DEF p
  <2>2. p.step = "ack" /\ p.call = c BY <2>1, RankOf
  <2> QED BY <2>2 DEF p
<1> QED BY <1>3, <1>4, <1>5, <1>8 DEF Places

LEMMA IssueStep ==
  ASSUME IInv, Issue
  PROVE  IInv'
<1> USE DEF IInv
<1>0. PICK n : n = Len(window) OBVIOUS
<1> DEFINE loaded(k) == IF IsLoad(window[k]) THEN LoadData(Word[window[k].step])
                        ELSE Data(window[k].call, window[k].step)
<1>k. PICK k \in DOMAIN window :
        /\ ~window[k].issued /\ MayIssue(k)
        /\ window' = [window EXCEPT ![k].issued = TRUE, ![k].val = loaded(k)]
        /\ UNCHANGED <<fetch, words, host, served, results>>
  BY DEF Issue
<1>v. PICK v : v = loaded(k) OBVIOUS
<1>1. /\ ~window[k].issued /\ MayIssue(k)
      /\ v = IF IsLoad(window[k]) THEN LoadData(Word[window[k].step])
              ELSE Data(window[k].call, window[k].step)
      /\ window' = [window EXCEPT ![k].issued = TRUE, ![k].val = v]
      /\ UNCHANGED <<fetch, words, host, served, results>>
  BY <1>k, <1>v
<1> HIDE DEF loaded
<1>2. n \in Nat /\ DOMAIN window = 1..n /\ window \in Seq(Entry) /\ k \in 1..n BY <1>0 DEF TypeOK
<1>3. /\ k \in Places /\ At(k) = window[k] /\ window[k] \in Entry
      /\ window[k].call \in 1..(N + 1) /\ window[k].step \in STEPS
      /\ window[k].step = "exit" <=> window[k].call = N + 1
  BY EntryFacts
<1>4. v \in Int
  <2>1. IsLoad(window[k]) => Word[window[k].step] \in WORDS BY <1>3 DEF IsLoad, Word
  <2>2. CASE IsLoad(window[k]) BY <1>1, <2>1, <2>2, LoadDataFacts
  <2>3. CASE ~IsLoad(window[k]) BY <1>1, <1>3, <2>3, DataType DEF IsLoad
  <2> QED BY <2>2, <2>3
<1> DEFINE e == [window[k] EXCEPT !.issued = TRUE, !.val = v]
<1>5. /\ e \in Entry /\ e.issued /\ e.val = v
      /\ e.call = window[k].call /\ e.step = window[k].step /\ e.found = window[k].found
  BY <1>3, <1>4 DEF Entry
<1>6. window' = [window EXCEPT ![k] = e] BY <1>1
<1> HIDE DEF e
<1>7. /\ window' \in Seq(Entry) /\ Len(window') = n /\ DOMAIN window' = 1..n
      /\ \A i \in 1..n : i # k => window'[i] = window[i]
      /\ window'[k] = e
  BY <1>0, <1>2, <1>5, <1>6
<1>8. TypeOK' BY <1>1, <1>7 DEF TypeOK, host
<1>9. Places = 1..(n + 1) /\ Places' = 1..(n + 1) BY <1>0, <1>2, <1>7 DEF Places
<1>10. \A i \in 1..n : /\ window'[i].call = window[i].call /\ window'[i].step = window[i].step
                        /\ window'[i].found = window[i].found
  BY <1>5, <1>7
<1>11. \A i \in Places : At(i)'.call = At(i).call /\ At(i)'.step = At(i).step
  BY <1>1, <1>2, <1>7, <1>9, <1>10 DEF At
<1>12. \A i \in Places : Rank(At(i))' = Rank(At(i))
  BY <1>11, SameRank
<1>13. Path'
  <2> SUFFICES ASSUME NEW i \in 1..n
               PROVE LET d == window'[i] p == After(d.call, d.step, d.found) IN
                     /\ At(i + 1)'.call = p.call /\ At(i + 1)'.step = p.step
                     /\ d.step # "poll" => d.found
    BY <1>7 DEF Path
  <2>1. i + 1 \in Places BY <1>2, <1>9
  <2> QED BY <1>2, <1>10, <1>11, <2>1 DEF Path
<1>14. Monotone' BY <1>9, <1>12 DEF Monotone
<1>15. NoGaps'
  <2> SUFFICES ASSUME NEW m \in Places, NEW r \in Rank(At(1))'..Rank(At(m))'
               PROVE \E j \in 1..m : Rank(At(j))' = r
    BY <1>9 DEF NoGaps
  <2>1. 1 \in Places BY <1>2, <1>9
  <2>2. r \in Rank(At(1))..Rank(At(m)) BY <1>12, <2>1
  <2>3. PICK j \in 1..m : Rank(At(j)) = r BY <2>2 DEF NoGaps
  <2>4. j \in Places BY <1>2, <1>9
  <2> QED BY <1>12, <2>3, <2>4
<1>16. Ordered'
  <2> SUFFICES ASSUME NEW i \in 1..n, NEW j \in 1..n, i < j, window'[j].issued, ~window'[i].issued
               PROVE IsLoad(window'[i]) /\ IsLoad(window'[j])
    BY <1>7 DEF Ordered, IsLoad
  <2>1. i # k /\ window'[i] = window[i] BY <1>5, <1>7
  <2>2. CASE j = k BY <1>1, <1>2, <1>10, <2>1, <2>2 DEF MayIssue, IsLoad
  <2>3. CASE j # k BY <1>2, <1>7, <2>1, <2>3 DEF Ordered
  <2> QED BY <2>2, <2>3
<1>17. StoreVals' BY <1>1, <1>2, <1>5, <1>7 DEF StoreVals, IsLoad
<1>18. 1 \in Places /\ At(1)'.call = At(1).call /\ At(1)'.step = At(1).step
  BY <1>2, <1>9, <1>11
<1>19. Stage' BY <1>1, <1>18 DEF Stage, host, Quiet, Waiting, Answered, AnswerTo
<1>20. Polls'
  <2> SUFFICES ASSUME NEW j \in 1..n, window'[j].step = "poll", window'[j].issued, window'[j].val # 0
               PROVE window'[j].call = At(1).call /\ At(1).step = "poll" /\ words["fromhost"] # 0
    BY <1>1, <1>7, <1>18 DEF Polls
  <2>1. CASE j # k BY <1>2, <1>7, <2>1 DEF Polls
  <2>2. CASE j = k
    <3>1. v # 0 /\ window[k].step = "poll" /\ window'[j].call = window[k].call BY <1>5, <1>7, <2>2
    <3>2. v = LoadData("fromhost") BY <1>1, <3>1 DEF IsLoad, Word
    <3>3. Buffered("fromhost") = {} /\ words["fromhost"] # 0
      <4>1. ASSUME NEW b \in Buffered("fromhost"), v = window[b].val PROVE FALSE
        <5>1. b \in DOMAIN window /\ window[b].issued /\ ~IsLoad(window[b]) /\ Word[window[b].step] = "fromhost"
          BY <4>1 DEF Buffered
        <5>2. window[b].step \in STEPS BY <5>1, EntryFacts
        <5>3. window[b].step = "ack" BY <5>1, <5>2 DEF IsLoad, Word
        <5>4. window[b].val = Data(window[b].call, "ack") BY <5>1, <5>3 DEF StoreVals
        <5> QED BY <3>1, <4>1, <5>4 DEF Data
      <4> QED BY <3>1, <3>2, <4>1, LoadDataFacts
    <3>4. At(1).step \in {"poll", "ack"}
      <4>1. At(1).step \in STEPS BY <1>18, PlaceFacts
      <4> QED BY <3>3, <4>1 DEF Stage, Quiet
    <3>5. /\ At(1).call \in Int /\ window[k].call \in Int
          /\ Rank(At(1)) = 6 * At(1).call + (IF At(1).step = "poll" THEN 3 ELSE 4)
          /\ Rank(At(k)) = 6 * window[k].call + 3
      <4>1. At(1).call \in Int /\ window[k].call \in Int BY <1>3, <1>18, PlaceFacts, LenNat
      <4>2. Rank(At(1)) = 6 * At(1).call + (IF At(1).step = "poll" THEN 3 ELSE 4)
        BY <3>4, <4>1, RankOf
      <4>3. Rank(At(k)) = 6 * window[k].call + 3 BY <1>3, <3>1, <4>1, RankOf
      <4> QED BY <4>1, <4>2, <4>3
    <3>6. Rank(At(1)) <= Rank(At(k)) BY <1>2, <1>3, <1>18 DEF Monotone
    <3>7. ~(6 * At(1).call + 4 < Rank(At(k)))
      <4> SUFFICES ASSUME 6 * At(1).call + 4 < Rank(At(k)) PROVE FALSE OBVIOUS
      <4>1. Rank(At(1)) <= 6 * At(1).call + 4 BY <3>5
      <4>2. PICK a \in DOMAIN window : a < k /\ window[a].step = "ack"
        BY <1>3, <3>5, <4>1, AckBetween
      <4>3. window[a].issued BY <1>1, <1>2, <4>2 DEF MayIssue, IsLoad
      <4>4. a \in Buffered("fromhost") BY <4>2, <4>3 DEF Buffered, IsLoad, Word
      <4> QED BY <3>3, <4>4
    <3> QED BY <3>1, <3>3, <3>4, <3>5, <3>6, <3>7
  <2> QED BY <2>1, <2>2
<1>21. Results'
  <2> SUFFICES ASSUME NEW j \in 1..n, window'[j].step = "result", window'[j].issued, Known(j)'
               PROVE window'[j].val = AnswerTo(window'[j].call)
    BY <1>7 DEF Results, AnswerTo
  <2> DEFINE c == window[j].call
  <2>0. /\ j \in DOMAIN window /\ j \in Places /\ window[j].step = "result" /\ window'[j].call = c
        /\ c \in Int /\ At(j) = window[j] /\ Rank(At(j)) = 6 * c + 5
    <3>1. j \in DOMAIN window /\ window[j].step = "result" /\ window'[j].call = c BY <1>2, <1>10
    <3>2. j \in Places /\ At(j) = window[j] /\ c \in Int BY <3>1, EntryFacts, LenNat
    <3> QED BY <3>1, <3>2, RankOf
  <2>1. CASE j # k
    <3>1. window'[j] = window[j] BY <1>7, <2>1
    <3>2. CASE Known(j) BY <2>0, <3>1, <3>2 DEF Results
    <3>3. CASE ~Known(j)
      <4>1. PICK i \in 1..(j - 1) : /\ window'[i].step = "poll" /\ window'[i].call = c /\ window'[i].issued
                                    /\ window'[i].val # 0
        BY <1>18, <2>0, <3>3 DEF Known
      <4>2. i = k BY <1>2, <1>7, <3>3, <4>1 DEF Known
      <4>3. window[k].step = "poll" /\ window[k].call = c /\ k < j BY <1>2, <1>10, <4>1, <4>2
      <4>4. Rank(At(k)) = 6 * c + 3 BY <1>3, <2>0, <4>3, RankOf
      <4>5. Rank(At(1)) <= 6 * c + 4
        <5>1. Rank(At(1)) <= Rank(At(k)) BY <1>2, <1>3, <1>18 DEF Monotone
        <5>2. Rank(At(1)) \in Int BY <1>18, PlaceFacts
        <5> QED BY <2>0, <4>4, <5>1, <5>2
      <4>6. PICK a \in DOMAIN window : a < j /\ window[a].step = "ack" /\ Rank(At(a)) = 6 * c + 4
        BY <2>0, <4>5, AckBetween
      <4>7. a \in 1..n /\ a \in Places BY <1>2, <1>9, <4>6
      <4>8. k < a
        <5>1. a <= k => Rank(At(a)) <= Rank(At(k)) BY <1>3, <4>7 DEF Monotone
        <5> QED BY <1>2, <2>0, <4>4, <4>6, <4>7, <5>1
      <4>9. window[a].issued BY <2>0, <3>1, <4>6 DEF Ordered, IsLoad
      <4> QED BY <1>1, <4>6, <4>8, <4>9 DEF Ordered, IsLoad
    <3> QED BY <3>2, <3>3
  <2>2. CASE j = k
    <3>1. window'[j].val = v /\ v = LoadData("num") BY <1>1, <1>5, <1>7, <2>0, <2>2 DEF IsLoad, Word
    <3>2. Known(k)
      <4>1. \A i \in 1..(k - 1) : window'[i] = window[i] BY <1>2, <1>7
      <4> QED BY <1>10, <1>18, <2>0, <2>2, <4>1 DEF Known
    <3>3. At(1).call = c /\ At(1).step \in {"poll", "ack", "result"} /\ words["num"] = AnswerTo(c)
      <4>1. CASE At(1).call = c /\ At(1).step \in {"ack", "result"} BY <4>1 DEF Stage, Answered
      <4>2. CASE ~(At(1).call = c /\ At(1).step \in {"ack", "result"})
        <5>1. PICK i \in 1..(k - 1) : /\ window[i].step = "poll" /\ window[i].call = c
                                      /\ window[i].issued /\ window[i].val # 0
          BY <2>2, <3>2, <4>2 DEF Known
        <5>2. At(1).call = c /\ At(1).step = "poll" /\ words["fromhost"] # 0 BY <1>2, <5>1 DEF Polls
        <5> QED BY <5>2 DEF Stage, Waiting, Answered
      <4> QED BY <4>1, <4>2
    <3>4. 6 * c + 3 <= Rank(At(1)) BY <2>0, <3>3, RankOf
    <3>5. Buffered("num") = {}
      <4> SUFFICES ASSUME NEW b \in Buffered("num") PROVE FALSE OBVIOUS
      <4>1. b \in DOMAIN window /\ window[b].issued /\ ~IsLoad(window[b]) /\ Word[window[b].step] = "num"
        BY DEF Buffered
      <4>2. /\ b \in Places /\ At(b) = window[b] /\ window[b].step \in STEPS /\ window[b].call \in Int
        BY <4>1, EntryFacts, LenNat
      <4>3. window[b].step = "num" BY <4>1, <4>2 DEF IsLoad, Word
      <4>4. Rank(At(b)) = 6 * window[b].call BY <4>2, <4>3, RankOf
      <4>5. b < k BY <1>1, <1>2, <4>1 DEF Ordered
      <4>6. Rank(At(1)) <= Rank(At(b)) /\ Rank(At(b)) <= Rank(At(k))
        BY <1>2, <1>3, <1>18, <4>1, <4>2, <4>5 DEF Monotone
      <4>7. Rank(At(1)) \in Int BY <1>18, PlaceFacts
      <4> QED BY <2>0, <2>2, <3>4, <4>2, <4>4, <4>6, <4>7
    <3> QED BY <2>0, <3>1, <3>3, <3>5, LoadDataFacts
  <2> QED BY <2>1, <2>2
<1> QED BY <1>8, <1>13, <1>14, <1>15, <1>16, <1>17, <1>19, <1>20, <1>21

-----------------------------------------------------------------------------
(* The host.                                                                 *)

\* A step of the promise.
Promised == [Remote!Serve \/ Remote!Return \/ Remote!Stop]_<<served, results, stopped>>

\* What does not depend on memory stays when the core does nothing.
LEMMA CoreStays ==
  ASSUME IInv, UNCHANGED <<fetch, window>>
  PROVE  /\ At(1)' = At(1)
         /\ Path' /\ Monotone' /\ NoGaps' /\ Ordered' /\ StoreVals' /\ Results'
<1> USE DEF IInv
<1>1. \A k : At(k)' = At(k) BY DEF At
<1>2. Places' = Places BY DEF Places
<1>3. \A k : Rank(At(k))' = Rank(At(k)) BY <1>1
<1>4. \A k : Known(k)' = Known(k) BY <1>1 DEF Known
<1>5. Path' BY <1>1 DEF Path
<1>6. Monotone' BY <1>2, <1>3 DEF Monotone
<1>7. NoGaps' BY <1>2, <1>3 DEF NoGaps
<1>8. Ordered' /\ StoreVals' BY DEF Ordered, StoreVals
<1>9. Results' BY <1>4 DEF Results
<1> QED BY <1>1, <1>5, <1>6, <1>7, <1>8, <1>9

LEMMA HostIoStep ==
  ASSUME IInv, HostIo
  PROVE  IInv' /\ Promised
<1> USE DEF IInv
<1> DEFINE c == At(1).call
<1>1. /\ ~stopped /\ fetch' = fetch /\ window' = window /\ results' = results
      /\ served' = served \o Taken.calls /\ stopped' = Taken.stopped
  BY DEF HostIo, core
<1>2. /\ At(1)' = At(1)
      /\ Path' /\ Monotone' /\ NoGaps' /\ Ordered' /\ StoreVals' /\ Results'
  BY <1>1, CoreStays
<1>3. /\ At(1).step \in STEPS /\ c \in 1..(N + 1) /\ (At(1).step = "exit" <=> c = N + 1)
      /\ N \in Nat
  BY PlaceFacts, LenNat DEF Places, TypeOK
<1>4. fromhost_queue = <<>> /\ Len(results) = c - 1 BY DEF Stage
<1>5. words \in [WORDS -> Int] BY DEF TypeOK
<1>6. CASE words["tohost"] = 0
  <2>1. Taken = Nothing BY <1>6 DEF Taken
  <2>2. words' = words /\ fromhost_queue' = fromhost_queue BY <1>4, <2>1 DEF HostIo, Nothing
  <2>3. served' = served /\ stopped' = stopped BY <1>1, <2>1 DEF Nothing, TypeOK
  <2>4. TypeOK' BY <1>1, <2>2, <2>3 DEF TypeOK
  <2>5. Polls' BY <1>1, <1>2, <2>2 DEF Polls
  <2>6. Stage' BY <1>1, <1>2, <2>2, <2>3 DEF Stage, Quiet, Waiting, Answered
  <2>7. Promised BY <1>1, <2>3 DEF Promised
  <2> QED BY <1>2, <2>4, <2>5, <2>6, <2>7
<1>7. CASE words["tohost"] # 0 /\ At(1).step = "exit"
  <2> DEFINE m == [words EXCEPT !["tohost"] = 0]
  <2>1. words["tohost"] = 2 * EXIT_CODE + 1 /\ EXIT_CODE \in Nat BY <1>7, HostCallAssumption DEF Stage
  <2>2. words["tohost"] % 2 = 1 BY <2>1
  <2>3. Taken = [mem |-> m, exitcode |-> words["tohost"], stopped |-> TRUE, queue |-> fromhost_queue, calls |-> <<>>]
    BY <1>7, <2>2 DEF Taken, handle_syscall
  <2>4. words' = m /\ fromhost_queue' = <<>> BY <1>4, <2>3 DEF HostIo
  <2>5. served' = served /\ stopped' = TRUE BY <1>1, <2>3 DEF TypeOK
  <2>6. /\ words' \in [WORDS -> Int] /\ words'["tohost"] = 0
        /\ words'["fromhost"] = words["fromhost"]
    BY <1>5, <2>4
  <2>7. TypeOK' BY <1>1, <2>5, <2>6 DEF TypeOK
  <2>8. Polls' BY <1>1, <1>2, <2>6 DEF Polls
  <2>9. Stage' BY <1>1, <1>2, <1>7, <2>4, <2>5, <2>6 DEF Stage
  <2>10. Promised BY <1>1, <1>3, <1>4, <1>7, <2>5 DEF Promised, Remote!Stop, N
  <2> QED BY <1>2, <2>7, <2>8, <2>9, <2>10
<1>8. CASE words["tohost"] # 0 /\ At(1).step # "exit"
  <2>1. At(1).step = "poll" /\ Waiting(c) BY <1>3, <1>8 DEF Stage, Quiet, Answered
  <2>2. c \in 1..N BY <1>3, <1>8
  <2>3. PROGRAM[c] \in [num : Int, arg : Int] /\ AnswerTo(c) \in Int
    <3>1. AnswerTo(c) \in Int BY <2>2, HostCallAssumption DEF AnswerTo, N
    <3> QED BY <2>2, <3>1, CallType
  <2> DEFINE m == [words EXCEPT !["tohost"] = 0]
             a == [m EXCEPT !["num"] = AnswerTo(c)]
  <2>4. words["tohost"] = TOHOST_CMD /\ words["tohost"] % 2 # 1
    <3>1. TOHOST_CMD \in Nat /\ TOHOST_CMD % 2 = 0 BY HostCallAssumption
    <3> QED BY <2>1, <3>1 DEF Waiting
  <2>5. m["num"] = PROGRAM[c].num /\ m["arg"] = PROGRAM[c].arg /\ m["fromhost"] = 0
        /\ a["fromhost"] = 0
    BY <1>5, <2>1 DEF Waiting
  <2>6. Taken = [mem |-> a, exitcode |-> exitcode, stopped |-> stopped, queue |-> <<1>>,
                 calls |-> <<[num |-> PROGRAM[c].num, arg |-> PROGRAM[c].arg]>>]
    <3>1. respond(fromhost_queue) = <<1>> BY <1>4 DEF respond
    <3> QED BY <1>8, <2>4, <2>5, <3>1 DEF Taken, handle_syscall, AnswerTo
  <2>7. words' = [a EXCEPT !["fromhost"] = 1] /\ fromhost_queue' = <<>>
    BY <2>5, <2>6 DEF HostIo
  <2>8. [num |-> PROGRAM[c].num, arg |-> PROGRAM[c].arg] = PROGRAM[c] BY <2>3
  <2>9. /\ stopped' = stopped /\ served' = Append(served, PROGRAM[c])
    BY <1>1, <2>3, <2>6, <2>8 DEF TypeOK
  <2>10. /\ words' \in [WORDS -> Int] /\ words'["tohost"] = 0 /\ words'["fromhost"] = 1
         /\ words'["num"] = AnswerTo(c)
    BY <1>5, <2>3, <2>7
  <2>11. served' \in Seq([num : Int, arg : Int]) /\ Len(served) = c - 1 /\ Len(served') = c
    BY <1>3, <2>1, <2>3, <2>9 DEF TypeOK, Waiting
  <2>12. TypeOK' BY <1>1, <2>9, <2>10, <2>11 DEF TypeOK
  <2>13. Polls' BY <1>1, <2>1 DEF Polls, Waiting
  <2>14. Stage' BY <1>1, <1>2, <1>4, <2>1, <2>7, <2>10, <2>11 DEF Stage, Answered, AnswerTo
  <2>15. Remote!Serve
    BY <1>1, <1>3, <1>4, <2>2, <2>9, <2>11 DEF Remote!Serve, N
  <2> QED BY <1>2, <2>12, <2>13, <2>14, <2>15 DEF Promised
<1> QED BY <1>6, <1>7, <1>8

-----------------------------------------------------------------------------
(* The oldest access retires.                                                *)

\* Where the program goes on is where it had been predicted to, or nothing of
\* the prediction is left.
LEMMA RetirePlaces ==
  ASSUME IInv, Retire
  PROVE  LET e == window[1] IN
         /\ 1 \in DOMAIN window /\ At(1) = e /\ e.issued
         /\ fetch' \in Place /\ window' \in Seq(Entry)
         /\ \E g \in BOOLEAN : /\ g <=> (e.step = "poll" => e.val # 0)
                             /\ At(1)'.call = After(e.call, e.step, g).call
                             /\ At(1)'.step = After(e.call, e.step, g).step
         /\ \/ window' = <<>>
            \/ /\ Len(window') = Len(window) - 1 /\ fetch' = fetch
               /\ \A k \in 1..Len(window') : window'[k] = window[k + 1]
<1> USE DEF IInv
<1> DEFINE e == window[1]
           g == e.step = "poll" => e.val # 0
           recover == e.step = "poll" /\ (e.val # 0) # e.found
           q == After(e.call, e.step, e.val # 0)
<1>1. window \in Seq(Entry) /\ window # <<>> /\ Head(window) = e /\ Len(window) \in Nat \ {0}
      /\ 1 \in DOMAIN window
  BY DEF Retire, TypeOK
<1>2. /\ e.issued
      /\ window' = IF recover THEN <<>> ELSE Tail(window)
      /\ fetch' = IF recover THEN q ELSE fetch
  BY <1>1 DEF Retire
<1>3. /\ At(1) = e /\ e.call \in 1..(N + 1) /\ e.step \in STEPS /\ (e.step = "exit" <=> e.call = N + 1)
      /\ e.found \in BOOLEAN
  BY <1>1, EntryFacts
<1>4. q \in Place
  <2>1. (e.val # 0) \in BOOLEAN OBVIOUS
  <2> QED BY <1>3, <2>1, AfterFacts
<1> HIDE DEF e
<1>5. CASE recover
  <2>1. window' = <<>> /\ fetch' = q /\ e.step = "poll" BY <1>2, <1>5
  <2>2. At(1)' = q BY <2>1 DEF At
  <2>3. g = (e.val # 0) /\ g \in BOOLEAN BY <2>1
  <2>4. window' \in Seq(Entry) BY <2>1
  <2> QED BY <1>1, <1>2, <1>3, <1>4, <2>1, <2>2, <2>3, <2>4 DEF e
<1>6. CASE ~recover
  <2>1. window' = Tail(window) /\ fetch' = fetch BY <1>2, <1>6
  <2>2. window' \in Seq(Entry) /\ Len(window') = Len(window) - 1
        /\ \A k \in 1..Len(window') : window'[k] = window[k + 1]
    BY <1>1, <2>1
  <2>3. At(1)' = At(2)
    <3>1. CASE Len(window) = 1 BY <1>1, <2>1, <2>2, <3>1 DEF At
    <3>2. CASE Len(window) # 1
      <4>1. 1 \in 1..Len(window') /\ DOMAIN window' = 1..Len(window') /\ 2 \in DOMAIN window
        BY <1>1, <2>2, <3>2
      <4>2. window'[1] = window[2] BY <2>2, <4>1
      <4>3. At(1)' = window'[1] BY <4>1 DEF At
      <4>4. At(2) = window[2] BY <4>1 DEF At
      <4> QED BY <4>2, <4>3, <4>4
    <3> QED BY <3>1, <3>2
  <2>4. /\ At(2).call = After(e.call, e.step, e.found).call
        /\ At(2).step = After(e.call, e.step, e.found).step
        /\ e.step # "poll" => e.found
    BY <1>1 DEF Path, e
  <2>5. (e.found <=> g) /\ g \in BOOLEAN BY <1>3, <1>6, <2>4
  <2>6. e.found = g BY <1>3, <2>5
  <2>7. fetch' \in Place BY <2>1 DEF TypeOK
  <2> QED BY <1>1, <1>2, <1>3, <2>1, <2>2, <2>3, <2>4, <2>5, <2>6, <2>7 DEF e
<1> QED BY <1>5, <1>6
\* Each step of the program leaves memory and the host as the next needs them.
LEMMA RetireStage ==
  ASSUME IInv, Retire
  PROVE  /\ words' \in [WORDS -> Int] /\ results' \in Seq(Int) /\ Stage' /\ Promised
         /\ IsLoad(window[1]) => words' = words
<1> USE DEF IInv
<1> DEFINE e == window[1]
           c == e.call
<1>1. PICK g \in BOOLEAN : /\ g <=> (e.step = "poll" => e.val # 0)
                          /\ At(1)'.call = After(c, e.step, g).call
                          /\ At(1)'.step = After(c, e.step, g).step
  BY RetirePlaces
<1>2. /\ 1 \in DOMAIN window /\ At(1) = e /\ e.issued
      /\ c \in 1..(N + 1) /\ e.step \in STEPS /\ (e.step = "exit" <=> c = N + 1) /\ e.val \in Int
      /\ N \in Nat /\ Head(window) = e
  BY RetirePlaces, EntryFacts, LenNat DEF TypeOK
<1>3. /\ words' = IF IsLoad(e) THEN words ELSE [words EXCEPT ![Word[e.step]] = e.val]
      /\ results' = IF e.step = "result" THEN Append(results, e.val) ELSE results
      /\ served' = served /\ fromhost_queue' = fromhost_queue /\ stopped' = stopped /\ ~stopped
  BY <1>2 DEF Retire, host
<1>4. words \in [WORDS -> Int] /\ results \in Seq(Int) BY DEF TypeOK
<1>5. words' \in [WORDS -> Int]
  <2>1. Word[e.step] \in WORDS BY <1>2 DEF Word
  <2> QED BY <1>2, <1>3, <1>4, <2>1
<1>6. results' \in Seq(Int) BY <1>2, <1>3, <1>4
<1>7. ~IsLoad(e) => e.val = Data(c, e.step) BY <1>2 DEF StoreVals
<1>8. /\ Len(results) = c - 1 /\ fromhost_queue = <<>> BY <1>2 DEF Stage
<1> HIDE DEF e
<1>9. e.step # "result" => Promised BY <1>3 DEF Promised
<1>10. CASE e.step = "num"
  <2>0. ~IsLoad(e) /\ Word[e.step] = "num" /\ Data(c, "num") = PROGRAM[c].num BY <1>10 DEF IsLoad, Word, Data
  <2>1. words' = [words EXCEPT !["num"] = PROGRAM[c].num] BY <1>3, <1>7, <1>10, <2>0
  <2>2. At(1)'.call = c /\ At(1)'.step = "arg" BY <1>1, <1>10 DEF After
  <2>3. Quiet /\ Len(served) = c - 1 BY <1>2, <1>10 DEF Stage
  <2>4. Quiet' /\ words'["num"] = PROGRAM[c].num BY <1>4, <2>1, <2>3 DEF Quiet
  <2>5. Stage' BY <1>3, <1>8, <1>10, <2>2, <2>3, <2>4 DEF Stage
  <2> QED BY <1>5, <1>6, <1>9, <1>10, <2>5 DEF IsLoad, e
<1>11. CASE e.step = "arg"
  <2>0. ~IsLoad(e) /\ Word[e.step] = "arg" /\ Data(c, "arg") = PROGRAM[c].arg BY <1>11 DEF IsLoad, Word, Data
  <2>1. words' = [words EXCEPT !["arg"] = PROGRAM[c].arg] BY <1>3, <1>7, <1>11, <2>0
  <2>2. At(1)'.call = c /\ At(1)'.step = "ring" BY <1>1, <1>11 DEF After
  <2>3. Quiet /\ Len(served) = c - 1 /\ words["num"] = PROGRAM[c].num BY <1>2, <1>11 DEF Stage
  <2>4. Quiet' /\ words'["num"] = PROGRAM[c].num /\ words'["arg"] = PROGRAM[c].arg
    BY <1>4, <2>1, <2>3 DEF Quiet
  <2>5. Stage' BY <1>3, <1>8, <1>11, <2>2, <2>3, <2>4 DEF Stage
  <2> QED BY <1>5, <1>6, <1>9, <1>11, <2>5 DEF IsLoad, e
<1>12. CASE e.step = "ring"
  <2>0. ~IsLoad(e) /\ Word[e.step] = "tohost" /\ Data(c, "ring") = TOHOST_CMD BY <1>12 DEF IsLoad, Word, Data
  <2>1. words' = [words EXCEPT !["tohost"] = TOHOST_CMD] BY <1>3, <1>7, <1>12, <2>0
  <2>2. At(1)'.call = c /\ At(1)'.step = "poll" BY <1>1, <1>12 DEF After
  <2>3. Quiet /\ Len(served) = c - 1 /\ words["num"] = PROGRAM[c].num /\ words["arg"] = PROGRAM[c].arg
    BY <1>2, <1>12 DEF Stage
  <2>4. /\ words'["tohost"] = TOHOST_CMD /\ words'["fromhost"] = 0
        /\ words'["num"] = PROGRAM[c].num /\ words'["arg"] = PROGRAM[c].arg
    BY <1>4, <2>1, <2>3 DEF Quiet
  <2>5. Stage' BY <1>3, <1>8, <1>12, <2>2, <2>3, <2>4 DEF Stage, Waiting
  <2> QED BY <1>5, <1>6, <1>9, <1>12, <2>5 DEF IsLoad, e
<1>13. CASE e.step = "poll"
  <2>1. words' = words BY <1>3, <1>13 DEF IsLoad
  <2>2. At(1)'.call = c /\ At(1)'.step = IF e.val # 0 THEN "ack" ELSE "poll"
    BY <1>1, <1>13 DEF After
  <2>3. Waiting(c) \/ (Answered(c) /\ words["fromhost"] # 0) BY <1>2, <1>13 DEF Stage
  <2>4. e.val # 0 => Answered(c)
    <3>1. e.val # 0 => words["fromhost"] # 0 BY <1>2, <1>13 DEF Polls, e
    <3> QED BY <2>3, <3>1 DEF Waiting
  <2>6. Stage'
    <3>1. CASE e.val # 0
      <4>1. At(1)'.step = "ack" /\ Answered(At(1).call)' BY <1>3, <2>1, <2>2, <2>4, <3>1 DEF Answered, AnswerTo
      <4> QED BY <1>3, <1>8, <1>13, <2>2, <4>1 DEF Stage
    <3>2. CASE e.val = 0
      <4>1. At(1)'.step = "poll" BY <2>2, <3>2
      <4> QED BY <1>3, <1>8, <1>13, <2>1, <2>2, <2>3, <4>1 DEF Stage, Waiting, Answered, AnswerTo
    <3> QED BY <3>1, <3>2
  <2> QED BY <1>5, <1>6, <1>9, <1>13, <2>1, <2>6
<1>14. CASE e.step = "ack"
  <2>0. ~IsLoad(e) /\ Word[e.step] = "fromhost" /\ Data(c, "ack") = 0 BY <1>14 DEF IsLoad, Word, Data
  <2>1. words' = [words EXCEPT !["fromhost"] = 0] BY <1>3, <1>7, <1>14, <2>0
  <2>2. At(1)'.call = c /\ At(1)'.step = "result" BY <1>1, <1>14 DEF After
  <2>3. Answered(c) BY <1>2, <1>14 DEF Stage
  <2>4. words'["tohost"] = 0 /\ words'["fromhost"] = 0 /\ words'["num"] = AnswerTo(c) /\ Len(served') = c
    BY <1>3, <1>4, <2>1, <2>3 DEF Answered
  <2>5. Stage' BY <1>3, <1>8, <1>14, <2>2, <2>4 DEF Stage, Answered, AnswerTo
  <2> QED BY <1>5, <1>6, <1>9, <1>14, <2>5 DEF IsLoad, e
<1>15. CASE e.step = "result"
  <2>1. words' = words BY <1>3, <1>15 DEF IsLoad
  <2>2. c \in 1..N BY <1>2, <1>15
  <2>3. Enter(c + 1).call = c + 1 /\ Enter(c + 1).step \in {"num", "exit"} BY DEF Enter
  <2>4. At(1)'.call = c + 1 /\ At(1)'.step \in {"num", "exit"} BY <1>1, <1>15, <2>3 DEF After
  <2>5. Answered(c) /\ words["fromhost"] = 0 BY <1>2, <1>15 DEF Stage
  <2>6. e.val = AnswerTo(c) BY <1>2, <1>15 DEF Results, Known, e
  <2>7. results' = Append(results, AnswerTo(c)) /\ Len(results') = c BY <1>2, <1>3, <1>4, <1>8, <1>15, <2>6
  <2>8. Stage' BY <1>3, <1>8, <2>1, <2>2, <2>4, <2>5, <2>7 DEF Stage, Quiet, Answered
  <2>9. Remote!Return BY <1>3, <1>8, <2>2, <2>5, <2>7 DEF Remote!Return, Answered, AnswerTo
  <2> QED BY <1>5, <1>6, <2>1, <2>8, <2>9 DEF Promised
<1>16. CASE e.step = "exit"
  <2>0. ~IsLoad(e) /\ Word[e.step] = "tohost" /\ Data(c, "exit") = 2 * EXIT_CODE + 1 BY <1>16 DEF IsLoad, Word, Data
  <2>1. words' = [words EXCEPT !["tohost"] = 2 * EXIT_CODE + 1] BY <1>3, <1>7, <1>16, <2>0
  <2>2. At(1)'.call = c /\ At(1)'.step = "exit" BY <1>1, <1>16 DEF After
  <2>3. words["fromhost"] = 0 /\ Len(served) = c - 1 BY <1>2, <1>16 DEF Stage
  <2>4. words'["tohost"] = 2 * EXIT_CODE + 1 /\ words'["fromhost"] = 0 BY <1>4, <2>1, <2>3
  <2>5. Stage' BY <1>3, <1>8, <1>16, <2>2, <2>3, <2>4 DEF Stage
  <2> QED BY <1>5, <1>6, <1>9, <1>16, <2>5 DEF IsLoad, e
<1> QED BY <1>2, <1>10, <1>11, <1>12, <1>13, <1>14, <1>15, <1>16
LEMMA RetireStep ==
  ASSUME IInv, Retire
  PROVE  IInv' /\ Promised
<1> USE DEF IInv
<1>1. words' \in [WORDS -> Int] /\ results' \in Seq(Int) /\ Stage' /\ Promised
  BY RetireStage
<1>2. PICK e : e = window[1] OBVIOUS
<1>3. /\ 1 \in DOMAIN window /\ At(1) = e /\ e.issued /\ e.call \in 1..(N + 1) /\ e.step \in STEPS
      /\ e.step = "exit" <=> e.call = N + 1
  BY <1>2, RetirePlaces, EntryFacts
<1>4. PICK g \in BOOLEAN : /\ g <=> (e.step = "poll" => e.val # 0)
                          /\ At(1)'.call = After(e.call, e.step, g).call
                          /\ At(1)'.step = After(e.call, e.step, g).step
  BY <1>2, RetirePlaces
<1>5. TypeOK'
  <2>1. fetch' \in Place /\ window' \in Seq(Entry) BY RetirePlaces
  <2> QED BY <1>1, <2>1 DEF TypeOK, Retire, host
<1>6. CASE window' = <<>>
  <2>1. DOMAIN window' = {} /\ Places' = {1} BY <1>6 DEF Places
  <2>2. Path' /\ Ordered' /\ StoreVals' /\ Polls' /\ Results'
    BY <2>1 DEF Path, Ordered, StoreVals, Polls, Results
  <2>3. Rank(At(1))' \in Int
    <3>1. fetch' \in Place /\ At(1)' = fetch' BY <2>1, RetirePlaces DEF At
    <3> QED BY <3>1, RankOf DEF Place
  <2>4. Monotone' BY <2>1, <2>3 DEF Monotone
  <2>5. NoGaps'
    <3> SUFFICES ASSUME NEW r \in Rank(At(1))'..Rank(At(1))'
                 PROVE \E j \in 1..1 : Rank(At(j))' = r
      BY <2>1 DEF NoGaps
    <3> QED BY <2>3
  <2> QED BY <1>1, <1>5, <2>2, <2>4, <2>5
<1>7. CASE window' # <<>>
  <2>0. PICK n : n = Len(window') OBVIOUS
  <2>1. /\ n \in Nat /\ Len(window) = n + 1 /\ DOMAIN window' = 1..n /\ DOMAIN window = 1..(n + 1)
        /\ fetch' = fetch /\ \A k \in 1..n : window'[k] = window[k + 1]
    <3>1. /\ Len(window') = Len(window) - 1 /\ fetch' = fetch
          /\ \A k \in 1..Len(window') : window'[k] = window[k + 1]
      BY <1>7, RetirePlaces
    <3>2. PICK w \in Seq(Entry) : w = window BY DEF TypeOK
    <3>3. PICK v \in Seq(Entry) : v = window' BY <1>5 DEF TypeOK
    <3>4. n \in Nat /\ Len(w) = n + 1 BY <2>0, <3>1, <3>2, <3>3
    <3>5. DOMAIN w = 1..(n + 1) /\ DOMAIN v = 1..n BY <2>0, <3>3, <3>4
    <3> QED BY <2>0, <3>1, <3>2, <3>3, <3>4, <3>5
  <2>2. Places' = 1..(n + 1) /\ Places = 1..(n + 2) BY <2>0, <2>1 DEF Places
  <2>3. \A k \in 1..(n + 1) : At(k)' = At(k + 1)
    <3> SUFFICES ASSUME NEW k \in 1..(n + 1) PROVE At(k)' = At(k + 1) OBVIOUS
    <3>1. CASE k \in 1..n
      <4>1. At(k)' = window'[k] /\ window'[k] = window[k + 1] BY <2>1, <3>1 DEF At
      <4>2. k + 1 \in DOMAIN window BY <2>1, <3>1
      <4> QED BY <4>1, <4>2 DEF At
    <3>2. CASE k = n + 1
      <4>1. k \notin DOMAIN window' /\ k + 1 \notin DOMAIN window BY <2>1, <3>2
      <4> QED BY <2>1, <4>1 DEF At
    <3> QED BY <2>1, <3>1, <3>2
  <2>4. \A k \in 1..(n + 1) : Rank(At(k))' = Rank(At(k + 1)) BY <2>3
  <2>5. Path'
    <3> SUFFICES ASSUME NEW k \in 1..n
                 PROVE LET d == window'[k] p == After(d.call, d.step, d.found) IN
                       /\ At(k + 1)'.call = p.call /\ At(k + 1)'.step = p.step
                       /\ d.step # "poll" => d.found
      BY <2>1 DEF Path
    <3>1. k + 1 \in 1..(n + 1) /\ k + 1 \in DOMAIN window BY <2>1
    <3>2. At(k + 1)' = At((k + 1) + 1) BY <2>3, <3>1
    <3> QED BY <2>1, <3>1, <3>2 DEF Path
  <2>6. Monotone'
    <3> SUFFICES ASSUME NEW i \in 1..(n + 1), NEW j \in 1..(n + 1), i <= j
                 PROVE Rank(At(i))' <= Rank(At(j))'
      BY <2>2 DEF Monotone
    <3>1. i + 1 \in Places /\ j + 1 \in Places /\ i + 1 <= j + 1 BY <2>1, <2>2
    <3> QED BY <2>4, <3>1 DEF Monotone
  <2>7. NoGaps'
    <3> SUFFICES ASSUME NEW k \in 1..(n + 1), NEW r \in Rank(At(1))'..Rank(At(k))'
                 PROVE \E j \in 1..k : Rank(At(j))' = r
      BY <2>2 DEF NoGaps
    <3>1. 1 \in Places /\ 2 \in Places /\ k + 1 \in Places /\ 1 \in 1..(n + 1) BY <2>1, <2>2
    <3>2. Rank(At(1))' = Rank(At(2)) /\ Rank(At(k))' = Rank(At(k + 1))
      <4>1. Rank(At(1))' = Rank(At(1 + 1)) BY <2>4, <3>1
      <4> QED BY <2>4, <4>1
    <3>3. Rank(At(1)) \in Int /\ Rank(At(2)) \in Int /\ Rank(At(k + 1)) \in Int
      BY <3>1, PlaceFacts
    <3>4. Rank(At(1)) <= Rank(At(2)) BY <3>1 DEF Monotone
    <3>5. r \in Int /\ Rank(At(2)) <= r /\ r \in Rank(At(1))..Rank(At(k + 1)) BY <3>2, <3>3, <3>4
    <3>6. PICK j \in 1..(k + 1) : Rank(At(j)) = r BY <3>1, <3>5 DEF NoGaps
    <3>7. CASE j = 1
      <4>1. r = Rank(At(1))' BY <3>2, <3>3, <3>4, <3>5, <3>6, <3>7
      <4> QED BY <2>1, <4>1
    <3>8. CASE j # 1
      <4>1. j - 1 \in 1..k /\ j - 1 \in 1..(n + 1) /\ (j - 1) + 1 = j BY <2>1, <3>6, <3>8
      <4>2. Rank(At(j - 1))' = Rank(At((j - 1) + 1)) BY <2>4, <4>1
      <4>3. Rank(At(j - 1))' = r BY <3>6, <4>1, <4>2
      <4> QED BY <4>1, <4>3
    <3> QED BY <3>7, <3>8
  <2>8. Ordered'
    <3> SUFFICES ASSUME NEW i \in 1..n, NEW j \in 1..n, i < j, window'[j].issued, ~window'[i].issued
                 PROVE IsLoad(window'[i]) /\ IsLoad(window'[j])
      BY <2>1 DEF Ordered, IsLoad
    <3>1. i + 1 \in DOMAIN window /\ j + 1 \in DOMAIN window /\ i + 1 < j + 1 BY <2>1
    <3> QED BY <2>1, <3>1 DEF Ordered
  <2>9. StoreVals'
    <3> SUFFICES ASSUME NEW k \in 1..n, window'[k].issued, ~IsLoad(window'[k])
                 PROVE window'[k].val = Data(window'[k].call, window'[k].step)
      BY <2>1 DEF StoreVals, IsLoad
    <3>1. k + 1 \in DOMAIN window /\ window'[k] = window[k + 1] BY <2>1
    <3> QED BY <3>1 DEF StoreVals
  <2>10. Polls'
    <3> SUFFICES ASSUME NEW k \in 1..n, window'[k].step = "poll", window'[k].issued, window'[k].val # 0
                 PROVE /\ window'[k].call = At(1)'.call /\ At(1)'.step = "poll" /\ words'["fromhost"] # 0
      BY <2>1 DEF Polls
    <3>1. k + 1 \in DOMAIN window /\ window'[k] = window[k + 1] BY <2>1
    <3>2. window[k + 1].call = e.call /\ e.step = "poll" /\ words["fromhost"] # 0
      BY <1>3, <3>1 DEF Polls
    <3>3. words' = words BY <1>2, <3>2, RetireStage DEF IsLoad
    <3>4. At(1)'.call = e.call /\ At(1)'.step = IF g THEN "ack" ELSE "poll" BY <1>4, <3>2 DEF After
    <3>5. ~g
      <4>1. k + 1 \in Places /\ 2 \in Places /\ 2 <= k + 1 /\ 1 \in 1..(n + 1) BY <2>1, <2>2
      <4>2. At(2) = At(1)'
        <5>1. At(1)' = At(1 + 1) BY <2>3, <4>1
        <5> QED BY <5>1
      <4>3. Rank(At(2)) <= Rank(At(k + 1)) BY <4>1 DEF Monotone
      <4>4. e.call \in Int BY <1>3, LenNat
      <4>5. Rank(At(k + 1)) = 6 * e.call + 3
        <5>1. At(k + 1) = window[k + 1] /\ window[k + 1].step = "poll" BY <3>1, EntryFacts
        <5> QED BY <3>2, <4>4, <5>1, RankOf
      <4>6. g => Rank(At(2)) = 6 * e.call + 4 BY <3>4, <4>2, <4>4, RankOf
      <4> QED BY <4>3, <4>4, <4>5, <4>6
    <3> QED BY <3>1, <3>2, <3>3, <3>4, <3>5
  <2>11. Results'
    <3> SUFFICES ASSUME NEW k \in 1..n, window'[k].step = "result", window'[k].issued, Known(k)'
                 PROVE window'[k].val = AnswerTo(window'[k].call)
      BY <2>1 DEF Results, AnswerTo
    <3>1. k + 1 \in DOMAIN window /\ window'[k] = window[k + 1] BY <2>1
    <3>2. Known(k + 1)
      <4>1. CASE window'[k].call = At(1)'.call /\ At(1)'.step \in {"ack", "result"}
        <5>1. At(1)'.call = e.call /\ (\/ e.step = "poll" /\ g
                                      \/ e.step = "ack")
          BY <1>3, <1>4, <4>1 DEF After, Enter
        <5>2. 1 \in 1..((k + 1) - 1) BY <2>1
        <5> QED BY <1>2, <1>3, <1>4, <3>1, <4>1, <5>1, <5>2 DEF Known
      <4>2. CASE \E i \in 1..(k - 1) : /\ window'[i].step = "poll" /\ window'[i].call = window'[k].call
                                       /\ window'[i].issued /\ window'[i].val # 0
        <5>1. PICK i \in 1..(k - 1) : /\ window'[i].step = "poll" /\ window'[i].call = window'[k].call
                                      /\ window'[i].issued /\ window'[i].val # 0
          BY <4>2
        <5>2. window'[i] = window[i + 1] /\ i + 1 \in 1..((k + 1) - 1) BY <2>1
        <5> QED BY <3>1, <5>1, <5>2 DEF Known
      <4> QED BY <4>1, <4>2 DEF Known
    <3> QED BY <3>1, <3>2 DEF Results
  <2> QED BY <1>1, <1>5, <2>5, <2>6, <2>7, <2>8, <2>9, <2>10, <2>11
<1> QED BY <1>1, <1>6, <1>7

-----------------------------------------------------------------------------

\* Every call is carried out once, in program order, with its own arguments, and
\* returns its own answer (ExecLib.c:13 send_syscall, htif.cc:240 process_htio),
\* however the core predicts the polls and reorders the accesses.
THEOREM Refines == Spec => ImplementsRemoteCalls
<1>1. Init => IInv /\ Remote!Init
  BY Initially DEF Init, Remote!Init
<1>2. IInv /\ [Next]_vars => IInv' /\ Promised
  <2> SUFFICES ASSUME IInv, [Next]_vars PROVE IInv' /\ Promised OBVIOUS
  <2>1. CASE Fetch BY <2>1, FetchStep DEF Fetch, host, Promised
  <2>2. CASE Issue BY <2>2, IssueStep DEF Issue, host, Promised
  <2>3. CASE Retire BY <2>3, RetireStep
  <2>4. CASE HostIo BY <2>4, HostIoStep
  <2>5. CASE UNCHANGED vars
    <3>1. /\ UNCHANGED <<fetch, window>> /\ words' = words /\ fromhost_queue' = fromhost_queue
          /\ stopped' = stopped /\ served' = served /\ results' = results
      BY <2>5 DEF vars, core, host
    <3>2. At(1)' = At(1) /\ Path' /\ Monotone' /\ NoGaps' /\ Ordered' /\ StoreVals' /\ Results'
      BY <3>1, CoreStays
    <3>3. TypeOK' BY <3>1 DEF IInv, TypeOK
    <3>4. Polls' BY <3>1, <3>2 DEF IInv, Polls
    <3>5. Stage' BY <3>1, <3>2 DEF IInv, Stage, Quiet, Waiting, Answered
    <3>6. Promised BY <3>1 DEF Promised
    <3> QED BY <3>2, <3>3, <3>4, <3>5, <3>6 DEF IInv
  <2> QED BY <2>1, <2>2, <2>3, <2>4, <2>5 DEF Next
<1> QED BY <1>1, <1>2, PTL DEF Spec, ImplementsRemoteCalls, Remote!Spec, Promised
=============================================================================
