---------------------------- MODULE SessionProofs ----------------------------
(* A whole run of a simulator: the arguments (Arguments), the accesses to    *)
(* target memory (MemIf), the loader (Loader) and the conversation through   *)
(* tohost and fromhost (Session).                                            *)
EXTENDS Session, FiniteSetTheorems, SequenceTheorems, WellFoundedInduction, TLAPS

-----------------------------------------------------------------------------
(* MemIf.  Whatever the sizes of chunks, borders and buckets, a call of      *)
(* memif_t is the flat copy it promises to be.                               *)

\* n bytes.
DataOf(n) == [Span(0, n) -> BYTE]

MemTypeOK ==
  /\ align \in ALIGNS /\ mem \in [Address -> BYTE] /\ before \in [Address -> BYTE]
  /\ stage \in {"idle", "head", "tail", "body"} /\ call \in Calls /\ thrown \in BOOLEAN
  /\ addr \in Nat /\ off \in Nat /\ len \in Nat /\ pos \in Nat /\ left \in Nat
  /\ out \in DataOf(call.len)

\* Where the loops are in the call.
MemPlace ==
  /\ stage # "idle" => addr = call.addr + off /\ off + len <= call.len /\ pos <= len /\ left <= len - pos
  /\ stage = "head" => off = 0 /\ len = call.len /\ pos = 0 /\ left = 0 /\ ~thrown
  /\ stage = "tail" => off + len = call.len /\ pos = 0 /\ left = 0 /\ ~thrown
  /\ stage = "body" => ~thrown

\* The bytes of the call that are done: those from its front, and those behind
\* the last chunk border.
Done(i) ==
  CASE stage = "head" -> FALSE
    [] stage = "tail" -> i < off
    [] stage = "body" -> i < off + pos \/ i >= off + len
    [] OTHER          -> ~thrown

\* Memory is that before the call, with its bytes that are done.
Copied ==
  /\ \A x \in Address :
       mem[x] = IF call.wr /\ x \in Span(call.addr, call.len) /\ Done(x - call.addr)
                THEN call.data[x - call.addr] ELSE before[x]
  /\ ~call.wr => \A i \in Span(0, call.len) : Done(i) => out[i] = before[call.addr + i]

\* The invariant of memory.
MemInv == MemTypeOK /\ MemPlace /\ Copied

-----------------------------------------------------------------------------
\* What a call is made of.
LEMMA CallFacts ==
  ASSUME NEW c \in Calls
  PROVE  /\ c.wr \in BOOLEAN /\ c.word \in BOOLEAN /\ c.len \in Nat /\ c.addr \in Nat
         /\ c.addr + c.len <= SPACE /\ c.data \in DataOf(c.len)
<1>1. PICK n \in 0..SPACE :
        c \in [wr : BOOLEAN, word : IF n > 0 THEN BOOLEAN ELSE {FALSE}, addr : 0..(SPACE - n), len : {n},
              data : [Span(0, n) -> BYTE]]
  BY DEF Calls
<1>2. c.len = n /\ c.data \in [Span(0, n) -> BYTE] /\ c.addr \in 0..(SPACE - n)
  BY <1>1
<1>3. c.wr \in BOOLEAN /\ c.word \in BOOLEAN BY <1>1
<1> QED BY <1>2, <1>3, MemIfAssumption DEF DataOf

\* Before the first call memory is zero.
LEMMA MemInitially == MemInit => MemInv
<1> SUFFICES ASSUME MemInit PROVE MemInv OBVIOUS
<1>1. call \in Calls
  <2> DEFINE d == [i \in Span(0, 0) |-> 0]
  <2>1. d \in [Span(0, 0) -> BYTE] BY MemIfAssumption
  <2>2. call \in [wr : BOOLEAN, word : IF 0 > 0 THEN BOOLEAN ELSE {FALSE}, addr : 0..(SPACE - 0), len : {0},
                  data : [Span(0, 0) -> BYTE]]
    BY <2>1, MemIfAssumption DEF MemInit, NoCall
  <2>3. 0 \in 0..SPACE BY MemIfAssumption
  <2> QED BY <2>2, <2>3 DEF Calls
<1>2. MemTypeOK BY <1>1, MemIfAssumption DEF MemInit, NoCall, MemTypeOK, DataOf
<1>3. MemPlace BY DEF MemInit, NoCall, MemPlace
<1>4. Copied BY DEF MemInit, NoCall, Copied, Span, Address
<1> QED BY <1>2, <1>3, <1>4 DEF MemInv

-----------------------------------------------------------------------------
(* One step of a call.                                                       *)

\* A call begins with nothing done.
LEMMA CallStep ==
  ASSUME MemInv, NEW c \in Calls, Call(c)
  PROVE  MemInv'
<1>1. /\ c.wr \in BOOLEAN /\ c.len \in Nat /\ c.addr \in Nat
      /\ c.addr + c.len <= SPACE /\ c.data \in DataOf(c.len)
  BY CallFacts
<1>2. [i \in Span(0, c.len) |-> 0] \in DataOf(c.len)
  BY MemIfAssumption DEF DataOf
<1>3. thrown' \in BOOLEAN /\ ((stage' = "idle" /\ thrown') \/ (stage' = "head" /\ ~thrown'))
  BY <1>1 DEF Call
<1>4. MemTypeOK' BY <1>1, <1>2, <1>3 DEF MemInv, MemTypeOK, Call
<1>5. MemPlace' BY <1>1, <1>3 DEF MemPlace, Call
<1>6. Copied' BY <1>1, <1>3 DEF MemInv, MemTypeOK, Copied, Done, Call
<1> QED BY <1>4, <1>5, <1>6 DEF MemInv

\* The bytes up to the first chunk border.
LEMMA HeadStep ==
  ASSUME MemInv, HeadBlock
  PROVE  MemInv'
<1> DEFINE n == smaller(len, align - (addr % align))
           base == addr - (addr % align)
<1>1. /\ call.wr \in BOOLEAN /\ call.len \in Nat /\ call.addr \in Nat
      /\ call.addr + call.len <= SPACE /\ call.data \in DataOf(call.len)
  BY CallFacts DEF MemInv, MemTypeOK
<1>2. /\ stage = "head" /\ stage' = "tail" /\ addr = call.addr /\ len = call.len
      /\ off = 0 /\ pos = 0 /\ left = 0 /\ ~thrown
      /\ align \in Nat \ {0} /\ addr % align \in 0..(align - 1)
  BY <1>1, MemIfAssumption DEF MemInv, MemTypeOK, MemPlace, HeadBlock
<1>3. UNCHANGED <<align, call, pos, left, thrown, before>> BY DEF HeadBlock
<1>4. CASE ~(len # 0 /\ addr % align # 0)
  <2>1. UNCHANGED <<mem, out, addr, off, len>> BY <1>4 DEF HeadBlock
  <2>2. MemTypeOK' BY <2>1, <1>2, <1>3 DEF MemInv, MemTypeOK
  <2>3. MemPlace' BY <2>1, <1>1, <1>2, <1>3 DEF MemInv, MemPlace
  <2>4. Copied' BY <2>1, <1>1, <1>2, <1>3 DEF MemInv, Copied, Done, Span
  <2> QED BY <2>2, <2>3, <2>4 DEF MemInv
<1>5. CASE len # 0 /\ addr % align # 0
  <2>1. /\ n \in Nat \ {0} /\ n <= len /\ base \in Int /\ base <= addr
        /\ addr + n <= base + align
        /\ addr' = addr + n /\ off' = off + n /\ len' = len - n
    BY <1>1, <1>2, <1>5 DEF HeadBlock, smaller
  <2>5. Partial(base, addr, off, n) BY <1>5 DEF HeadBlock
  <2> HIDE DEF n, base
  <2>2. MemPlace' BY <2>1, <1>1, <1>2, <1>3 DEF MemPlace
  <2>3. CASE call.wr
    <3> DEFINE chunk == [k \in Span(0, align) |-> IF base + k \in Span(addr, n)
                                        THEN call.data[off + base + k - addr] ELSE mem[base + k]]
    <3>1. mem' = Put(Span(base, align), base, chunk) /\ out' = out
      BY <2>5, <2>3 DEF Partial
    <3>2. \A x \in Span(base, align) :
            chunk[x - base] = IF x \in Span(addr, n) THEN call.data[x - addr] ELSE mem[x]
      <4> TAKE x \in Span(base, align)
      <4>1. /\ x - base \in Span(0, align) /\ base + (x - base) = x
            /\ off + base + (x - base) - addr = x - addr
        BY <2>1, <1>1, <1>2 DEF Span
      <4> QED BY <4>1
    <3> HIDE DEF chunk
    <3>3. \A x \in Address :
            mem'[x] = IF x \in Span(addr, n) THEN call.data[x - addr] ELSE mem[x]
      <4> TAKE x \in Address
      <4>1. mem'[x] = IF x \in Span(base, align) THEN chunk[x - base] ELSE mem[x]
        BY <3>1 DEF Put
      <4>2. x \in Span(addr, n) => x \in Span(base, align)
        BY <2>1, <1>1, <1>2 DEF Span, Address
      <4> QED BY <3>2, <4>1, <4>2
    <3>4. \A x \in Span(addr, n) : call.data[x - addr] \in BYTE
      <4> TAKE x \in Span(addr, n)
      <4>1. x - addr \in Span(0, call.len) BY <2>1, <1>1, <1>2 DEF Span
      <4> QED BY <4>1, <1>1 DEF DataOf
    <3>5. mem' \in [Address -> BYTE]
      <4>1. \A x \in Address : mem'[x] \in BYTE BY <3>3, <3>4 DEF MemInv, MemTypeOK
      <4> QED BY <4>1, <3>1 DEF Put
    <3>6. MemTypeOK' BY <3>1, <3>5, <2>1, <1>1, <1>2, <1>3 DEF MemInv, MemTypeOK
    <3>7. Copied' BY <3>3, <2>1, <2>3, <1>1, <1>2, <1>3 DEF MemInv, Copied, Done, Span, Address
    <3> QED BY <3>6, <3>7, <2>2 DEF MemInv
  <2>4. CASE ~call.wr
    <3>1. mem' = mem /\ out' = Get(Span(addr, n), addr, off) BY <2>5, <2>4 DEF Partial
    <3>2. \A i \in Span(0, call.len) :
            mem[addr + i] = before[call.addr + i] /\ mem[addr + i] \in BYTE
      <4> TAKE i \in Span(0, call.len)
      <4>1. addr + i \in Address BY <1>1, <1>2, MemIfAssumption DEF Span, Address
      <4> QED BY <4>1, <2>4, <1>1, <1>2 DEF MemInv, MemTypeOK, Copied
    <3>3. DOMAIN out = Span(0, call.len) BY DEF MemInv, MemTypeOK, DataOf
    <3>4. \A i \in Span(0, call.len) : out'[i] = IF i < n THEN mem[addr + i] ELSE out[i]
      <4> TAKE i \in Span(0, call.len)
      <4>1. addr + i - off = addr + i /\ (addr + i \in Span(addr, n) <=> i < n)
        BY <2>1, <1>1, <1>2 DEF Span
      <4> QED BY <4>1, <3>1, <3>3 DEF Get
    <3>5. out' \in DataOf(call.len)
      <4>1. \A i \in Span(0, call.len) : out'[i] \in BYTE
        BY <3>2, <3>4 DEF MemInv, MemTypeOK, DataOf
      <4> QED BY <4>1, <3>1, <3>3 DEF Get, DataOf
    <3>6. MemTypeOK' BY <3>1, <3>5, <2>1, <1>1, <1>2, <1>3 DEF MemInv, MemTypeOK
    <3>7. \A i \in Span(0, call.len) : Done(i)' => out'[i] = before[call.addr + i]
      BY <3>2, <3>4, <2>1, <1>1, <1>2, <1>3 DEF Done
    <3>8. \A x \in Address : mem'[x] = before[x]
      BY <3>1, <2>4 DEF MemInv, Copied
    <3>9. Copied' BY <3>7, <3>8, <2>4, <1>3 DEF Copied
    <3> QED BY <3>6, <3>9, <2>2 DEF MemInv
  <2> QED BY <2>3, <2>4, <1>1
<1> QED BY <1>4, <1>5

\* The bytes behind the last chunk border.
LEMMA TailStep ==
  ASSUME MemInv, TailBlock
  PROVE  MemInv'
<1> DEFINE n == len % align
           base == addr + len - n
           o == off + len - n
<1>1. /\ call.wr \in BOOLEAN /\ call.len \in Nat /\ call.addr \in Nat
      /\ call.addr + call.len <= SPACE /\ call.data \in DataOf(call.len)
  BY CallFacts DEF MemInv, MemTypeOK
<1>2. /\ stage = "tail" /\ stage' = "body" /\ addr = call.addr + off /\ off + len = call.len
      /\ pos = 0 /\ left = 0 /\ ~thrown /\ addr \in Nat /\ off \in Nat /\ len \in Nat
      /\ align \in Nat \ {0} /\ n \in 0..(align - 1)
  BY <1>1, MemIfAssumption DEF MemInv, MemTypeOK, MemPlace, TailBlock
<1>3. UNCHANGED <<align, call, addr, off, pos, left, thrown, before>> BY DEF TailBlock
<1>4. CASE n = 0
  <2>1. UNCHANGED <<mem, out, len>> BY <1>4 DEF TailBlock
  <2>2. MemTypeOK' BY <2>1, <1>2, <1>3 DEF MemInv, MemTypeOK
  <2>3. MemPlace' BY <2>1, <1>1, <1>2, <1>3 DEF MemPlace
  <2>4. Copied' BY <2>1, <1>1, <1>2, <1>3 DEF MemInv, Copied, Done, Span
  <2> QED BY <2>2, <2>3, <2>4 DEF MemInv
<1>5. CASE n # 0
  <2>0. Partial(base, base, o, n) /\ len' = len - n BY <1>5 DEF TailBlock
  <2>9. n <= len BY <1>2
  <2>1. /\ n \in Nat \ {0} /\ n <= len /\ n <= align /\ base \in Nat /\ o \in Nat
        /\ base = call.addr + o /\ o + n = call.len /\ len' = len - n /\ len' \in Nat
        /\ o = off + len'
    BY <1>1, <1>2, <1>5, <2>9, <2>0
  <2> HIDE DEF n, base, o
  <2>2. MemPlace' BY <2>1, <1>1, <1>2, <1>3 DEF MemPlace
  <2>3. CASE call.wr
    <3> DEFINE chunk == [k \in Span(0, align) |-> IF base + k \in Span(base, n)
                                        THEN call.data[o + base + k - base] ELSE mem[base + k]]
    <3>1. mem' = Put(Span(base, align), base, chunk) /\ out' = out
      BY <2>0, <2>3 DEF Partial
    <3>2. \A x \in Span(base, align) :
            chunk[x - base] = IF x \in Span(base, n) THEN call.data[x - call.addr] ELSE mem[x]
      <4> TAKE x \in Span(base, align)
      <4>1. /\ x - base \in Span(0, align) /\ base + (x - base) = x
            /\ o + base + (x - base) - base = x - call.addr
        BY <2>1, <1>1, <1>2 DEF Span
      <4> QED BY <4>1
    <3> HIDE DEF chunk
    <3>3. \A x \in Address :
            mem'[x] = IF x \in Span(base, n) THEN call.data[x - call.addr] ELSE mem[x]
      BY <3>1, <3>2, <2>1, <1>1, <1>2 DEF Put, Span, Address
    <3>4. \A x \in Span(base, n) : call.data[x - call.addr] \in BYTE
      <4> TAKE x \in Span(base, n)
      <4>1. x - call.addr \in Span(0, call.len) BY <2>1, <1>1, <1>2 DEF Span
      <4> QED BY <4>1, <1>1 DEF DataOf
    <3>5. mem' \in [Address -> BYTE]
      <4>1. \A x \in Address : mem'[x] \in BYTE BY <3>3, <3>4 DEF MemInv, MemTypeOK
      <4> QED BY <4>1, <3>1 DEF Put
    <3>6. MemTypeOK' BY <3>1, <3>5, <2>1, <1>1, <1>2, <1>3 DEF MemInv, MemTypeOK
    <3>7. Copied' BY <3>3, <2>1, <2>3, <1>1, <1>2, <1>3 DEF MemInv, Copied, Done, Span, Address
    <3> QED BY <3>6, <3>7, <2>2 DEF MemInv
  <2>4. CASE ~call.wr
    <3>1. mem' = mem /\ out' = Get(Span(base, n), base, o) BY <2>0, <2>4 DEF Partial
    <3>2. \A i \in Span(0, call.len) :
            mem[call.addr + i] = before[call.addr + i] /\ mem[call.addr + i] \in BYTE
      <4> TAKE i \in Span(0, call.len)
      <4>1. call.addr + i \in Address BY <1>1, <1>2, MemIfAssumption DEF Span, Address
      <4> QED BY <4>1, <2>4, <1>1, <1>2 DEF MemInv, MemTypeOK, Copied
    <3>3. DOMAIN out = Span(0, call.len) BY DEF MemInv, MemTypeOK, DataOf
    <3>4. \A i \in Span(0, call.len) : out'[i] = IF i >= o THEN mem[call.addr + i] ELSE out[i]
      <4> TAKE i \in Span(0, call.len)
      <4>1. base + i - o = call.addr + i /\ (call.addr + i \in Span(base, n) <=> i >= o)
        BY <2>1, <1>1, <1>2 DEF Span
      <4> QED BY <4>1, <3>1, <3>3 DEF Get
    <3>5. out' \in DataOf(call.len)
      <4>1. \A i \in Span(0, call.len) : out'[i] \in BYTE
        BY <3>2, <3>4 DEF MemInv, MemTypeOK, DataOf
      <4> QED BY <4>1, <3>1, <3>3 DEF Get, DataOf
    <3>6. MemTypeOK' BY <3>1, <3>5, <2>1, <1>1, <1>2, <1>3 DEF MemInv, MemTypeOK
    <3>7. \A i \in Span(0, call.len) : Done(i)' => out'[i] = before[call.addr + i]
      BY <3>2, <3>4, <2>1, <2>4, <1>1, <1>2, <1>3 DEF MemInv, Copied, Done, Span
    <3>8. \A x \in Address : mem'[x] = before[x]
      BY <3>1, <2>4 DEF MemInv, Copied
    <3>9. Copied' BY <3>7, <3>8, <2>4, <1>3 DEF Copied
    <3> QED BY <3>6, <3>9, <2>2 DEF MemInv
  <2> QED BY <2>3, <2>4, <1>1
<1> QED BY <1>2, <1>4, <1>5

\* A piece of a chunk: it ends at the end of its bucket.
LEMMA BodyStep ==
  ASSUME MemInv, BodyBlock
  PROVE  MemInv'
<1> DEFINE chunk == IF left = 0 THEN smaller(CHUNK, len - pos) ELSE left
           a == addr + pos
           n == piece(a, chunk)
           o == off + pos
<1>1. /\ call.wr \in BOOLEAN /\ call.len \in Nat /\ call.addr \in Nat
      /\ call.addr + call.len <= SPACE /\ call.data \in DataOf(call.len)
  BY CallFacts DEF MemInv, MemTypeOK
<1>2. /\ stage = "body" /\ stage' = "body" /\ addr = call.addr + off /\ off + len <= call.len
      /\ pos < len /\ left <= len - pos /\ ~thrown /\ addr \in Nat /\ off \in Nat /\ len \in Nat
      /\ pos \in Nat /\ left \in Nat
  BY <1>1 DEF MemInv, MemTypeOK, MemPlace, BodyBlock
<1>3. UNCHANGED <<align, call, addr, off, len, thrown, before>> BY DEF BodyBlock
<1>4. chunk \in Nat /\ chunk <= len - pos BY <1>2, MemIfAssumption DEF smaller
<1>5. a \in Nat /\ a % BUCKET \in 0..(BUCKET - 1) BY <1>2, MemIfAssumption
<1>6. pos' = pos + n /\ left' = chunk - n BY DEF BodyBlock
<1> HIDE DEF chunk
<1>7. n \in Nat /\ n <= chunk /\ n <= BUCKET - (a % BUCKET)
  BY <1>4, <1>5, MemIfAssumption DEF piece, smaller
<1> HIDE DEF n
<1>8. InBucket(a, n) = Span(a, n) BY <1>5, <1>7, MemIfAssumption DEF InBucket, Span
<1>9. a = call.addr + o /\ o \in Nat /\ o + n <= off + len /\ pos' \in Nat /\ left' \in Nat
  BY <1>1, <1>2, <1>4, <1>6, <1>7
<1>10. MemPlace' BY <1>1, <1>2, <1>3, <1>4, <1>6, <1>7 DEF MemPlace
<1>11. CASE call.wr
  <2> DEFINE f == [j \in Span(0, n) |-> IF all_zero THEN 0 ELSE call.data[off + pos + j]]
  <2>1. mem' = Put(InBucket(a, n), a, f) /\ out' = out
    BY <1>11 DEF BodyBlock, chunk, n
  <2>2. \A x \in Span(a, n) : f[x - a] = call.data[x - call.addr]
    <3> TAKE x \in Span(a, n)
    <3>1. x - a \in Span(0, n) /\ off + pos + (x - a) = x - call.addr /\ x - call.addr \in Span(off, len)
      BY <1>1, <1>2, <1>7, <1>9 DEF Span
    <3>2. f[x - a] = IF all_zero THEN 0 ELSE call.data[x - call.addr] BY <3>1
    <3>3. all_zero => call.data[x - call.addr] = 0 BY <3>1 DEF all_zero
    <3> QED BY <3>2, <3>3
  <2> HIDE DEF f
  <2>3. \A x \in Address :
          mem'[x] = IF x \in Span(a, n) THEN call.data[x - call.addr] ELSE mem[x]
    BY <2>1, <2>2, <1>8 DEF Put
  <2>4. \A x \in Span(a, n) : call.data[x - call.addr] \in BYTE
    <3> TAKE x \in Span(a, n)
    <3>1. x - call.addr \in Span(0, call.len) BY <1>1, <1>2, <1>7, <1>9 DEF Span
    <3> QED BY <3>1, <1>1 DEF DataOf
  <2>5. mem' \in [Address -> BYTE]
    <3>1. \A x \in Address : mem'[x] \in BYTE BY <2>3, <2>4 DEF MemInv, MemTypeOK
    <3> QED BY <3>1, <2>1 DEF Put
  <2>6. MemTypeOK' BY <2>1, <2>5, <1>2, <1>3, <1>9 DEF MemInv, MemTypeOK
  <2> HIDE DEF a
  <2>7. Copied'
    BY <2>3, <1>11, <1>1, <1>2, <1>3, <1>6, <1>7, <1>9 DEF MemInv, Copied, Done, Span, Address
  <2> QED BY <2>6, <2>7, <1>10 DEF MemInv
<1>12. CASE ~call.wr
  <2>1. mem' = mem /\ out' = Get(InBucket(a, n), a, o) BY <1>12 DEF BodyBlock, chunk, n
  <2>2. \A i \in Span(0, call.len) :
          mem[call.addr + i] = before[call.addr + i] /\ mem[call.addr + i] \in BYTE
    <3> TAKE i \in Span(0, call.len)
    <3>1. call.addr + i \in Address BY <1>1, <1>2, MemIfAssumption DEF Span, Address
    <3> QED BY <3>1, <1>12, <1>1, <1>2 DEF MemInv, MemTypeOK, Copied
  <2>3. DOMAIN out = Span(0, call.len) BY DEF MemInv, MemTypeOK, DataOf
  <2> HIDE DEF a, o
  <2>4. \A i \in Span(0, call.len) :
          out'[i] = IF i \in Span(o, n) THEN mem[call.addr + i] ELSE out[i]
    <3> TAKE i \in Span(0, call.len)
    <3>1. a + i - o = call.addr + i /\ (call.addr + i \in Span(a, n) <=> i \in Span(o, n))
      BY <1>1, <1>7, <1>9 DEF Span
    <3> QED BY <3>1, <2>1, <2>3, <1>8 DEF Get
  <2>5. out' \in DataOf(call.len)
    <3>1. \A i \in Span(0, call.len) : out'[i] \in BYTE
      BY <2>2, <2>4 DEF MemInv, MemTypeOK, DataOf
    <3> QED BY <3>1, <2>1, <2>3 DEF Get, DataOf
  <2>6. MemTypeOK' BY <2>1, <2>5, <1>2, <1>3, <1>9 DEF MemInv, MemTypeOK
  <2>7. \A i \in Span(0, call.len) : Done(i)' => out'[i] = before[call.addr + i]
    BY <2>2, <2>4, <1>12, <1>1, <1>2, <1>3, <1>6, <1>7, <1>9 DEF MemInv, Copied, Done, Span, o
  <2>8. \A x \in Address : mem'[x] = before[x] BY <2>1, <1>12 DEF MemInv, Copied
  <2>9. Copied' BY <2>7, <2>8, <1>12, <1>3 DEF Copied
  <2> QED BY <2>6, <2>9, <1>10 DEF MemInv
<1> QED BY <1>11, <1>12, <1>1

\* When the loop is over, every byte is done.
LEMMA FinishStep ==
  ASSUME MemInv, Finish
  PROVE  MemInv'
<1>1. call.len \in Nat /\ call.addr \in Nat BY CallFacts DEF MemInv, MemTypeOK
<1>2. /\ stage = "body" /\ stage' = "idle" /\ pos = len /\ ~thrown
      /\ UNCHANGED <<align, mem, call, addr, off, len, pos, left, out, thrown, before>>
  BY DEF Finish, MemInv, MemTypeOK, MemPlace
<1>3. \A i \in Span(0, call.len) : Done(i) BY <1>1, <1>2 DEF MemInv, MemTypeOK, Done, Span
<1>4. MemTypeOK' /\ MemPlace' BY <1>2 DEF MemInv, MemTypeOK, MemPlace
<1>5. Copied'
  <2>1. \A x \in Span(call.addr, call.len) : x - call.addr \in Span(0, call.len)
    BY <1>1 DEF Span
  <2>2. \A i : Done(i)' BY <1>2 DEF Done
  <2> QED BY <1>2, <1>3, <2>1, <2>2 DEF MemInv, Copied
<1> QED BY <1>4, <1>5 DEF MemInv

-----------------------------------------------------------------------------
\* Every step keeps the invariant of memory.
LEMMA Inductive == MemInv /\ [MemNext]_memifVars => MemInv'
<1> SUFFICES ASSUME MemInv, [MemNext]_memifVars PROVE MemInv' OBVIOUS
<1>1. CASE HeadBlock BY <1>1, HeadStep
<1>2. CASE TailBlock BY <1>2, TailStep
<1>3. CASE BodyBlock BY <1>3, BodyStep
<1>4. CASE Finish BY <1>4, FinishStep
<1>5. ASSUME NEW c \in Calls, Call(c) PROVE MemInv' BY <1>5, CallStep
<1>6. CASE UNCHANGED memifVars
  BY <1>6 DEF memifVars, MemInv, MemTypeOK, MemPlace, Copied, Done
<1> QED BY <1>1, <1>2, <1>3, <1>4, <1>5, <1>6 DEF MemNext, MemStep

\* Which says that an access that is over is exact.
LEMMA Exact == MemInv => MemoryExact
<1> SUFFICES ASSUME MemInv, stage = "idle" PROVE MemoryExact BY DEF MemoryExact
<1> DEFINE done(x) == ~thrown /\ call.wr /\ x \in Span(call.addr, call.len)
<1>1. \A x \in Address : mem[x] = IF done(x) THEN call.data[x - call.addr] ELSE before[x]
  BY DEF MemInv, Copied, Done
<1>2. mem = [x \in Address |-> IF done(x) THEN call.data[x - call.addr] ELSE before[x]]
  BY <1>1 DEF MemInv, MemTypeOK
<1>3. ~thrown /\ ~call.wr => out = [i \in Span(0, call.len) |-> before[call.addr + i]]
  <2> SUFFICES ASSUME ~thrown, ~call.wr
               PROVE  out = [i \in Span(0, call.len) |-> before[call.addr + i]]
    OBVIOUS
  <2>1. \A i \in Span(0, call.len) : out[i] = before[call.addr + i] BY DEF MemInv, Copied, Done
  <2> QED BY <2>1 DEF MemInv, MemTypeOK, DataOf
<1> QED BY <1>2, <1>3 DEF MemoryExact

\* memif.cc and the buckets of sim_memory.cc together are a flat memory, for
\* every size of bucket, chunk and border and every call below SPACE.
THEOREM FlatMemory == MemSpec => []MemoryExact
<1>1. MemInit => MemInv BY MemInitially
<1>2. MemInv /\ [MemNext]_memifVars => MemInv' BY Inductive
<1>3. MemInv => MemoryExact BY Exact
<1> QED BY <1>1, <1>2, <1>3, PTL DEF MemSpec

-----------------------------------------------------------------------------
(* Arguments.                                                                *)

Token == [kind : Kinds, val : STRING]

\* The least of a set of numbers.
LEMMA Least ==
  ASSUME NEW T \in SUBSET Nat, T # {}
  PROVE  \E x \in T : \A y \in T : x <= y
<1>1. PICK R : R = OpToRel(<, Nat) OBVIOUS
<1>2. IsWellFoundedOn(R, Nat) BY <1>1, NatLessThanWellFounded
<1>3. PICK x \in T : \A y \in T : <<y, x>> \notin R BY <1>2, WFMin
<1>4. \A y \in T : ~(y < x) BY <1>1, <1>3 DEF OpToRel
<1> QED BY <1>3, <1>4

\* A solution of the recursion up to k.
Solution(f, k, V, x0, step) ==
  f \in [0..k -> V] /\ f[0] = x0 /\ \A i \in 1..k : f[i] = step[i][f[i - 1]]

\* A recursion over the first numbers has a solution.
LEMMA Recursion ==
  ASSUME NEW n \in Nat, NEW V, NEW x0 \in V, NEW step \in [1..n -> [V -> V]]
  PROVE  \E f : Solution(f, n, V, x0, step)
<1>0. PICK Failing : Failing = {k \in 0..n : ~\E f : Solution(f, k, V, x0, step)} OBVIOUS
<1>1. ASSUME NEW k \in Failing, \A l \in Failing : k <= l PROVE FALSE
  <2>1. k \in 0..n BY <1>0
  <2>2. CASE k = 0
    <3>1. PICK f : f = [i \in 0..0 |-> x0] OBVIOUS
    <3>2. Solution(f, 0, V, x0, step) BY <3>1 DEF Solution
    <3> QED BY <1>0, <2>2, <3>2
  <2>3. CASE k > 0
    <3>1. k - 1 \in 0..n /\ k - 1 \notin Failing BY <1>1, <2>1, <2>3
    <3>2. PICK g : Solution(g, k - 1, V, x0, step) BY <1>0, <3>1
    <3>3. PICK f : f = [i \in 0..k |-> IF i = k THEN step[k][g[k - 1]] ELSE g[i]] OBVIOUS
    <3>4. g \in [0..(k - 1) -> V] /\ k \in 1..n BY <2>1, <2>3, <3>2 DEF Solution
    <3>5. step[k] \in [V -> V] /\ g[k - 1] \in V BY <2>1, <3>4
    <3>6. step[k][g[k - 1]] \in V BY <3>5
    <3>7. f \in [0..k -> V]
      <4>1. \A i \in 0..k : i # k => i \in 0..(k - 1) BY <2>1
      <4> QED BY <3>3, <3>4, <3>6, <4>1
    <3>8. f[0] = x0 BY <2>1, <2>3, <3>2, <3>3 DEF Solution
    <3>9. ASSUME NEW i \in 1..k PROVE f[i] = step[i][f[i - 1]]
      <4>1. i - 1 \in 0..k /\ i - 1 # k BY <2>1
      <4>2. f[i - 1] = g[i - 1] BY <3>3, <4>1
      <4>3. CASE i = k BY <2>1, <3>3, <4>2, <4>3
      <4>4. CASE i # k
        <5>1. i \in 1..(k - 1) /\ i \in 0..k BY <2>1, <4>4
        <5>2. f[i] = g[i] BY <3>3, <4>4, <5>1
        <5>3. g[i] = step[i][g[i - 1]] BY <3>2, <5>1 DEF Solution
        <5> QED BY <4>2, <5>2, <5>3
      <4> QED BY <4>3, <4>4
    <3>10. Solution(f, k, V, x0, step) BY <3>7, <3>8, <3>9 DEF Solution
    <3> QED BY <3>10, <1>0
  <2> QED BY <2>1, <2>2, <2>3
<1>2. Failing = {}
  <2> SUFFICES ASSUME Failing # {} PROVE FALSE OBVIOUS
  <2>1. Failing \in SUBSET Nat BY <1>0
  <2>2. \E x \in Failing : \A y \in Failing : x <= y BY ONLY Failing # {}, <2>1, Least
  <2> QED BY ONLY <1>1, <2>2
<1> QED BY <1>0, <1>2

-----------------------------------------------------------------------------
\* What the recursion of IsValue says.
ValueStep(v, i) == v[i] <=> i > 1 /\ argv[i - 1].kind = "payload" /\ ~v[i - 1]
Values(v) == v \in [0..Len(argv) -> BOOLEAN] /\ \A i \in 0..Len(argv) : ValueStep(v, i)

\* IsValue is what its recursion says.
LEMMA IsValueIs == ASSUME argv \in Seq(Token) PROVE Values(IsValue)
<1>1. PICK n : n = Len(argv) OBVIOUS
<1>2. n \in Nat BY <1>1
<1>3. PICK step : step = [i \in 1..n |-> [b \in BOOLEAN |-> i > 1 /\ argv[i - 1].kind = "payload" /\ ~b]] OBVIOUS
<1>4. step \in [1..n -> [BOOLEAN -> BOOLEAN]] BY <1>3
<1>5. PICK f : Solution(f, n, BOOLEAN, FALSE, step)
  <2>1. FALSE \in BOOLEAN OBVIOUS
  <2> QED BY ONLY <1>2, <1>4, <2>1, Recursion
<1>6. f \in [0..n -> BOOLEAN] /\ ~f[0] BY <1>5 DEF Solution
<1>7. ASSUME NEW i \in 1..n PROVE f[i] = (i > 1 /\ argv[i - 1].kind = "payload" /\ ~f[i - 1])
  <2>1. i - 1 \in 0..n BY <1>2
  <2>2. f[i - 1] \in BOOLEAN BY <1>6, <2>1
  <2>3. f[i] = step[i][f[i - 1]] BY <1>5 DEF Solution
  <2> QED BY <1>3, <2>2, <2>3
<1>8. f = [i \in 0..Len(argv) |-> i > 1 /\ argv[i - 1].kind = "payload" /\ ~f[i - 1]]
  <2>1. ASSUME NEW i \in 0..n PROVE f[i] = (i > 1 /\ argv[i - 1].kind = "payload" /\ ~f[i - 1])
    <3>1. CASE i = 0 BY <3>1, <1>6
    <3>2. CASE i # 0
      <4>1. i \in 1..n BY <3>2, <1>2
      <4> QED BY <4>1, <1>7
    <3> QED BY <3>1, <3>2
  <2> QED BY <2>1, <1>6, <1>1
<1>9. IsValue = [i \in 0..Len(argv) |-> i > 1 /\ argv[i - 1].kind = "payload" /\ ~IsValue[i - 1]]
  BY <1>8 DEF IsValue
<1> DEFINE V == IsValue
<1> HIDE DEF V
<1>10. V = [i \in 0..Len(argv) |-> i > 1 /\ argv[i - 1].kind = "payload" /\ ~V[i - 1]] BY <1>9 DEF V
<1>11. V \in [0..Len(argv) -> BOOLEAN] BY <1>10
<1>12. \A i \in 0..Len(argv) : ValueStep(V, i) BY <1>10 DEF ValueStep
<1> QED BY <1>11, <1>12 DEF Values, V

ValueNext(v, i) == v[i + 1] <=> argv[i].kind = "payload" /\ ~v[i]

\* The value of an option is the next token.
LEMMA NextValue ==
  ASSUME argv \in Seq(Token), NEW v, Values(v), NEW i \in Nat, i >= 1, i + 1 \in 0..Len(argv)
  PROVE  ValueNext(v, i)
<1>1. PICK j \in Int : j = i + 1 OBVIOUS
<1>2. j > 1 /\ j - 1 = i /\ j \in 0..Len(argv) BY <1>1
<1>3. ValueStep(v, j) BY <1>2 DEF Values
<1>4. v[j] <=> argv[i].kind = "payload" /\ ~v[i] BY <1>2, <1>3 DEF ValueStep
<1> QED BY <1>1, <1>4 DEF ValueNext

GivenStep(g, i) == g[i] = IF IsValue[i] \/ argv[i].kind = "payload=" THEN Append(g[i - 1], argv[i].val)
                          ELSE g[i - 1]
Givens(g) == g[0] = <<>> /\ \A i \in 1..Len(argv) : GivenStep(g, i)
GivenNext(g, i) == g[i + 1] = IF IsValue[i + 1] \/ argv[i + 1].kind = "payload="
                              THEN Append(g[i], argv[i + 1].val) ELSE g[i]

\* The step of Given, from the last place.
LEMMA NextGiven ==
  ASSUME argv \in Seq(Token), NEW g, Givens(g), NEW i \in Nat, i + 1 \in 1..Len(argv)
  PROVE  GivenNext(g, i)
<1>1. PICK j \in Int : j = i + 1 OBVIOUS
<1>2. j - 1 = i /\ j \in 1..Len(argv) BY <1>1
<1>3. GivenStep(g, j) BY <1>2 DEF Givens
<1>4. g[j] = IF IsValue[j] \/ argv[j].kind = "payload=" THEN Append(g[i], argv[j].val) ELSE g[i]
  BY <1>2, <1>3 DEF GivenStep
<1> QED BY <1>1, <1>4 DEF GivenNext

\* Given is what its recursion says.
LEMMA GivenIs == ASSUME argv \in Seq(Token) PROVE Givens(Given)
<1>1. PICK n : n = Len(argv) OBVIOUS
<1>2. n \in Nat BY <1>1
<1>0. PICK V : V = Seq(STRING) OBVIOUS
<1>3. PICK step : step = [i \in 1..n |-> [s \in V |->
                IF IsValue[i] \/ argv[i].kind = "payload=" THEN Append(s, argv[i].val) ELSE s]] OBVIOUS
<1>4. step \in [1..n -> [V -> V]]
  <2>1. ASSUME NEW i \in 1..n, NEW s \in V PROVE Append(s, argv[i].val) \in V
    <3>1. argv[i] \in Token BY <1>1
    <3>2. argv[i].val \in STRING BY <3>1 DEF Token
    <3> QED BY <1>0, <3>2
  <2> QED BY <1>3, <2>1
<1>5. PICK f : Solution(f, n, V, <<>>, step)
  <2>1. <<>> \in V BY <1>0
  <2> QED BY ONLY <1>2, <1>4, <2>1, Recursion
<1>6. f \in [0..n -> V] /\ f[0] = <<>> BY <1>5 DEF Solution
<1> DEFINE E(g, i) == IF i = 0 THEN <<>>
                      ELSE IF IsValue[i] \/ argv[i].kind = "payload=" THEN Append(g[i - 1], argv[i].val)
                      ELSE g[i - 1]
<1>7. ASSUME NEW i \in 1..n PROVE f[i] = E(f, i)
  <2>1. i - 1 \in 0..n BY <1>2
  <2>2. f[i - 1] \in V BY <1>6, <2>1
  <2>3. f[i] = step[i][f[i - 1]] BY <1>5 DEF Solution
  <2> QED BY <1>3, <2>2, <2>3
<1>8. f = [i \in 0..Len(argv) |-> E(f, i)]
  <2>1. ASSUME NEW i \in 0..n PROVE f[i] = E(f, i)
    <3>1. CASE i = 0 BY <3>1, <1>6
    <3>2. CASE i # 0
      <4>1. i \in 1..n BY <3>2, <1>2
      <4> QED BY <4>1, <1>7
    <3> QED BY <3>1, <3>2
  <2> QED BY <2>1, <1>6, <1>1
<1>9. Given = [i \in 0..Len(argv) |-> E(Given, i)]
  BY <1>8 DEF Given
<1> DEFINE G == Given
<1> HIDE DEF G
<1>10. G = [i \in 0..Len(argv) |-> E(G, i)] BY <1>9 DEF G
<1>11. G[0] = <<>>
  <2>1. 0 \in 0..Len(argv) BY <1>1, <1>2
  <2> QED BY <1>10, <2>1
<1>12. \A i \in 1..Len(argv) : GivenStep(G, i)
  <2>1. \A i \in 1..Len(argv) : i \in 0..Len(argv) /\ i # 0 BY <1>1, <1>2
  <2> QED BY <1>10, <2>1 DEF GivenStep
<1> QED BY <1>11, <1>12 DEF Givens, G

-----------------------------------------------------------------------------
Toggles == {"permissive", "permissive-off"}

\* A toggle changes how the tokens behind it are read.
LEMMA StrictNext ==
  ASSUME argv \in Seq(Token), NEW i \in 1..Len(argv)
  PROVE  Strict(i + 1) <=> IF Is(i, Toggles) THEN ~Strict(i) ELSE Strict(i)
<1> DEFINE upto(n) == {j \in 1..(n - 1) : Is(j, Toggles)}
<1>1. i \in Nat /\ i >= 1 OBVIOUS
<1>2. upto(i) \subseteq 1..(i - 1) OBVIOUS
<1>3. IsFiniteSet(upto(i)) /\ Cardinality(upto(i)) \in Nat
  <2>1. IsFiniteSet(1..(i - 1)) BY <1>1, FS_Interval
  <2>2. IsFiniteSet(upto(i)) BY <1>2, <2>1, FS_Subset
  <2> QED BY <2>2, FS_CardinalityType
<1>4. \A j : j \in 1..((i + 1) - 1) <=> j \in 1..(i - 1) \/ j = i BY <1>1
<1>5. Strict(i) <=> Cardinality(upto(i)) % 2 = 0 BY DEF Strict, Toggles
<1>6. Strict(i + 1) <=> Cardinality(upto(i + 1)) % 2 = 0 BY DEF Strict, Toggles
<1>7. CASE Is(i, Toggles)
  <2>1. upto(i + 1) = upto(i) \cup {i} BY <1>4, <1>7
  <2>2. i \notin upto(i) BY <1>1
  <2>3. Cardinality(upto(i + 1)) = Cardinality(upto(i)) + 1 BY <1>3, <2>1, <2>2, FS_AddElement
  <2>4. PICK c : c = Cardinality(upto(i)) OBVIOUS
  <2>5. c \in Nat BY <1>3, <2>4
  <2>6. (c + 1) % 2 = 0 <=> c % 2 # 0 BY ONLY <2>5
  <2> QED BY <1>5, <1>6, <1>7, <2>3, <2>4, <2>6
<1>8. CASE ~Is(i, Toggles)
  <2>1. upto(i + 1) = upto(i) BY <1>4, <1>8
  <2> QED BY <1>5, <1>6, <1>8, <2>1
<1> QED BY <1>7, <1>8

\* Reading begins strictly.
LEMMA StrictFirst == Strict(1)
<1>1. {j \in 1..(1 - 1) : Is(j, {"permissive", "permissive-off"})} = {} OBVIOUS
<1>2. Cardinality({}) = 0 BY FS_EmptySet
<1> QED BY <1>1, <1>2 DEF Strict

-----------------------------------------------------------------------------
\* getopt_long stands at a token that is no value, all before it are options
\* that end nothing, and what they said is in `permissive' and `payloads'.
Reading ==
  /\ optind \in 1..(Len(argv) + 1)
  /\ optind <= Len(argv) => ~IsValue[optind]
  /\ permissive <=> ~Strict(optind)
  /\ \A i \in 1..(optind - 1) : ~Ends(i) /\ ~Bad(i)
  /\ payloads = Given[optind - 1] /\ targs = <<>>

\* The invariant of parsing.
ArgsInv ==
  /\ argv \in ARGVS /\ permissive \in BOOLEAN
  /\ parsing \in {"options", "done", "rejected"}
  /\ parsing = "options" => Reading
  /\ ArgumentsSplit

\* A vector is a sequence of tokens.
LEMMA ArgvType == argv \in ARGVS => argv \in Seq(Token)
BY ArgumentsAssumption DEF Token

\* Nothing is read at the beginning.
LEMMA ArgsInitially == ArgsInit => ArgsInv
<1> SUFFICES ASSUME ArgsInit PROVE ArgsInv OBVIOUS
<1>1. argv \in Seq(Token) BY ArgvType DEF ArgsInit
<1>2. Values(IsValue) /\ Givens(Given) BY <1>1, IsValueIs, GivenIs
<1>3. optind = 1 /\ Len(argv) \in Nat BY <1>1 DEF ArgsInit
<1>4. optind <= Len(argv) => ~IsValue[optind] BY <1>2, <1>3 DEF Values, ValueStep
<1>5. Given[optind - 1] = <<>> BY <1>2, <1>3 DEF Givens
<1>6. Reading BY <1>3, <1>4, <1>5, StrictFirst DEF ArgsInit, Reading
<1> QED BY <1>6 DEF ArgsInit, ArgsInv, ArgumentsSplit

\* An option of n tokens that ends nothing has been read.
LEMMA Onward ==
  ASSUME argv \in Seq(Token), NEW n \in 1..2, parsing = "options", Reading,
         optind + n - 1 <= Len(argv),
         argv' = argv, optind' = optind + n, targs' = targs, parsing' = parsing,
         permissive' \in BOOLEAN,
         optind + n <= Len(argv) => ~IsValue[optind + n],
         permissive' <=> ~Strict(optind + n),
         \A i \in optind..(optind + n - 1) : ~Ends(i) /\ ~Bad(i),
         payloads' = Given[optind + n - 1], argv \in ARGVS
  PROVE  ArgsInv'
<1>1. Len(argv) \in Nat /\ optind \in Nat BY DEF Reading
<1>2. IsValue' = IsValue BY DEF IsValue
<1>3. Given' = Given BY <1>2 DEF Given
<1>4. \A i : Strict(i)' = Strict(i) BY <1>2 DEF Strict, Is
<1>5. \A i : Ends(i)' = Ends(i) /\ Bad(i)' = Bad(i) BY <1>2, <1>4 DEF Ends, Bad, Is
<1>6. \A i \in 1..(optind + n - 1) : i \in 1..(optind - 1) \/ i \in optind..(optind + n - 1) BY <1>1
<1>7. \A i \in 1..(optind + n - 1) : ~Ends(i) /\ ~Bad(i) BY <1>6 DEF Reading
<1>8. Reading' BY <1>1, <1>2, <1>3, <1>4, <1>5, <1>7 DEF Reading
<1> QED BY <1>8 DEF ArgsInv, ArgumentsSplit

\* The operators of the property depend on the vector alone.
LEMMA SameVector ==
  ASSUME argv' = argv
  PROVE  /\ Given' = Given /\ First' = First /\ Behind' = Behind /\ (Refused' <=> Refused)
<1>2. IsValue' = IsValue BY DEF IsValue
<1>3. Given' = Given BY <1>2 DEF Given
<1>4. \A i : Strict(i)' = Strict(i) BY <1>2 DEF Strict, Is
<1>5. \A i : Ends(i)' = Ends(i) /\ Bad(i)' = Bad(i) BY <1>2, <1>4 DEF Ends, Bad, Is
<1>6. \A i, k : Is(i, k)' = Is(i, k) BY <1>2 DEF Is
<1>7. Ending' = Ending BY <1>5 DEF Ending
<1>8. First' = First BY <1>7 DEF First
<1>9. Behind' = Behind BY <1>6, <1>7, <1>8 DEF Behind
<1>10. Refused' <=> Refused BY <1>5, <1>7, <1>8, <1>9 DEF Refused
<1> QED BY <1>3, <1>8, <1>9, <1>10

\* What is bad, and ends nothing itself, is before the end, if there is one.
LEMMA Rejects ==
  ASSUME argv \in Seq(Token), Reading, optind <= Len(argv), Bad(optind), ~Ends(optind)
  PROVE  Refused
<1>3. Len(argv) \in Nat /\ optind \in 1..Len(argv) /\ DOMAIN argv = 1..Len(argv) BY DEF Reading
<1>4. SUFFICES ASSUME Ending # {} PROVE optind \in 1..(First - 1) BY DEF Refused
<1>5. Ending \in SUBSET Nat BY <1>3 DEF Ending
<1>6. \E i \in Ending : \A j \in Ending : i <= j BY ONLY <1>5, Ending # {}, Least
<1>7. First \in Ending BY <1>4, <1>6 DEF First
<1>8. First \in 1..Len(argv) /\ Ends(First) BY <1>3, <1>7 DEF Ending
<1>9. First \notin 1..(optind - 1) /\ First # optind BY <1>8 DEF Reading
<1> QED BY <1>3, <1>8, <1>9

\* The rest is for the target: the options end here, or with the vector.
LEMMA Splits ==
  ASSUME argv \in Seq(Token), Reading, NEW from \in Nat, Targets(from),
         \/ optind <= Len(argv) /\ Ends(optind) /\ from = IF Is(optind, {"--"}) THEN optind + 1 ELSE optind
         \/ optind = Len(argv) + 1 /\ from = optind + 1
  PROVE  ArgumentsSplit' /\ parsing' \in {"done", "rejected"}
<1>3. Len(argv) \in Nat /\ optind \in 1..(Len(argv) + 1) /\ DOMAIN argv = 1..Len(argv) BY DEF Reading
<1>4. argv' = argv /\ payloads' = payloads BY DEF Targets
<1>5. /\ Given' = Given /\ First' = First /\ Behind' = Behind /\ (Refused' <=> Refused) BY <1>4, SameVector
<1>6. targs' = SubSeq(argv, from, Len(argv)) BY DEF Targets
<1>7. targs' = <<>> <=> from > Len(argv)
  <2>0. targs' \in Seq(Token)
    <3>1. \A i \in from..Len(argv) : i \in 1..Len(argv) \/ i = 0 BY <1>3
    <3>2. from = 0 => optind = 0 BY <1>3
    <3>3. from >= 1 BY <1>3, <3>2
    <3> QED BY <1>3, <1>6, <3>3
  <2>1. Len(targs') = IF from <= Len(argv) THEN Len(argv) - from + 1 ELSE 0 BY <1>3, <1>6
  <2> QED BY <1>3, <2>0, <2>1
<1>8. parsing' = IF from > Len(argv) THEN "rejected" ELSE "done" BY <1>7 DEF Targets
<1>9. CASE optind <= Len(argv) /\ Ends(optind) /\ from = IF Is(optind, {"--"}) THEN optind + 1 ELSE optind
  <2>1. optind \in Ending BY <1>3, <1>9 DEF Ending
  <2>2. \A j \in Ending : optind <= j
    <3>1. \A j \in Ending : j \in Nat /\ j >= 1 /\ j \notin 1..(optind - 1) BY <1>3 DEF Reading, Ending
    <3> QED BY <1>3, <3>1
  <2>3. First = optind
    <3>1. First \in Ending /\ \A j \in Ending : First <= j BY <2>1, <2>2 DEF First
    <3>2. First \in Int BY <1>3, <3>1 DEF Ending
    <3> QED BY <1>3, <2>1, <2>2, <3>1, <3>2
  <2>4. Behind = from BY <1>9, <2>1, <2>3 DEF Behind
  <2>7. Refused <=> from > Len(argv)
    <3>1. ~\E i \in 1..(First - 1) : Bad(i) BY <2>3 DEF Reading
    <3> QED BY <2>1, <2>4, <3>1 DEF Refused
  <2>8. payloads' = Given[First - 1] BY <1>4, <2>3 DEF Reading
  <2> QED BY <1>4, <1>5, <1>6, <1>8, <2>4, <2>7, <2>8 DEF ArgumentsSplit
<1>10. CASE optind = Len(argv) + 1 /\ from = optind + 1
  <2>1. Ending = {}
    <3>1. \A i \in 1..Len(argv) : ~Ends(i) BY <1>3, <1>10 DEF Reading
    <3> QED BY <1>3, <3>1 DEF Ending
  <2>2. parsing' = "rejected" BY <1>3, <1>8, <1>10
  <2> QED BY <1>5, <2>1, <2>2 DEF ArgumentsSplit, Refused
<1> QED BY <1>9, <1>10

-----------------------------------------------------------------------------
\* One turn of the loop: what the token is.
LEMMA ArgsStep ==
  ASSUME ArgsInv, ParseArguments
  PROVE  ArgsInv'
<1>0. argv \in Seq(Token) BY ArgvType DEF ArgsInv
<1>1. parsing = "options" /\ Reading
  <2>1. parsing = "options" BY DEF ParseArguments, Help, Payload, Unknown, Plus, Permissive, Plain, End, At
  <2> QED BY <2>1 DEF ArgsInv
<1>2. Values(IsValue) /\ Givens(Given) BY <1>0, IsValueIs, GivenIs
<1>3. Len(argv) \in Nat /\ optind \in 1..(Len(argv) + 1) /\ permissive \in BOOLEAN
  BY <1>0, <1>1 DEF Reading, ArgsInv
<1>4. ASSUME optind <= Len(argv)
      PROVE  /\ ~IsValue[optind] /\ \A kinds : Is(optind, kinds) <=> argv[optind].kind \in kinds
             /\ optind + 1 \in 0..Len(argv) => (IsValue[optind + 1] <=> argv[optind].kind = "payload")
             /\ optind + 2 \in 0..Len(argv) =>
                  (IsValue[optind + 2] <=> argv[optind + 1].kind = "payload" /\ ~IsValue[optind + 1])
             /\ Strict(optind + 1) <=> IF Is(optind, Toggles) THEN ~Strict(optind) ELSE Strict(optind)
             /\ Given[optind] = IF argv[optind].kind = "payload=" THEN Append(payloads, argv[optind].val) ELSE payloads
  <2>0. optind \in 1..Len(argv) BY <1>3, <1>4
  <2>1. ~IsValue[optind] /\ payloads = Given[optind - 1] BY <1>1, <1>4 DEF Reading
  <2>2. optind + 1 \in 0..Len(argv) => (IsValue[optind + 1] <=> argv[optind].kind = "payload")
    <3>1. optind + 1 \in 0..Len(argv) => ValueNext(IsValue, optind) BY <1>0, <1>2, <2>0, NextValue
    <3> QED BY <2>1, <3>1 DEF ValueNext
  <2>3. optind + 2 \in 0..Len(argv) => (IsValue[optind + 2] <=> argv[optind + 1].kind = "payload" /\ ~IsValue[optind + 1])
    <3>1. (optind + 1) + 1 = optind + 2 /\ optind + 1 >= 1 /\ optind + 1 \in Nat BY <2>0
    <3>2. optind + 2 \in 0..Len(argv) => ValueNext(IsValue, optind + 1) BY <1>0, <1>2, <3>1, NextValue
    <3> QED BY <3>1, <3>2 DEF ValueNext
  <2>4. Strict(optind + 1) <=> IF Is(optind, Toggles) THEN ~Strict(optind) ELSE Strict(optind)
    BY <1>0, <2>0, StrictNext
  <2>5. Given[optind] = IF argv[optind].kind = "payload=" THEN Append(payloads, argv[optind].val) ELSE payloads
    BY <1>2, <2>0, <2>1 DEF Givens, GivenStep
  <2> QED BY <2>1, <2>2, <2>3, <2>4, <2>5 DEF Is
<1>5. CASE Help
  <2>1. optind <= Len(argv) /\ argv[optind].kind = "help" BY <1>5 DEF Help, At
  <2>2. Bad(optind) /\ ~Ends(optind) BY <1>4, <2>1 DEF Bad, Ends
  <2>3. Refused BY <1>0, <1>1, <2>1, <2>2, Rejects
  <2>4. Refused' BY <1>5, <2>3, SameVector DEF Help, Throw
  <2> QED BY <1>5, <2>4 DEF Help, Throw, ArgsInv, ArgumentsSplit
<1>12. ASSUME Skip, optind <= Len(argv), permissive' \in BOOLEAN, argv[optind].kind \notin {"payload", "payload="},
              permissive' <=> ~Strict(optind + 1), ~Bad(optind), ~Ends(optind)
       PROVE  ArgsInv'
  <2>1. optind \in 1..Len(argv) /\ 1 \in 1..2 /\ optind + 1 - 1 = optind BY <1>3, <1>12
  <2>2. optind + 1 <= Len(argv) => ~IsValue[optind + 1] BY <1>4, <1>12, <2>1
  <2>3. payloads = Given[optind] BY <1>4, <1>12
  <2>4. \A i \in optind..(optind + 1 - 1) : ~Ends(i) /\ ~Bad(i) BY <1>12, <2>1
  <2>5. argv \in ARGVS BY DEF ArgsInv
  <2> QED BY <1>0, <1>1, <1>12, <2>1, <2>2, <2>3, <2>4, <2>5, Onward DEF Skip
<1>13. ASSUME Throw, optind <= Len(argv), Bad(optind), ~Ends(optind)
       PROVE  ArgsInv'
  <2>1. Refused BY <1>0, <1>1, <1>13, Rejects
  <2>2. Refused' BY <1>13, <2>1, SameVector DEF Throw
  <2> QED BY <1>13, <2>2 DEF Throw, ArgsInv, ArgumentsSplit
<1>6. CASE Payload
  <2>1. optind <= Len(argv) /\ argv[optind].kind \in {"payload", "payload="} BY <1>6 DEF Payload, At
  <2>2. ~Ends(optind) BY <1>4, <2>1 DEF Ends
  <2>3. argv \in ARGVS BY DEF ArgsInv
  <2>4. Strict(optind + 1) <=> Strict(optind) BY <1>4, <2>1 DEF Toggles
  <2>5. CASE argv[optind].kind = "payload="
    <3>1. optind' = optind + 1 /\ payloads' = Append(payloads, argv[optind].val) BY <1>6, <2>5 DEF Payload
    <3>2. ~Bad(optind) BY <1>4, <2>1, <2>5 DEF Bad
    <3>3. optind \in 1..Len(argv) /\ 1 \in 1..2 /\ optind + 1 - 1 = optind BY <1>3, <2>1
    <3>4. optind + 1 <= Len(argv) => ~IsValue[optind + 1] BY <1>4, <2>1, <2>5, <3>3
    <3>5. payloads' = Given[optind] BY <1>4, <2>1, <2>5, <3>1
    <3>6. \A i \in optind..(optind + 1 - 1) : ~Ends(i) /\ ~Bad(i) BY <2>2, <3>2, <3>3
    <3>7. permissive' <=> ~Strict(optind + 1) BY <1>1, <1>6, <2>4 DEF Payload, Reading
    <3> QED BY <1>0, <1>1, <1>3, <1>6, <2>3, <3>1, <3>3, <3>4, <3>5, <3>6, <3>7, Onward DEF Payload
  <2>6. CASE argv[optind].kind = "payload"
    <3>0. argv[optind].kind # "payload=" BY <2>6
    <3>1. optind' = optind + 2 /\ payloads' = Append(payloads, argv[optind + 1].val) /\ optind < Len(argv)
      BY <1>6, <3>0 DEF Payload
    <3>2. ~Bad(optind) BY <1>3, <1>4, <2>1, <2>6, <3>1 DEF Bad
    <3>3. optind \in 1..Len(argv) /\ 2 \in 1..2 /\ optind + 2 - 1 = optind + 1 /\ optind + 1 \in 1..Len(argv)
          /\ optind + 1 \in 0..Len(argv) /\ (optind + 1) + 1 = optind + 2
      BY <1>3, <2>1, <3>1
    <3>4. IsValue[optind + 1] BY <1>4, <2>1, <2>6, <3>3
    <3>5. optind + 2 <= Len(argv) => ~IsValue[optind + 2]
      <4>1. optind + 2 <= Len(argv) => optind + 2 \in 0..Len(argv) BY <1>3
      <4> QED BY <1>4, <2>1, <3>4, <4>1
    <3>6. payloads' = Given[optind + 1]
      <4>1. GivenNext(Given, optind)
        <5>1. optind + 1 \in 1..Len(argv) /\ optind \in Nat BY <3>3
        <5> QED BY <1>0, <1>2, <5>1, NextGiven
      <4>2. Given[optind + 1] = Append(Given[optind], argv[optind + 1].val) BY <3>4, <4>1 DEF GivenNext
      <4> QED BY <1>4, <2>1, <3>0, <3>1, <4>2
    <3>7. ~Ends(optind + 1) /\ ~Bad(optind + 1) /\ ~Is(optind + 1, Toggles) BY <3>4 DEF Ends, Bad, Is
    <3>8. Strict(optind + 2) <=> Strict(optind + 1)
      <4>1. Strict((optind + 1) + 1) <=> IF Is(optind + 1, Toggles) THEN ~Strict(optind + 1) ELSE Strict(optind + 1)
        BY <1>0, <3>3, StrictNext
      <4> QED BY <3>3, <3>7, <4>1
    <3>9. \A i \in optind..(optind + 2 - 1) : ~Ends(i) /\ ~Bad(i)
      <4>1. \A i \in optind..(optind + 2 - 1) : i = optind \/ i = optind + 1 BY <3>3
      <4> QED BY <2>2, <3>2, <3>7, <4>1
    <3>10. permissive' <=> ~Strict(optind + 2) BY <1>1, <1>6, <2>4, <3>8 DEF Payload, Reading
    <3> QED BY <1>0, <1>1, <1>3, <1>6, <2>3, <3>1, <3>3, <3>5, <3>6, <3>9, <3>10, Onward DEF Payload
  <2> QED BY <2>1, <2>5, <2>6
<1>7. CASE Unknown
  <2>1. optind <= Len(argv) /\ (argv[optind].kind = "unknown" \/ (argv[optind].kind = "payload" /\ optind = Len(argv)))
    BY <1>7 DEF Unknown, At
  <2>2. ~Ends(optind) BY <1>4, <2>1 DEF Ends
  <2>3. Strict(optind + 1) <=> Strict(optind) BY <1>4, <2>1 DEF Toggles
  <2>4. CASE permissive
    <3>1. ~Strict(optind) BY <1>1, <2>4 DEF Reading
    <3>2. ~Bad(optind) BY <1>4, <2>1, <3>1 DEF Bad
    <3>3. CASE argv[optind].kind = "unknown" BY <1>3, <1>7, <1>12, <2>1, <2>2, <2>3, <2>4, <3>1, <3>2, <3>3 DEF Unknown
    <3>4. CASE argv[optind].kind = "payload" /\ optind = Len(argv)
      <4>1. Skip /\ permissive' = permissive BY <1>7, <2>4 DEF Unknown
      <4>2. optind \in 1..Len(argv) /\ 1 \in 1..2 /\ optind + 1 - 1 = optind /\ ~(optind + 1 <= Len(argv)) BY <1>3, <3>4
      <4>3. payloads = Given[optind] BY <1>4, <3>4
      <4>4. \A i \in optind..(optind + 1 - 1) : ~Ends(i) /\ ~Bad(i) BY <2>2, <3>2, <4>2
      <4>5. argv \in ARGVS BY DEF ArgsInv
      <4> QED BY <1>0, <1>1, <1>3, <2>1, <2>3, <2>4, <3>1, <4>1, <4>2, <4>3, <4>4, <4>5, Onward DEF Skip
    <3> QED BY <2>1, <3>3, <3>4
  <2>5. CASE ~permissive
    <3>1. Strict(optind) BY <1>1, <2>5 DEF Reading
    <3>2. Bad(optind) BY <1>4, <2>1, <3>1 DEF Bad
    <3> QED BY <1>7, <1>13, <2>1, <2>2, <2>5, <3>2 DEF Unknown
  <2> QED BY <2>4, <2>5
<1>8. CASE Plus
  <2>1. optind <= Len(argv) /\ argv[optind].kind = "plus" BY <1>8 DEF Plus, At
  <2>2. ~Bad(optind) /\ ~Ends(optind) BY <1>4, <2>1 DEF Bad, Ends
  <2>3. Strict(optind + 1) <=> Strict(optind) BY <1>4, <2>1 DEF Toggles
  <2> QED BY <1>1, <1>3, <1>8, <1>12, <2>1, <2>2, <2>3 DEF Plus, Reading
<1>9. CASE Permissive
  <2>1. optind <= Len(argv) /\ argv[optind].kind \in {"permissive", "permissive-off"} BY <1>9 DEF Permissive, At
  <2>2. ~Ends(optind) BY <1>4, <2>1 DEF Ends
  <2>3. Strict(optind + 1) <=> ~Strict(optind) BY <1>4, <2>1 DEF Toggles
  <2>4. permissive <=> ~Strict(optind) BY <1>1 DEF Reading
  <2>5. CASE permissive = (argv[optind].kind = "permissive")
    <3>1. Bad(optind) BY <1>3, <1>4, <2>1, <2>4, <2>5 DEF Bad
    <3> QED BY <1>9, <1>13, <2>1, <2>2, <2>5, <3>1 DEF Permissive
  <2>6. CASE permissive # (argv[optind].kind = "permissive")
    <3>1. ~Bad(optind) BY <1>3, <1>4, <2>1, <2>4, <2>6 DEF Bad
    <3>2. Skip /\ permissive' = ~permissive BY <1>9, <2>6 DEF Permissive
    <3> QED BY <1>3, <1>12, <2>1, <2>2, <2>3, <2>4, <3>1, <3>2
  <2> QED BY <2>5, <2>6
<1>14. ASSUME NEW from \in Nat, Targets(from),
              \/ optind <= Len(argv) /\ Ends(optind) /\ from = IF Is(optind, {"--"}) THEN optind + 1 ELSE optind
              \/ optind = Len(argv) + 1 /\ from = optind + 1
       PROVE  ArgsInv'
  <2>1. ArgumentsSplit' /\ parsing' \in {"done", "rejected"} BY <1>0, <1>1, <1>14, Splits
  <2> QED BY <1>14, <2>1 DEF ArgsInv, Targets
<1>10. CASE Plain
  <2>1. optind <= Len(argv) /\ argv[optind].kind = "plain" BY <1>10 DEF Plain, At
  <2>2. ~Bad(optind) BY <1>4, <2>1 DEF Bad
  <2>3. Strict(optind + 1) <=> Strict(optind) BY <1>4, <2>1 DEF Toggles
  <2>4. permissive <=> ~Strict(optind) BY <1>1 DEF Reading
  <2>5. CASE permissive
    <3>1. ~Ends(optind) BY <1>4, <2>1, <2>4, <2>5 DEF Ends
    <3> QED BY <1>3, <1>10, <1>12, <2>1, <2>2, <2>3, <2>4, <2>5, <3>1 DEF Plain
  <2>6. CASE ~permissive
    <3>1. Ends(optind) /\ ~Is(optind, {"--"}) BY <1>4, <2>1, <2>4, <2>6 DEF Ends
    <3>2. Targets(optind) /\ optind \in Nat BY <1>3, <1>10, <2>6 DEF Plain
    <3> QED BY <1>14, <2>1, <3>1, <3>2
  <2> QED BY <2>5, <2>6
<1>11. CASE End
  <2>1. Targets(optind + 1) /\ optind + 1 \in Nat BY <1>3, <1>11 DEF End
  <2>2. CASE At({"--"})
    <3>1. optind <= Len(argv) /\ argv[optind].kind = "--" BY <2>2 DEF At
    <3>2. Ends(optind) /\ Is(optind, {"--"}) BY <1>4, <3>1 DEF Ends
    <3> QED BY <1>14, <2>1, <3>1, <3>2
  <2>3. CASE ~At({"--"})
    <3>1. optind = Len(argv) + 1 BY <1>3, <1>11, <2>3 DEF End
    <3> QED BY <1>14, <2>1, <3>1
  <2> QED BY <2>2, <2>3
<1> QED BY <1>5, <1>6, <1>7, <1>8, <1>9, <1>10, <1>11 DEF ParseArguments

\* Nothing else touches them.
LEMMA ArgsStay ==
  ASSUME ArgsInv, UNCHANGED argVars
  PROVE  ArgsInv'
<1>1. argv' = argv /\ optind' = optind /\ permissive' = permissive /\ payloads' = payloads
      /\ targs' = targs /\ parsing' = parsing
  BY DEF argVars
<1>2. IsValue' = IsValue BY <1>1 DEF IsValue
<1>3. Given' = Given /\ First' = First /\ Behind' = Behind /\ (Refused' <=> Refused) BY <1>1, SameVector
<1>4. \A i : Strict(i)' = Strict(i) BY <1>1, <1>2 DEF Strict, Is
<1>5. \A i : Ends(i)' = Ends(i) /\ Bad(i)' = Bad(i) BY <1>1, <1>2, <1>4 DEF Ends, Bad, Is
<1>6. Reading => Reading' BY <1>1, <1>2, <1>3, <1>4, <1>5 DEF Reading
<1> QED BY <1>1, <1>3, <1>6 DEF ArgsInv, ArgumentsSplit

-----------------------------------------------------------------------------
(* Memory, as it is when the call under way is over.                         *)

\* What the call under way leads to at x, and whether it reads n bytes from a on.
Goal(x) == IF ~thrown /\ call.wr /\ x \in Span(call.addr, call.len)
           THEN call.data[x - call.addr] ELSE before[x]
Reads(a, n) == ~call.wr /\ call.addr = a /\ call.len = n

\* A call that is over has led where it should, and a read has found it.
LEMMA GoalReached ==
  ASSUME MemInv, stage = "idle"
  PROVE  /\ \A x \in Address : mem[x] = Goal(x)
         /\ ~thrown /\ ~call.wr => out = [i \in Span(0, call.len) |-> Goal(call.addr + i)]
<1>1. MemoryExact BY Exact
<1>2. \A x \in Address : mem[x] = Goal(x) BY <1>1 DEF MemoryExact, Goal
<1>3. ASSUME ~thrown, ~call.wr PROVE out = [i \in Span(0, call.len) |-> Goal(call.addr + i)]
  <2>1. out = [i \in Span(0, call.len) |-> before[call.addr + i]] BY <1>1, <1>3 DEF MemoryExact
  <2>2. \A i : Goal(call.addr + i) = before[call.addr + i] BY <1>3 DEF Goal
  <2> QED BY <2>1, <2>2
<1> QED BY <1>2, <1>3

\* A loop of a call does not change where it leads.
LEMMA GoalStays ==
  ASSUME MemInv, MemStep
  PROVE  /\ MemInv' /\ call' = call /\ thrown' = thrown /\ \A x : Goal(x)' = Goal(x)
<1>1. MemInv' BY Inductive DEF MemNext
<1>2. call' = call /\ thrown' = thrown /\ before' = before
  BY DEF MemStep, HeadBlock, TailBlock, BodyBlock, Finish
<1> QED BY <1>1, <1>2 DEF Goal

\* What a new call leads to.
LEMMA GoalOfCall ==
  ASSUME MemInv, NEW c \in Calls, Call(c)
  PROVE  /\ MemInv' /\ call' = c /\ ~thrown /\ stage = "idle"
         /\ \A x \in Address : Goal(x)' = IF ~thrown' /\ c.wr /\ x \in Span(c.addr, c.len)
                                         THEN c.data[x - c.addr] ELSE Goal(x)
<1>1. MemInv' BY CallStep
<1>2. call' = c /\ ~thrown /\ stage = "idle" /\ before' = mem BY DEF Call
<1>3. \A x \in Address : mem[x] = Goal(x) BY <1>2, GoalReached
<1> QED BY <1>1, <1>2, <1>3 DEF Goal

\* What is a call.
LEMMA IsCall ==
  ASSUME NEW w \in BOOLEAN, NEW word \in BOOLEAN, NEW a \in Nat, NEW n \in Nat, a + n <= SPACE,
         word => n > 0, NEW d \in DataOf(n)
  PROVE  [wr |-> w, word |-> word, addr |-> a, len |-> n, data |-> d] \in Calls
<1>1. n \in 0..SPACE /\ a \in 0..(SPACE - n) BY MemIfAssumption
<1>2. d \in [Span(0, n) -> BYTE] BY DEF DataOf
<1>3. word \in IF n > 0 THEN BOOLEAN ELSE {FALSE} OBVIOUS
<1>4. [wr |-> w, word |-> word, addr |-> a, len |-> n, data |-> d] \in
        [wr : BOOLEAN, word : IF n > 0 THEN BOOLEAN ELSE {FALSE}, addr : 0..(SPACE - n), len : {n},
         data : [Span(0, n) -> BYTE]]
  BY <1>1, <1>2, <1>3
<1> QED BY <1>1, <1>4 DEF Calls

\* A store of the target goes past memif_t.
LEMMA GoalOfPoke ==
  ASSUME MemInv, stage = "idle", ~thrown, mem' \in [Address -> BYTE], before' = mem', call' = NoCall,
         out' = Zeros(0), UNCHANGED <<align, stage, addr, off, len, pos, left, thrown>>
  PROVE  MemInv' /\ \A x \in Address : Goal(x)' = mem'[x]
<1>1. NoCall \in Calls
  <2>1. [i \in Span(0, 0) |-> 0] \in DataOf(0) BY MemIfAssumption DEF DataOf
  <2>2. 0 + 0 <= SPACE /\ 0 \in Nat /\ FALSE \in BOOLEAN BY MemIfAssumption
  <2> QED BY <2>1, <2>2, IsCall DEF NoCall
<1>2. NoCall.wr = FALSE /\ NoCall.len = 0 /\ NoCall.addr = 0 BY DEF NoCall
<1>3. Zeros(0) \in DataOf(0) BY MemIfAssumption DEF Zeros, DataOf
<1>4. MemTypeOK' BY <1>1, <1>2, <1>3 DEF MemInv, MemTypeOK
<1>6. Copied' BY <1>2 DEF Copied, Span
<1> QED BY <1>2, <1>4, <1>6 DEF Goal, MemInv, MemPlace

-----------------------------------------------------------------------------
(* What the arguments say about the files.                                   *)

\* The paths are strings: those of the payloads, and the program's.
ArgsTypes == payloads \in Seq(STRING) /\ (parsing = "done" => program \in STRING)

\* What is for the target begins with its program.
LEMMA TargetsTypes ==
  ASSUME ArgsInv, NEW from \in Nat \ {0}, Targets(from)
  PROVE  parsing' = "done" => program' \in STRING
<1>0. argv \in Seq(Token) BY ArgvType DEF ArgsInv
<1>1. SUFFICES ASSUME parsing' = "done" PROVE program' \in STRING OBVIOUS
<1>2. targs' = SubSeq(argv, from, Len(argv)) /\ targs' # <<>> BY <1>1 DEF Targets
<1>3. from <= Len(argv)
  <2>1. SUFFICES ASSUME from > Len(argv) PROVE FALSE BY <1>0
  <2>2. targs' \in Seq(Token) /\ Len(targs') = 0 BY <1>0, <1>2, <2>1
  <2> QED BY <1>2, <2>2
<1>4. targs'[1] = argv[from] BY <1>0, <1>2, <1>3
<1>5. argv[from] \in Token BY <1>0, <1>3
<1> QED BY <1>4, <1>5 DEF program, Token

\* Parsing keeps the paths strings.
LEMMA ArgsTypesStep ==
  ASSUME ArgsInv, ArgsTypes, ParseArguments
  PROVE  ArgsTypes'
<1>0. argv \in Seq(Token) BY ArgvType DEF ArgsInv
<1>1. parsing = "options" BY DEF ParseArguments, Help, Payload, Unknown, Plus, Permissive, Plain, End, At
<1>2. optind \in 1..(Len(argv) + 1) BY <1>1 DEF ArgsInv, Reading
<1>3. CASE Payload
  <2>1. PICK i \in DOMAIN argv : payloads' = Append(payloads, argv[i].val)
    <3>1. optind <= Len(argv) /\ (argv[optind].kind = "payload=" \/ optind < Len(argv)) BY <1>3 DEF Payload, At
    <3>2. optind \in DOMAIN argv BY <1>0, <1>2, <3>1
    <3>3. argv[optind].kind # "payload=" => optind + 1 \in DOMAIN argv BY <1>0, <1>2, <3>1
    <3> QED BY <1>3, <3>2, <3>3 DEF Payload
  <2>2. argv[i].val \in STRING
    <3>1. argv[i] \in Token BY <1>0
    <3> QED BY <3>1 DEF Token
  <2>3. parsing' = "options" BY <1>1, <1>3 DEF Payload
  <2> QED BY <2>1, <2>2, <2>3 DEF ArgsTypes
<1>4. CASE Throw BY <1>4 DEF Throw, ArgsTypes
<1>5. CASE Skip BY <1>1, <1>5 DEF Skip, ArgsTypes
<1>6. ASSUME NEW from \in Nat \ {0}, Targets(from) PROVE ArgsTypes'
  <2>1. payloads' = payloads BY <1>6 DEF Targets
  <2> QED BY <1>6, <2>1, TargetsTypes DEF ArgsTypes
<1>7. optind \in Nat \ {0} /\ optind + 1 \in Nat \ {0} BY <1>0, <1>2
<1> QED BY <1>3, <1>4, <1>5, <1>6, <1>7 DEF ParseArguments, Help, Unknown, Plus, Permissive, Plain, End

-----------------------------------------------------------------------------
(* The loader.                                                               *)

\* The segments that come before the n-th one of the k-th file, and those of the
\* files before.
Before(k, n, x) == {p \in Over(x) : p[1] < k \/ (p[1] = k /\ p[2] < n)}
Image(x) == Shown(Over(x), x)
Partly(k, n, x) == Shown(Before(k, n, x), x)
Whole(k, x) == Shown({p \in Over(x) : p[1] < k}, x)

\* What is loaded is said by the arguments.
LEMMA SamePaths ==
  ASSUME UNCHANGED argVars
  PROVE  /\ program' = program /\ Paths' = Paths /\ payloads' = payloads /\ parsing' = parsing
         /\ \A x : Image(x)' = Image(x)
         /\ \A k, n, x : Partly(k, n, x)' = Partly(k, n, x)
         /\ \A k, x : Whole(k, x)' = Whole(k, x)
<1>1. targs' = targs /\ payloads' = payloads /\ parsing' = parsing BY DEF argVars
<1>2. program' = program /\ Paths' = Paths BY <1>1 DEF Paths, program
<1>3. \A p : Seg(p)' = Seg(p) BY <1>2 DEF Seg, PathFile
<1>4. Pieces' = Pieces BY <1>2 DEF Pieces, PathFile
<1>5. \A x : Over(x)' = Over(x) BY <1>3, <1>4 DEF Over
<1>6. \A S, x : Shown(S, x)' = Shown(S, x) BY <1>2, <1>3 DEF Shown, PathFile
<1> QED BY <1>1, <1>2, <1>5, <1>6 DEF Image, Partly, Before, Whole

\* A file as the assumptions have it.
LEMMA FileFacts ==
  ASSUME NEW f \in ElfFiles
  PROVE  /\ f.ph \in Seq(Phdr) /\ f.sym \in Seq(Sym) /\ f.entry \in Nat /\ f.size \in Nat
         /\ \A i \in Span(0, f.size) : f.bytes[i] \in BYTE
         /\ \A i \in DOMAIN f.ph : /\ f.ph[i] \in Phdr /\ f.ph[i].filesz <= f.ph[i].memsz
                                   /\ f.ph[i].paddr + f.ph[i].memsz <= SPACE
<1>1. PICK path \in DOMAIN FILES : f = FILES[path] BY DEF ElfFiles
<1>2. ElfFile(f) BY <1>1, LoaderAssumption
<1>3. f.ph \in Seq(Phdr) BY <1>2 DEF ElfFile
<1>4. \A i \in DOMAIN f.ph : f.ph[i] \in Phdr BY <1>3
<1>5. \A i \in DOMAIN f.ph : f.ph[i].filesz <= f.ph[i].memsz /\ f.ph[i].paddr + f.ph[i].memsz <= SPACE
  BY <1>1, LoaderAssumption
<1> QED BY <1>2, <1>3, <1>4, <1>5 DEF ElfFile

\* One segment more is over the others.
LEMMA OneMore ==
  ASSUME Paths \in Seq(STRING), NEW k \in DOMAIN Paths, Paths[k] \in DOMAIN FILES,
         NEW n \in DOMAIN PathFile(k).ph, NEW x
  PROVE  Partly(k, n + 1, x) =
           LET s == PathFile(k).ph[n]
           IN IF PT_LOAD(s) /\ x \in Span(s.paddr, s.memsz) THEN SegByte(PathFile(k), s, x)
              ELSE Partly(k, n, x)
<1> DEFINE s == PathFile(k).ph[n]
<1>0. PICK new : new = <<k, n>> OBVIOUS
<1>1. new[1] = k /\ new[2] = n /\ Seg(new) = s BY <1>0 DEF Seg
<1>2. PathFile(k) \in ElfFiles BY DEF PathFile, ElfFiles
<1>3. PathFile(k).ph \in Seq(Phdr) BY <1>2, FileFacts
<1>4. n \in Nat /\ k \in Nat /\ DOMAIN PathFile(k).ph \subseteq Nat BY <1>3
<1>5. \A p \in Pieces : /\ p[1] \in DOMAIN Paths /\ p[1] \in Nat /\ p = <<p[1], p[2]>>
                        /\ p[1] = k => p[2] \in Nat
  BY <1>4 DEF Pieces
<1>6. new \in Pieces BY <1>0 DEF Pieces
<1>7. Over(x) \subseteq Pieces BY DEF Over
<1>8. \A p \in Over(x) : p[1] = k /\ p[2] < n + 1 <=> p = new \/ (p[1] = k /\ p[2] < n)
  <2>1. ASSUME NEW p \in Over(x), p[1] = k PROVE p[2] < n + 1 <=> p[2] = n \/ p[2] < n
    BY <1>4, <1>5, <1>7, <2>1
  <2> QED BY <1>0, <1>1, <1>4, <1>5, <1>7, <2>1
<1>9. CASE ~(PT_LOAD(s) /\ x \in Span(s.paddr, s.memsz))
  <2>1. new \notin Over(x) BY <1>1, <1>9 DEF Over
  <2>2. Before(k, n + 1, x) = Before(k, n, x) BY <1>8, <2>1 DEF Before
  <2> QED BY <1>9, <2>2 DEF Partly
<1>10. CASE PT_LOAD(s) /\ x \in Span(s.paddr, s.memsz)
  <2>1. new \in Over(x) BY <1>1, <1>6, <1>10 DEF Over
  <2>2. PICK S : S = Before(k, n + 1, x) OBVIOUS
  <2>3. new \in S BY <1>1, <1>4, <2>1, <2>2 DEF Before
  <2>4. \A q \in S : q = new \/ (q \in Pieces /\ (q[1] < k \/ (q[1] = k /\ q[2] < n)))
    BY <1>7, <1>8, <2>2 DEF Before
  <2>5. \A q \in S : UpTo(q, new) BY <1>1, <1>4, <1>5, <2>4 DEF UpTo
  <2>6. \A q \in S : UpTo(new, q) => q = new BY <1>1, <1>4, <1>5, <2>4 DEF UpTo
  <2>7. (CHOOSE p \in S : \A q \in S : UpTo(q, p)) = new BY <2>3, <2>5, <2>6
  <2>8. Shown(S, x) = SegByte(PathFile(new[1]), Seg(new), x)
    <3>1. S # {} BY <2>3
    <3> QED BY <2>7, <3>1 DEF Shown
  <2> QED BY <1>1, <1>10, <2>2, <2>8 DEF Partly
<1> QED BY <1>9, <1>10

\* From file to file.
LEMMA FileByFile ==
  ASSUME Paths \in Seq(STRING), NEW x
  PROVE  /\ Whole(1, x) = 0 /\ Whole(Len(Paths) + 1, x) = Image(x)
         /\ \A k \in DOMAIN Paths : Paths[k] \in DOMAIN FILES =>
              /\ Partly(k, 1, x) = Whole(k, x)
              /\ Partly(k, Len(PathFile(k).ph) + 1, x) = Whole(k + 1, x)
<1>1. \A p \in Over(x) : p[1] \in 1..Len(Paths) /\ p[2] \in DOMAIN PathFile(p[1]).ph
  BY DEF Over, Pieces
<1>2. Len(Paths) \in Nat OBVIOUS
<1>3. {p \in Over(x) : p[1] < 1} = {} BY <1>1
<1>4. {p \in Over(x) : p[1] < Len(Paths) + 1} = Over(x) BY <1>1, <1>2
<1>5. ASSUME NEW k \in DOMAIN Paths, Paths[k] \in DOMAIN FILES
      PROVE  /\ Before(k, 1, x) = {p \in Over(x) : p[1] < k}
             /\ Before(k, Len(PathFile(k).ph) + 1, x) = {p \in Over(x) : p[1] < k + 1}
  <2>1. PathFile(k) \in ElfFiles BY <1>5 DEF PathFile, ElfFiles
  <2>2. PathFile(k).ph \in Seq(Phdr) BY <2>1, FileFacts
  <2>3. PICK L \in Nat : L = Len(PathFile(k).ph) /\ DOMAIN PathFile(k).ph = 1..L BY <2>2
  <2>4. \A p \in Over(x) : p[1] = k => p[2] \in 1..L BY <1>1, <2>3
  <2>5. k \in Nat BY <1>2
  <2>6. \A p \in Over(x) : p[1] = k /\ p[2] < 1 <=> FALSE BY <2>4
  <2>7. \A p \in Over(x) : p[1] < k \/ (p[1] = k /\ p[2] < L + 1) <=> p[1] < k + 1
    BY <1>1, <2>3, <2>4, <2>5
  <2> QED BY <2>3, <2>6, <2>7 DEF Before
<1>6. Whole(1, x) = 0 BY <1>3 DEF Whole, Shown
<1>7. Whole(Len(Paths) + 1, x) = Image(x) BY <1>4 DEF Whole, Image
<1>8. ASSUME NEW k \in DOMAIN Paths, Paths[k] \in DOMAIN FILES
      PROVE  Partly(k, 1, x) = Whole(k, x) /\ Partly(k, Len(PathFile(k).ph) + 1, x) = Whole(k + 1, x)
  BY <1>5, <1>8 DEF Whole, Partly
<1> QED BY <1>6, <1>7, <1>8

-----------------------------------------------------------------------------
\* The start address is that of the program.
EntryRight == IF program = NONE THEN entry = DEFAULT_ENTRY
              ELSE program \in DOMAIN FILES /\ entry = FILES[program].entry

\* The file that is loaded is the k-th one.
Place(k) ==
  /\ program # NONE /\ k \in DOMAIN Paths /\ todo \in Seq(STRING) /\ todo # <<>> /\ Head(todo) = Paths[k]
  /\ IsProgram <=> k = 1
  /\ ~IsProgram => Len(todo) = Len(Paths) - k + 1 /\ \A i \in 1..Len(todo) : todo[i] = Paths[k + i - 1]

OpenAt(k) ==
  /\ Place(k) /\ (k # 1 => EntryRight)
  /\ \A x \in Address : Goal(x) = Whole(k, x)

\* Of a segment that is half written the bytes of the file are there.
HalfWritten(s, x) == half = "zeros" /\ x \in Span(s.paddr, s.filesz)
SegmentsAt(k) ==
  /\ Place(k) /\ EntryRight /\ Paths[k] \in DOMAIN FILES
  /\ ph \in 1..(Len(file.ph) + 1) /\ half \in {"file", "zeros"}
  /\ half = "zeros" => ph <= Len(file.ph) /\ PT_LOAD(file.ph[ph])
  /\ \A x \in Address :
       Goal(x) = IF HalfWritten(file.ph[ph], x) THEN SegByte(file, file.ph[ph], x) ELSE Partly(k, ph, x)

InRom(x) == x \in Span(RESET_VEC, Len(RESET_CODE) + 1)
Booted(x) == IF InRom(x) THEN reset_vec[x - RESET_VEC] ELSE Image(x)

\* The words for the host are those of the program.
IoPlace ==
  /\ <<tohost_addr, fromhost_addr>> \in IoPairs
  /\ IF IsProgram THEN tohost_addr = 0 /\ fromhost_addr = 0
     ELSE Span(tohost_addr, 2) \cap Span(fromhost_addr, 2) = {}
IoZero == \A x \in IoBytes : Goal(x) = 0

Loading == {"start", "open", "segments", "loaded", "rom", "ready", "bare"}

\* The invariant of loading: what is written so far is where the segments so far
\* have it, and the words for the host are zero.
LoadInv ==
  /\ ArgsTypes /\ load \in Loading \cup {"running", "failed"}
  /\ load \notin {"start", "failed"} => parsing = "done"
  /\ load # "failed" => IoPlace
  /\ load \in Loading => ~thrown /\ IoZero
  /\ load = "start" => IsProgram /\ entry = DEFAULT_ENTRY /\ \A x \in Address : Goal(x) = 0
  /\ load = "open" => \E k \in Nat : OpenAt(k)
  /\ load = "segments" => \E k \in Nat : SegmentsAt(k)
  /\ load \in {"loaded", "bare"} => EntryRight /\ \A x \in Address : Goal(x) = Image(x)
  /\ load \in {"rom", "ready"} => EntryRight /\ \A x \in Address : Goal(x) = Booted(x)
  /\ load \in {"ready", "bare"} => stage = "idle"

\* The words for the host are in memory.
LEMMA IoInMemory == IoBytes \subseteq Address
<1>1. ASSUME NEW io \in IoPairs, NEW x \in Span(io[1], 2) \cup Span(io[2], 2) PROVE x \in Address
  BY IoAssumption, MemIfAssumption DEF Span, Address
<1> QED BY <1>1 DEF IoBytes

\* What is loaded is a sequence of paths.
LEMMA PathsType == ArgsTypes /\ parsing = "done" => Paths \in Seq(STRING)
<1> SUFFICES ASSUME ArgsTypes, parsing = "done" PROVE Paths \in Seq(STRING) OBVIOUS
<1>1. <<program>> \in Seq(STRING) BY DEF ArgsTypes
<1>2. payloads \in Seq(STRING) BY DEF ArgsTypes
<1>3. <<program>> \o payloads \in Seq(STRING) BY ONLY <1>1, <1>2
<1>4. <<>> \in Seq(STRING) OBVIOUS
<1> QED BY <1>3, <1>4 DEF Paths

\* Loading begins with a memory of zeros.
LEMMA LoadInitially == ArgsInit /\ MemInit /\ LoadInit => LoadInv
<1> SUFFICES ASSUME ArgsInit, MemInit, LoadInit PROVE LoadInv OBVIOUS
<1>1. ArgsTypes BY DEF ArgsInit, ArgsTypes
<1>2. IoPlace BY DEF LoadInit, IoPlace, IsProgram, IoPairs
<1>3. \A x \in Address : Goal(x) = 0 BY DEF MemInit, NoCall, Goal
<1>4. IoZero BY <1>3, IoInMemory DEF IoZero
<1> QED BY <1>1, <1>2, <1>3, <1>4 DEF LoadInit, LoadInv, Loading, IsProgram, MemInit

\* Steps that are not the loader's.
LEMMA LoadSame ==
  ASSUME LoadInv, UNCHANGED <<argVars, loadVars>>, thrown' = thrown, \A x \in Address : Goal(x)' = Goal(x),
         stage = "idle" => stage' = "idle"
  PROVE  LoadInv'
<1>1. /\ program' = program /\ Paths' = Paths /\ payloads' = payloads /\ parsing' = parsing
      /\ \A x : Image(x)' = Image(x) /\ \A k, n, y : Partly(k, n, y)' = Partly(k, n, y)
  BY SamePaths
<1>2. /\ load' = load /\ todo' = todo /\ ph' = ph /\ half' = half /\ symbols' = symbols /\ entry' = entry
      /\ tohost_addr' = tohost_addr /\ fromhost_addr' = fromhost_addr
  BY DEF loadVars
<1>3. \A k, x : Whole(k, x)' = Whole(k, x) BY SamePaths
<1>4. IoPlace' = IoPlace /\ EntryRight' = EntryRight /\ file' = file /\ IsProgram' = IsProgram
  BY <1>1, <1>2 DEF IoPlace, EntryRight, file, IsProgram
<1>5. IoZero => IoZero' BY IoInMemory DEF IoZero
<1>6. \A k : Place(k)' = Place(k) BY <1>1, <1>2, <1>4 DEF Place
<1>7. \A k : OpenAt(k) => OpenAt(k)' BY <1>3, <1>4, <1>6 DEF OpenAt
<1>8. \A k : SegmentsAt(k) => SegmentsAt(k)' BY <1>1, <1>2, <1>4, <1>6 DEF SegmentsAt, HalfWritten
<1>9. \A x \in Address : Booted(x)' = Booted(x) BY <1>1, <1>2 DEF Booted, reset_vec
<1>10. ArgsTypes' BY <1>1 DEF LoadInv, ArgsTypes
<1> QED BY <1>1, <1>2, <1>4, <1>5, <1>7, <1>8, <1>9, <1>10 DEF LoadInv

\* The loops of a call.
LEMMA LoadWorks ==
  ASSUME MemInv, LoadInv, MemStep, UNCHANGED <<argVars, loadVars>>
  PROVE  MemInv' /\ LoadInv'
<1>1. stage # "idle" BY DEF MemStep, HeadBlock, TailBlock, BodyBlock, Finish
<1> QED BY <1>1, GoalStays, LoadSame

\* The first step: the arguments, and where loading starts.
LEMMA StartStep ==
  ASSUME ArgsInv, LoadInv, Start, UNCHANGED argVars
  PROVE  LoadInv'
<1>1. /\ program' = program /\ Paths' = Paths /\ payloads' = payloads /\ parsing' = parsing
      /\ \A x : Image(x)' = Image(x)
  BY SamePaths
<1>2. /\ ph' = ph /\ half' = half /\ symbols' = symbols /\ entry' = entry
      /\ tohost_addr' = tohost_addr /\ fromhost_addr' = fromhost_addr
      /\ UNCHANGED memifVars
  BY DEF Start
<1>3. thrown' = thrown /\ \A x : Goal(x)' = Goal(x) BY <1>2 DEF memifVars, Goal
<1>4. load = "start" /\ parsing = "done" /\ IsProgram /\ entry = DEFAULT_ENTRY /\ IoZero /\ IoPlace /\ ~thrown
      /\ ArgsTypes /\ \A x \in Address : Goal(x) = 0
  BY DEF Start, LoadInv, Loading
<1>5. IsProgram' /\ IoPlace' /\ IoZero' /\ ArgsTypes'
  BY <1>1, <1>2, <1>3, <1>4 DEF IsProgram, IoPlace, IoZero, ArgsTypes
<1>6. Paths \in Seq(STRING) BY <1>4, PathsType
<1>7. CASE program = NONE
  <2>1. EntryRight' BY <1>1, <1>2, <1>4, <1>7 DEF EntryRight
  <2>2. Len(Paths) = 0 BY <1>7 DEF Paths
  <2>3. \A x : Image(x) = 0
    <3> TAKE x
    <3>1. Whole(1, x) = 0 /\ Whole(Len(Paths) + 1, x) = Image(x) BY <1>6, FileByFile
    <3> QED BY <2>2, <3>1
  <2>4. \A x \in Address : Goal(x)' = Image(x)' BY <1>1, <1>3, <1>4, <2>3
  <2>5. load' = "loaded" BY <1>7 DEF Start
  <2> QED BY <1>1, <1>3, <1>4, <1>5, <2>1, <2>4, <2>5 DEF LoadInv, Loading
<1>8. CASE program # NONE
  <2>1. load' = "open" /\ todo' = <<program>> BY <1>8 DEF Start
  <2>2. program \in STRING /\ payloads \in Seq(STRING) BY <1>4 DEF ArgsTypes
  <2>3. Paths[1] = program /\ 1 \in DOMAIN Paths BY <1>8, <2>2 DEF Paths
  <2>4. todo' \in Seq(STRING) /\ todo' # <<>> /\ Head(todo') = program BY <2>1, <2>2
  <2>5. Place(1)' BY <1>1, <1>5, <1>8, <2>3, <2>4 DEF Place
  <2>6. \A x \in Address : Goal(x)' = Whole(1, x)'
    <3>1. \A x : Whole(1, x)' = 0 BY <1>6, SamePaths, FileByFile
    <3> QED BY <1>3, <1>4, <3>1
  <2>7. OpenAt(1)' BY <2>5, <2>6 DEF OpenAt
  <2> QED BY <1>1, <1>3, <1>4, <1>5, <2>1, <2>7 DEF LoadInv, Loading
<1> QED BY <1>7, <1>8

\* A simulation that died promises nothing.
LEMMA DieStep ==
  ASSUME LoadInv, Die, UNCHANGED argVars
  PROVE  LoadInv'
<1>1. load' = "failed" /\ payloads' = payloads /\ parsing' = parsing /\ program' = program
  BY SamePaths DEF Die
<1> QED BY <1>1 DEF LoadInv, ArgsTypes, Loading

\* A file is opened: nothing of it is in memory yet.
LEMMA OpenStep ==
  ASSUME LoadInv, OpenElf, UNCHANGED argVars
  PROVE  LoadInv'
<1>1. /\ program' = program /\ Paths' = Paths /\ payloads' = payloads /\ parsing' = parsing
      /\ \A k, n, x : Partly(k, n, x)' = Partly(k, n, x)
  BY SamePaths
<1>2. CASE Die BY <1>2, DieStep
<1>3. CASE ~Die
  <2>1. /\ Head(todo) \in DOMAIN FILES /\ load' = "segments" /\ ph' = 1 /\ half' = "file"
        /\ entry' = IF IsProgram THEN file.entry ELSE entry
        /\ UNCHANGED <<todo, symbols, addr2symbol, tohost_addr, fromhost_addr, memifVars>>
    BY <1>3 DEF OpenElf
  <2>2. thrown' = thrown /\ \A x : Goal(x)' = Goal(x) BY <2>1 DEF memifVars, Goal
  <2>3. load = "open" /\ parsing = "done" /\ IoZero /\ IoPlace /\ ~thrown /\ ArgsTypes
    BY DEF OpenElf, LoadInv, Loading
  <2>4. PICK k \in Nat : OpenAt(k) BY <2>3 DEF LoadInv
  <2>5. Place(k) /\ Paths[k] = Head(todo) /\ k \in DOMAIN Paths BY <2>4 DEF OpenAt, Place
  <2>6. IsProgram' = IsProgram /\ file' = file BY <2>1 DEF IsProgram, file
  <2>7. IoPlace' /\ IoZero' /\ ArgsTypes' BY <1>1, <2>1, <2>2, <2>3, <2>6 DEF IoPlace, IoZero, ArgsTypes
  <2>8. Place(k)' BY <1>1, <2>1, <2>5, <2>6 DEF Place
  <2>9. Paths \in Seq(STRING) BY <2>3, PathsType
  <2>10. EntryRight'
    <3>1. CASE k = 1
      <4>1. IsProgram /\ program # NONE BY <2>5, <3>1 DEF Place
      <4>2. Paths[1] = program BY <2>3, <4>1 DEF Paths, ArgsTypes
      <4> QED BY <1>1, <2>1, <2>5, <3>1, <4>1, <4>2 DEF EntryRight, file
    <3>2. CASE k # 1 BY <1>1, <2>1, <2>4, <2>5, <3>2 DEF EntryRight, OpenAt, Place
    <3> QED BY <3>1, <3>2
  <2>11. file = PathFile(k) /\ file \in ElfFiles BY <2>1, <2>5 DEF file, PathFile, ElfFiles
  <2>12. 1 \in 1..(Len(file.ph) + 1)
    <3>1. file.ph \in Seq(Phdr) BY <2>11, FileFacts
    <3> QED BY <3>1
  <2>13. \A x \in Address : Goal(x)' = Partly(k, 1, x)'
    <3>1. \A x \in Address : Goal(x) = Whole(k, x) BY <2>4 DEF OpenAt
    <3>2. \A x : Partly(k, 1, x) = Whole(k, x) BY <2>1, <2>5, <2>9, FileByFile
    <3> QED BY <1>1, <2>2, <3>1, <3>2
  <2>14. SegmentsAt(k)'
    BY <1>1, <2>1, <2>5, <2>6, <2>8, <2>10, <2>12, <2>13 DEF SegmentsAt, HalfWritten
  <2> QED BY <1>1, <2>1, <2>2, <2>3, <2>7, <2>14 DEF LoadInv, Loading
<1> QED BY <1>2, <1>3

\* A piece of a segment is written.
LEMMA PieceCall ==
  ASSUME MemInv, NEW a \in Nat, NEW n \in Nat, a + n <= SPACE, NEW f, \A i \in Span(0, n) : f[i] \in BYTE, Write(a, n, f)
  PROVE  /\ MemInv' /\ ~thrown'
         /\ \A x \in Address : Goal(x)' = IF x \in Span(a, n) THEN f[x - a] ELSE Goal(x)
<1> DEFINE d == [i \in Span(0, n) |-> f[i]]
<1>1. d \in DataOf(n) BY DEF DataOf
<1>2. PICK c : c = [wr |-> TRUE, word |-> FALSE, addr |-> a, len |-> n, data |-> d] OBVIOUS
<1>3. c.wr /\ ~c.word /\ c.addr = a /\ c.len = n /\ c.data = d BY <1>2
<1>4. c \in Calls BY <1>1, <1>2, IsCall
<1>5. Call(c) BY <1>2 DEF Write
<1>6. ~thrown' BY <1>3, <1>5 DEF Call
<1>7. \A x \in Span(a, n) : d[x - a] = f[x - a]
  <2>1. \A x \in Span(a, n) : x - a \in Span(0, n) BY DEF Span
  <2> QED BY <2>1
<1> HIDE DEF d
<1>8. MemInv' /\ \A x \in Address : Goal(x)' = IF x \in Span(a, n) THEN d[x - a] ELSE Goal(x)
  BY <1>3, <1>4, <1>5, <1>6, GoalOfCall
<1> QED BY <1>6, <1>7, <1>8

\* What is true while the segments of the k-th file are written.
LEMMA SegmentFacts ==
  ASSUME LoadInv, load = "segments", NEW k \in Nat, SegmentsAt(k)
  PROVE  /\ parsing = "done" /\ IoZero /\ IoPlace /\ ~thrown /\ ArgsTypes /\ Paths \in Seq(STRING)
         /\ file = PathFile(k) /\ file \in ElfFiles /\ k \in DOMAIN Paths /\ Paths[k] \in DOMAIN FILES
         /\ file.ph \in Seq(Phdr) /\ ph \in Nat /\ ph >= 1
<1>1. parsing = "done" /\ IoZero /\ IoPlace /\ ~thrown /\ ArgsTypes BY DEF LoadInv, Loading
<1>2. Paths[k] = Head(todo) /\ k \in DOMAIN Paths /\ Paths[k] \in DOMAIN FILES BY DEF SegmentsAt, Place
<1>3. file = PathFile(k) /\ file \in ElfFiles BY <1>2 DEF file, PathFile, ElfFiles
<1>4. file.ph \in Seq(Phdr) BY <1>3, FileFacts
<1>5. ph \in Nat /\ ph >= 1 BY <1>4 DEF SegmentsAt
<1> QED BY <1>1, <1>2, <1>3, <1>4, <1>5, PathsType

\* The next segment is reached, or its other half.
LEMMA SegmentOn ==
  ASSUME LoadInv, load = "segments", NEW k \in Nat, SegmentsAt(k),
         UNCHANGED <<argVars, load, todo, symbols, addr2symbol, entry, tohost_addr, fromhost_addr>>,
         ~thrown', IoZero', ph' \in 1..(Len(file.ph) + 1), half' \in {"file", "zeros"},
         half' = "zeros" => ph' <= Len(file.ph) /\ PT_LOAD(file.ph[ph']),
         \A x \in Address : Goal(x)' = IF half' = "zeros" /\ x \in Span(file.ph[ph'].paddr, file.ph[ph'].filesz)
                                        THEN SegByte(file, file.ph[ph'], x) ELSE Partly(k, ph', x)
  PROVE  LoadInv'
<1>0. argVars' = argVars OBVIOUS
<1>1. /\ program' = program /\ Paths' = Paths /\ payloads' = payloads /\ parsing' = parsing
      /\ \A n, x : Partly(k, n, x)' = Partly(k, n, x)
  BY <1>0, SamePaths
<1>2. /\ parsing = "done" /\ IoZero /\ IoPlace /\ ~thrown /\ ArgsTypes
  BY SegmentFacts
<1>3. IsProgram' = IsProgram /\ file' = file BY DEF IsProgram, file
<1>4. IoPlace' /\ ArgsTypes' BY <1>1, <1>2, <1>3 DEF IoPlace, ArgsTypes
<1>5. Place(k)' BY <1>1, <1>3 DEF SegmentsAt, Place
<1>6. EntryRight' BY <1>1 DEF SegmentsAt, EntryRight
<1>7. SegmentsAt(k)' BY <1>1, <1>3, <1>5, <1>6 DEF SegmentsAt, HalfWritten
<1> QED BY <1>1, <1>2, <1>4, <1>7 DEF LoadInv, Loading

\* A segment is written: the bytes of the file, zeros behind them.
LEMMA SegmentStep ==
  ASSUME MemInv, LoadInv, Segment, UNCHANGED argVars
  PROVE  MemInv' /\ LoadInv'
<1>1. load = "segments" /\ ph <= Len(file.ph) BY DEF Segment
<1>2. PICK k \in Nat : SegmentsAt(k) BY <1>1 DEF LoadInv
<1>3. /\ parsing = "done" /\ IoZero /\ IoPlace /\ ~thrown /\ ArgsTypes /\ Paths \in Seq(STRING)
      /\ file = PathFile(k) /\ file \in ElfFiles /\ k \in DOMAIN Paths /\ Paths[k] \in DOMAIN FILES
      /\ file.ph \in Seq(Phdr) /\ ph \in Nat /\ ph >= 1
  BY <1>1, <1>2, SegmentFacts
<1>4. ph \in DOMAIN file.ph /\ ph + 1 \in 1..(Len(file.ph) + 1) BY <1>1, <1>3
<1>5. PICK p : p = file.ph[ph] OBVIOUS
<1>6. /\ p.filesz \in Nat /\ p.memsz \in Nat /\ p.paddr \in Nat /\ p.offset \in Nat
      /\ p.filesz <= p.memsz /\ p.paddr + p.memsz <= SPACE /\ p \in Phdr
  <2>1. p \in Phdr /\ p.filesz <= p.memsz /\ p.paddr + p.memsz <= SPACE BY <1>3, <1>4, <1>5, FileFacts
  <2> QED BY <2>1, MemIfAssumption DEF Phdr, Address
<1>7. ASSUME NEW x PROVE Partly(k, ph + 1, x) = IF PT_LOAD(p) /\ x \in Span(p.paddr, p.memsz)
                                                THEN SegByte(file, p, x) ELSE Partly(k, ph, x)
  BY <1>3, <1>4, <1>5, OneMore
<1>8. half \in {"file", "zeros"} /\ (half = "zeros" => PT_LOAD(p))
      /\ \A x \in Address : Goal(x) = IF half = "zeros" /\ x \in Span(p.paddr, p.filesz)
                                       THEN SegByte(file, p, x) ELSE Partly(k, ph, x)
  BY <1>2, <1>5 DEF SegmentsAt, HalfWritten
<1>9. ASSUME PT_LOAD(p), NEW x \in IoBytes, x \in Span(p.paddr, p.memsz) PROVE SegByte(file, p, x) = 0
  BY <1>3, <1>4, <1>5, <1>9, IoAssumption
<1>10. CASE SkipSegment /\ ~PT_LOAD(p)
  <2>1. /\ ph' = ph + 1 /\ UNCHANGED <<load, todo, half, symbols, addr2symbol, entry, tohost_addr, fromhost_addr, memifVars>>
    BY <1>10 DEF SkipSegment
  <2>2. thrown' = thrown /\ \A x : Goal(x)' = Goal(x) BY <2>1 DEF memifVars, Goal
  <2>3. half = "file" /\ half' = half BY <1>8, <1>10, <2>1
  <2>4. \A x \in Address : Goal(x)' = Partly(k, ph', x) BY <1>7, <1>8, <1>10, <2>1, <2>2, <2>3
  <2>5. IoZero' BY <1>3, <2>2 DEF IoZero
  <2>6. MemInv' BY <2>1, Inductive DEF memifVars
  <2> QED BY <1>1, <1>2, <1>3, <1>4, <2>1, <2>2, <2>3, <2>4, <2>5, <2>6, SegmentOn
<1>11. CASE PT_LOAD(p) /\ FileHalf(p)
  <2>1. CASE Die /\ UNCHANGED memifVars
    <3>1. MemInv' BY <2>1, Inductive
    <3> QED BY <2>1, <3>1, DieStep
  <2>2. CASE ~(Die /\ UNCHANGED memifVars)
    <3> DEFINE f == [i \in Span(0, p.filesz) |-> file.bytes[p.offset + i]]
    <3>1. /\ half = "file" /\ p.filesz # 0 /\ file.size >= p.offset + p.filesz /\ Write(p.paddr, p.filesz, f)
          /\ half' = "zeros"
          /\ UNCHANGED <<load, todo, ph, symbols, addr2symbol, entry, tohost_addr, fromhost_addr>>
      BY <1>6, <1>11, <2>2, <1>3, FileFacts DEF FileHalf
    <3>2. \A i \in Span(0, p.filesz) : f[i] \in BYTE
      <4>1. file.size \in Nat /\ \A i \in Span(0, file.size) : file.bytes[i] \in BYTE BY <1>3, FileFacts
      <4>2. \A i \in Span(0, p.filesz) : p.offset + i \in Span(0, file.size) BY <1>6, <3>1, <4>1 DEF Span
      <4> QED BY <4>1, <4>2
    <3>3. \A x \in Span(p.paddr, p.filesz) : f[x - p.paddr] = SegByte(file, p, x)
      <4> TAKE x \in Span(p.paddr, p.filesz)
      <4>1. x - p.paddr \in Span(0, p.filesz) /\ x - p.paddr < p.filesz BY <1>6 DEF Span
      <4>2. p.offset + (x - p.paddr) = p.offset + x - p.paddr BY <1>6 DEF Span
      <4>3. f[x - p.paddr] = file.bytes[p.offset + (x - p.paddr)] BY <4>1
      <4> QED BY <4>1, <4>2, <4>3 DEF SegByte
    <3> HIDE DEF f
    <3>4. p.paddr + p.filesz <= SPACE BY <1>6, MemIfAssumption
    <3>5. /\ MemInv' /\ ~thrown'
          /\ \A x \in Address : Goal(x)' = IF x \in Span(p.paddr, p.filesz) THEN f[x - p.paddr] ELSE Goal(x)
      BY <1>6, <3>1, <3>2, <3>4, PieceCall
    <3>6. \A x \in Address : Goal(x)' = IF x \in Span(p.paddr, p.filesz) THEN SegByte(file, p, x) ELSE Partly(k, ph', x)
      BY <1>8, <3>1, <3>3, <3>5
    <3>7. IoZero'
      <4>1. \A x \in Span(p.paddr, p.filesz) : x \in Span(p.paddr, p.memsz) BY <1>6 DEF Span
      <4> QED BY <1>3, <1>9, <1>11, <3>3, <3>5, <4>1, IoInMemory DEF IoZero
    <3> QED BY <1>1, <1>2, <1>3, <1>4, <1>5, <1>11, <3>1, <3>5, <3>6, <3>7, SegmentOn
  <2> QED BY <2>1, <2>2
<1>12. CASE PT_LOAD(p) /\ ZeroHalf(p)
  <2> DEFINE n == p.memsz - p.filesz
             z == [i \in Span(0, n) |-> 0]
  <2>1. /\ half = "zeros" \/ p.filesz = 0
        /\ Write(p.paddr + p.filesz, n, z) /\ half' = "file" /\ ph' = ph + 1
        /\ UNCHANGED <<load, todo, symbols, addr2symbol, entry, tohost_addr, fromhost_addr>>
    BY <1>12 DEF ZeroHalf
  <2>2. n \in Nat /\ p.paddr + p.filesz \in Nat /\ p.paddr + p.filesz + n <= SPACE BY <1>6, MemIfAssumption
  <2>3. \A i \in Span(0, n) : z[i] = 0 /\ z[i] \in BYTE BY MemIfAssumption
  <2>4. \A x \in Span(p.paddr + p.filesz, n) :
          /\ x - (p.paddr + p.filesz) \in Span(0, n) /\ SegByte(file, p, x) = 0
          /\ x \in Span(p.paddr, p.memsz) /\ x \notin Span(p.paddr, p.filesz)
    BY <1>6 DEF Span, SegByte
  <2>5. \A x \in Int : x \in Span(p.paddr, p.memsz) <=> x \in Span(p.paddr, p.filesz) \/ x \in Span(p.paddr + p.filesz, n)
    BY <1>6 DEF Span
  <2>8. p.filesz = 0 => Span(p.paddr, p.filesz) = {} BY <1>6 DEF Span
  <2> HIDE DEF n, z
  <2>6. /\ MemInv' /\ ~thrown'
        /\ \A x \in Address : Goal(x)' = IF x \in Span(p.paddr + p.filesz, n) THEN z[x - (p.paddr + p.filesz)] ELSE Goal(x)
    BY <2>1, <2>2, <2>3, PieceCall
  <2>7. ASSUME NEW x \in Address PROVE Goal(x)' = Partly(k, ph', x)
    <3>0. x \in Int BY DEF Address
    <3>1. CASE x \in Span(p.paddr + p.filesz, n) BY <1>7, <1>12, <2>1, <2>3, <2>4, <2>6, <3>1
    <3>2. CASE x \notin Span(p.paddr + p.filesz, n) /\ x \in Span(p.paddr, p.filesz)
      BY <1>7, <1>8, <1>12, <2>1, <2>5, <2>6, <2>8, <3>0, <3>2
    <3>3. CASE x \notin Span(p.paddr + p.filesz, n) /\ x \notin Span(p.paddr, p.filesz)
      BY <1>7, <1>8, <1>12, <2>1, <2>5, <2>6, <2>8, <3>0, <3>3
    <3> QED BY <3>1, <3>2, <3>3
  <2>9. IoZero' BY <1>3, <2>3, <2>4, <2>6, IoInMemory DEF IoZero
  <2> QED BY <1>1, <1>2, <1>3, <1>4, <2>1, <2>6, <2>7, <2>9, SegmentOn
<1> QED BY <1>1, <1>5, <1>10, <1>11, <1>12 DEF Segment

\* All segments of a file are written.
LEMMA FileDone ==
  ASSUME LoadInv, SegmentsDone, NEW k \in Nat, SegmentsAt(k)
  PROVE  \A x \in Address : Goal(x) = Whole(k + 1, x)
<1>1. load = "segments" /\ ph > Len(file.ph) BY DEF SegmentsDone
<1>2. /\ Paths \in Seq(STRING) /\ file = PathFile(k) /\ k \in DOMAIN Paths /\ Paths[k] \in DOMAIN FILES
      /\ file.ph \in Seq(Phdr) /\ ph \in Nat
  BY <1>1, SegmentFacts
<1>3. ph = Len(file.ph) + 1 /\ half # "zeros" BY <1>1, <1>2 DEF SegmentsAt
<1>4. \A x \in Address : Goal(x) = Partly(k, ph, x) BY <1>3 DEF SegmentsAt, HalfWritten
<1> QED BY <1>2, <1>3, <1>4, FileByFile

\* What follows a file: the next one, or the end.
LEMMA NextFile ==
  ASSUME LoadInv, SegmentsDone, NEW k \in Nat, SegmentsAt(k), UNCHANGED <<argVars, entry, memifVars>>,
         ~IsProgram', IoPlace', todo' \in Seq(STRING), Len(todo') = Len(Paths) - k,
         \A i \in 1..Len(todo') : todo'[i] = Paths[k + i],
         load' = IF todo' = <<>> THEN "loaded" ELSE "open"
  PROVE  LoadInv'
<1>0. argVars' = argVars OBVIOUS
<1>1. /\ program' = program /\ Paths' = Paths /\ payloads' = payloads /\ parsing' = parsing
      /\ \A x : Image(x)' = Image(x) /\ \A n, y : Whole(n, y)' = Whole(n, y)
  BY <1>0, SamePaths
<1>2. load = "segments" BY DEF SegmentsDone
<1>3. /\ parsing = "done" /\ IoZero /\ ~thrown /\ ArgsTypes /\ Paths \in Seq(STRING) /\ k \in DOMAIN Paths
  BY <1>2, SegmentFacts
<1>4. memifVars' = memifVars OBVIOUS
<1>5. thrown' = thrown /\ \A x : Goal(x)' = Goal(x) BY <1>4 DEF memifVars, Goal
<1>6. \A x \in Address : Goal(x) = Whole(k + 1, x) BY FileDone
<1>7. ArgsTypes' /\ IoZero' BY <1>1, <1>3, <1>5 DEF ArgsTypes, IoZero
<1>8. EntryRight' BY <1>1 DEF SegmentsAt, EntryRight
<1>9. Len(Paths) \in Nat /\ k \in 1..Len(Paths) BY <1>3
<1>10. CASE todo' = <<>>
  <2>1. k = Len(Paths) BY <1>9, <1>10
  <2>2. \A x \in Address : Goal(x)' = Image(x)'
    <3>1. \A x : Whole(Len(Paths) + 1, x) = Image(x) BY <1>3, FileByFile
    <3> QED BY <1>1, <1>5, <1>6, <2>1, <3>1
  <2> QED BY <1>1, <1>3, <1>5, <1>7, <1>8, <1>10, <2>2 DEF LoadInv, Loading
<1>11. CASE todo' # <<>>
  <2>1. Len(todo') \in Nat /\ Len(todo') # 0 BY <1>11
  <2>2. k + 1 \in DOMAIN Paths /\ k + 1 \in Nat /\ k + 1 # 1 BY <1>3, <1>9, <2>1
  <2>3. Head(todo') = Paths[k + 1] BY <1>11, <2>1
  <2>4. program # NONE BY DEF SegmentsAt, Place
  <2>5. Len(todo') = Len(Paths) - (k + 1) + 1 BY <1>9
  <2>6. \A i \in 1..Len(todo') : todo'[i] = Paths[k + 1 + i - 1]
    <3> TAKE i \in 1..Len(todo')
    <3>1. k + 1 + i - 1 = k + i BY <1>9, <2>1
    <3> QED BY <3>1
  <2>7. Place(k + 1)' BY <1>1, <1>11, <2>2, <2>3, <2>4, <2>5, <2>6 DEF Place
  <2>8. \A x \in Address : Goal(x)' = Whole(k + 1, x)' BY <1>1, <1>5, <1>6
  <2>9. OpenAt(k + 1)' BY <1>8, <2>7, <2>8 DEF OpenAt
  <2> QED BY <1>1, <1>3, <1>5, <1>7, <1>11, <2>2, <2>9 DEF LoadInv, Loading
<1> QED BY <1>10, <1>11

\* The program tells where the words for the host are.
LEMMA ProgramStep ==
  ASSUME LoadInv, ProgramLoaded, UNCHANGED argVars
  PROVE  LoadInv'
<1>1. load = "segments" /\ SegmentsDone /\ IsProgram /\ UNCHANGED memifVars BY DEF ProgramLoaded, SegmentsDone
<1>2. PICK k \in Nat : SegmentsAt(k) BY <1>1 DEF LoadInv
<1>3. /\ parsing = "done" /\ ArgsTypes /\ Paths \in Seq(STRING) /\ file \in ElfFiles
  BY <1>1, <1>2, SegmentFacts
<1>4. CASE Die BY <1>4, DieStep
<1>5. CASE ~Die
  <2> DEFINE s == Symbols(file)
  <2>1. /\ {"tohost", "fromhost"} \subseteq DOMAIN s
        /\ symbols' = s /\ tohost_addr' = s["tohost"] /\ fromhost_addr' = s["fromhost"]
        /\ todo' = payloads /\ entry' = entry
        /\ load' = IF payloads = <<>> THEN "loaded" ELSE "open"
    BY <1>5 DEF ProgramLoaded
  <2>2. HasIo(file) /\ tohost_addr' = tohost(file) /\ fromhost_addr' = fromhost(file)
    BY <2>1 DEF HasIo, tohost, fromhost
  <2>3. ~IsProgram'
    <3>1. "tohost" \in DOMAIN symbols' BY <2>1
    <3>2. DOMAIN NoSymbols = {} BY DEF NoSymbols
    <3> QED BY <3>1, <3>2 DEF IsProgram, NoSymbols
  <2>4. <<tohost_addr', fromhost_addr'>> \in IoPairs BY <1>3, <2>2 DEF IoPairs
  <2>5. Span(tohost_addr', 2) \cap Span(fromhost_addr', 2) = {} BY <1>3, <2>2, IoAssumption
  <2>6. IoPlace' BY <2>3, <2>4, <2>5 DEF IoPlace
  <2>7. k = 1 /\ program # NONE BY <1>1, <1>2 DEF SegmentsAt, Place
  <2>8. Paths = <<program>> \o payloads /\ payloads \in Seq(STRING) /\ program \in STRING
    BY <1>3, <2>7 DEF Paths, ArgsTypes
  <2>9. Len(payloads) = Len(Paths) - k BY <2>7, <2>8
  <2>10. \A i \in 1..Len(payloads) : payloads[i] = Paths[k + i] BY <2>7, <2>8
  <2> HIDE DEF s
  <2> QED BY <1>1, <1>2, <2>1, <2>3, <2>6, <2>8, <2>9, <2>10, NextFile
<1> QED BY <1>4, <1>5

\* A payload is loaded, and does not change the start address.
LEMMA PayloadStep ==
  ASSUME LoadInv, PayloadLoaded, UNCHANGED argVars
  PROVE  LoadInv'
<1>1. load = "segments" /\ SegmentsDone /\ ~IsProgram /\ UNCHANGED memifVars BY DEF PayloadLoaded, SegmentsDone
<1>2. PICK k \in Nat : SegmentsAt(k) BY <1>1 DEF LoadInv
<1>3. IoPlace /\ Paths \in Seq(STRING) BY <1>1, <1>2, SegmentFacts
<1>4. CASE Die BY <1>4, DieStep
<1>5. CASE ~Die
  <2>1. todo' = Tail(todo) /\ load' = (IF todo' = <<>> THEN "loaded" ELSE "open")
        /\ UNCHANGED <<symbols, entry, tohost_addr, fromhost_addr>>
    BY <1>5 DEF PayloadLoaded
  <2>2. ~IsProgram' /\ IoPlace' BY <1>1, <1>3, <2>1 DEF IsProgram, IoPlace
  <2>3. /\ todo \in Seq(STRING) /\ todo # <<>> /\ Len(todo) = Len(Paths) - k + 1
        /\ \A i \in 1..Len(todo) : todo[i] = Paths[k + i - 1]
    BY <1>1, <1>2 DEF SegmentsAt, Place
  <2>4. todo' \in Seq(STRING) /\ Len(todo') = Len(Paths) - k BY <1>3, <2>1, <2>3
  <2>5. \A i \in 1..Len(todo') : todo'[i] = Paths[k + i]
    <3> TAKE i \in 1..Len(todo')
    <3>1. i + 1 \in 1..Len(todo) /\ todo'[i] = todo[i + 1] BY <1>3, <2>1, <2>3, <2>4
    <3>2. k + (i + 1) - 1 = k + i BY <3>1
    <3>3. todo[i + 1] = Paths[k + (i + 1) - 1] BY <2>3, <3>1
    <3> QED BY <3>1, <3>2, <3>3
  <2> QED BY <1>1, <1>2, <2>1, <2>2, <2>4, <2>5, NextFile
<1> QED BY <1>4, <1>5

-----------------------------------------------------------------------------
\* The boot code, and the way into the loop.
ResetLength == Len(RESET_CODE) + 1

\* The boot code is a chunk, its last byte the start address.
LEMMA ResetFacts ==
  ASSUME EntryRight
  PROVE  /\ ResetLength \in Nat \ {0} /\ RESET_VEC + ResetLength <= SPACE /\ reset_vec \in DataOf(ResetLength)
         /\ \A i \in Span(0, ResetLength) : reset_vec[i] = Append(RESET_CODE, entry % SPACE)[i + 1]
<1>1. RESET_CODE \in Seq(BYTE) /\ RESET_VEC \in Nat /\ RESET_VEC + ResetLength <= SPACE /\ ResetLength \in Nat \ {0}
  BY LoaderAssumption, MemIfAssumption DEF ResetLength
<1>2. entry \in Nat BY LoaderAssumption, FileFacts DEF EntryRight, ElfFiles
<1>3. entry % SPACE \in Address BY <1>1, <1>2, MemIfAssumption DEF Address
<1>4. entry % SPACE \in BYTE BY <1>3, LoaderAssumption
<1>5. PICK e \in BYTE : e = entry % SPACE BY <1>4
<1>6. reset_vec = [i \in Span(0, ResetLength) |-> IF i < Len(RESET_CODE) THEN RESET_CODE[i + 1] ELSE e]
  BY <1>5 DEF reset_vec, ResetLength
<1>7. \A i \in Span(0, ResetLength) : i < Len(RESET_CODE) => i + 1 \in 1..Len(RESET_CODE)
  BY <1>1 DEF Span, ResetLength
<1>8. \A i \in Span(0, ResetLength) : reset_vec[i] = Append(RESET_CODE, e)[i + 1]
  <2> TAKE i \in Span(0, ResetLength)
  <2>1. i \in 0..Len(RESET_CODE) BY <1>1 DEF Span, ResetLength
  <2>2. reset_vec[i] = IF i < Len(RESET_CODE) THEN RESET_CODE[i + 1] ELSE e BY <1>6
  <2>3. PICK j \in Int : j = i + 1 BY <2>1
  <2>4. j \in 1..(Len(RESET_CODE) + 1) /\ (j <= Len(RESET_CODE) <=> i < Len(RESET_CODE)) BY <1>1, <2>1, <2>3
  <2>5. Append(RESET_CODE, e)[j] = IF j <= Len(RESET_CODE) THEN RESET_CODE[j] ELSE e BY <1>1, <2>4
  <2> QED BY <2>2, <2>3, <2>4, <2>5
<1>9. reset_vec \in DataOf(ResetLength) BY <1>1, <1>5, <1>6, <1>7 DEF DataOf
<1> QED BY <1>1, <1>5, <1>8, <1>9

\* setup_rom makes a chunk of its bytes itself.
LEMMA RomStep ==
  ASSUME MemInv, LoadInv, SetupRom, UNCHANGED argVars
  PROVE  MemInv' /\ LoadInv'
<1>1. /\ Paths' = Paths /\ payloads' = payloads /\ parsing' = parsing /\ program' = program
      /\ \A x : Image(x)' = Image(x)
  BY SamePaths
<1>2. /\ load = "loaded" /\ stage = "idle" /\ load' = "rom" /\ stage' = "body" /\ addr' = RESET_VEC /\ off' = 0
      /\ len' = ResetLength /\ pos' = 0 /\ left' = ResetLength /\ out' = [i \in Span(0, ResetLength) |-> 0]
      /\ before' = mem
      /\ UNCHANGED <<align, mem, thrown, symbols, entry, tohost_addr, fromhost_addr>>
      /\ call' = [wr |-> TRUE, word |-> FALSE, addr |-> RESET_VEC, len |-> ResetLength, data |-> reset_vec]
  BY DEF SetupRom, ResetLength
<1>3. /\ parsing = "done" /\ IoZero /\ IoPlace /\ ~thrown /\ ArgsTypes /\ EntryRight
      /\ \A x \in Address : Goal(x) = Image(x)
  BY <1>2 DEF LoadInv, Loading
<1>4. /\ ResetLength \in Nat \ {0} /\ RESET_VEC + ResetLength <= SPACE /\ reset_vec \in DataOf(ResetLength)
  BY <1>3, ResetFacts
<1>5. RESET_VEC \in Nat BY LoaderAssumption
<1>6. call' \in Calls BY <1>2, <1>4, <1>5, IsCall
<1>7. call'.wr = TRUE /\ call'.addr = RESET_VEC /\ call'.len = ResetLength /\ call'.data = reset_vec BY <1>2
<1>8. MemInv'
  <2>1. [i \in Span(0, ResetLength) |-> 0] \in DataOf(ResetLength) BY MemIfAssumption DEF DataOf
  <2>2. MemTypeOK' BY <1>2, <1>4, <1>5, <1>6, <1>7, <2>1 DEF MemInv, MemTypeOK
  <2>3. MemPlace' BY <1>2, <1>3, <1>4, <1>5, <1>7 DEF MemPlace
  <2>4. \A x \in Span(RESET_VEC, ResetLength) : ~Done(x - RESET_VEC)'
    BY <1>2, <1>4, <1>5 DEF Done, Span
  <2>5. Copied' BY <1>2, <1>7, <2>4 DEF Copied
  <2> QED BY <2>2, <2>3, <2>5 DEF MemInv
<1>9. \A x \in Address : mem[x] = Goal(x) BY <1>2, GoalReached
<1>10. \A x \in Address : Goal(x)' = IF InRom(x) THEN reset_vec[x - RESET_VEC] ELSE Goal(x)
  BY <1>2, <1>3, <1>7, <1>9 DEF Goal, InRom, ResetLength
<1>11. reset_vec' = reset_vec BY <1>2 DEF reset_vec
<1>12. \A x \in Address : Goal(x)' = Booted(x)' BY <1>1, <1>3, <1>10, <1>11 DEF Booted
<1>13. IoZero' BY <1>3, <1>10, IoInMemory, IoAssumption DEF IoZero, InRom
<1>14. IoPlace' /\ ArgsTypes' /\ EntryRight' BY <1>1, <1>2, <1>3 DEF IoPlace, IsProgram, ArgsTypes, EntryRight
<1> QED BY <1>1, <1>2, <1>3, <1>8, <1>12, <1>13, <1>14 DEF LoadInv, Loading

\* The loader's last steps.
LastSteps ==
  /\ stage = "idle"
  /\ <<load, load'>> \in {<<"rom", "ready">>, <<"loaded", "bare">>, <<"ready", "running">>, <<"bare", "running">>}

\* They change nothing of what is loaded.
LEMMA LoadEnds ==
  ASSUME MemInv, LoadInv, UNCHANGED <<argVars, memifVars, symbols, entry, tohost_addr, fromhost_addr>>, LastSteps
  PROVE  MemInv' /\ LoadInv'
<1>1. argVars' = argVars /\ memifVars' = memifVars OBVIOUS
<1>8. /\ stage = "idle"
      /\ \/ load = "rom" /\ load' = "ready"
         \/ load = "loaded" /\ load' = "bare"
         \/ load \in {"ready", "bare"} /\ load' = "running"
  BY DEF LastSteps
<1>2. /\ payloads' = payloads /\ parsing' = parsing /\ program' = program /\ \A x : Image(x)' = Image(x)
  BY <1>1, SamePaths
<1>3. thrown' = thrown /\ \A x : Goal(x)' = Goal(x) BY <1>1 DEF memifVars, Goal
<1>4. MemInv' /\ stage' = "idle" BY <1>1, <1>8, Inductive DEF memifVars
<1>5. /\ parsing = "done" /\ IoZero /\ IoPlace /\ ~thrown /\ ArgsTypes /\ EntryRight
  BY <1>8 DEF LoadInv, Loading
<1>6. IoPlace' /\ ArgsTypes' /\ EntryRight' /\ IoZero'
  BY <1>2, <1>3, <1>5 DEF IoPlace, IsProgram, ArgsTypes, EntryRight, IoZero
<1>7. \A x : Booted(x)' = Booted(x) BY <1>2 DEF Booted, reset_vec
<1> QED BY <1>2, <1>3, <1>4, <1>5, <1>6, <1>7, <1>8 DEF LoadInv, Loading

\* Whatever the loader does.
LEMMA BootStep ==
  ASSUME MemInv, ArgsInv, LoadInv, Boot
  PROVE  MemInv' /\ LoadInv'
<1>0. UNCHANGED argVars BY DEF Boot
<1>1. CASE Start
  <2>1. MemInv'
    <3>1. UNCHANGED memifVars BY <1>1 DEF Start
    <3> QED BY <3>1, Inductive
  <2> QED BY <1>0, <1>1, <2>1, StartStep
<1>2. CASE OpenElf
  <2>1. MemInv'
    <3>1. UNCHANGED memifVars BY <1>2 DEF OpenElf
    <3> QED BY <3>1, Inductive
  <2> QED BY <1>0, <1>2, <2>1, OpenStep
<1>3. CASE Segment BY <1>0, <1>3, SegmentStep
<1>4. CASE ProgramLoaded
  <2>1. MemInv'
    <3>1. UNCHANGED memifVars BY <1>4 DEF ProgramLoaded
    <3> QED BY <3>1, Inductive
  <2> QED BY <1>0, <1>4, <2>1, ProgramStep
<1>5. CASE PayloadLoaded
  <2>1. MemInv'
    <3>1. UNCHANGED memifVars BY <1>5 DEF PayloadLoaded
    <3> QED BY <3>1, Inductive
  <2> QED BY <1>0, <1>5, <2>1, PayloadStep
<1>6. CASE RomDone
  <2>1. /\ load = "rom" /\ stage = "idle" /\ load' = "ready"
        /\ UNCHANGED <<memifVars, symbols, entry, tohost_addr, fromhost_addr>>
    BY <1>6 DEF RomDone
  <2>2. UNCHANGED <<argVars, memifVars, symbols, entry, tohost_addr, fromhost_addr>> BY <1>0, <2>1
  <2>3. LastSteps BY <2>1 DEF LastSteps
  <2> QED BY <2>2, <2>3, LoadEnds
<1>7. CASE NoRom
  <2>1. /\ load = "loaded" /\ stage = "idle" /\ load' = "bare"
        /\ UNCHANGED <<memifVars, symbols, entry, tohost_addr, fromhost_addr>>
    BY <1>7 DEF NoRom
  <2>2. UNCHANGED <<argVars, memifVars, symbols, entry, tohost_addr, fromhost_addr>> BY <1>0, <2>1
  <2>3. LastSteps BY <2>1 DEF LastSteps
  <2> QED BY <2>2, <2>3, LoadEnds
<1>8. CASE SetupRom BY <1>0, <1>8, RomStep
<1>9. CASE MemStep /\ UNCHANGED loadVars BY <1>0, <1>9, LoadWorks
<1> QED BY <1>1, <1>2, <1>3, <1>4, <1>5, <1>6, <1>7, <1>8, <1>9 DEF Boot, LoadStep

\* What the loader has promised when the core comes up.
LEMMA LoadExact == MemInv /\ LoadInv => ImageLoaded
<1> SUFFICES ASSUME MemInv, LoadInv, load \in {"ready", "bare"} PROVE ImageLoaded BY DEF ImageLoaded
<1>1. \A x \in Address : mem[x] = Goal(x) BY GoalReached DEF LoadInv
<1>2. EntryRight BY DEF LoadInv
<1>3. \A x \in Address : mem[x] = IF load = "ready" THEN Booted(x) ELSE Image(x) BY <1>1 DEF LoadInv
<1>4. \A x : InRom(x) => reset_vec[x - RESET_VEC] = Append(RESET_CODE, entry % SPACE)[x - RESET_VEC + 1]
  <2>1. RESET_VEC \in Nat BY LoaderAssumption
  <2>2. \A x : InRom(x) => x - RESET_VEC \in Span(0, ResetLength)
    BY <1>2, <2>1, ResetFacts DEF InRom, Span, ResetLength
  <2> QED BY <1>2, <2>2, ResetFacts
<1> QED BY <1>2, <1>3, <1>4 DEF ImageLoaded, EntryRight, Booted, InRom, Image

-----------------------------------------------------------------------------
(* The conversation.                                                         *)

Told == COMMANDS \cup {FESVR_EXIT}
Replies == {Response(c) : c \in Told}
Taken == Commands \cup {Command(p, r) : p \in BYTE, r \in BYTE}

\* A word of memory, as it is when the call under way is over.
Due(a) == [j \in Span(0, 2) |-> Goal(a + j)]

\* What the recursion of Answers says.
AnswerStep(g, cs, n) == g[n] = IF Answered(cs[n]) THEN Append(g[n - 1], Response(cs[n])) ELSE g[n - 1]
AnswersTo(g, cs) == g[0] = <<>> /\ \A n \in 1..Len(cs) : AnswerStep(g, cs, n)

\* A command, and its answer, are words that are not zero.
LEMMA ToldFacts ==
  ASSUME NEW c \in Told
  PROVE  /\ c \in Commands /\ Response(c) \in Commands /\ Response(c).payload = 1
         /\ Bytes(c) \in [Span(0, 2) -> BYTE] /\ Bytes(c) # Zeros(2)
         /\ Bytes(Response(c)) \in [Span(0, 2) -> BYTE] /\ Bytes(Response(c)) # Zeros(2)
         /\ IsSyscall(c) /\ ~Exits(c) => Apart(c.payload, MAGICMEM)
         /\ c.cmd = MAX_COMMANDS - 1 /\ NamePlace(c) % IDENTITY_SIZE = 0 => Apart(NamePlace(c), IDENTITY_SIZE)
<1>1. c \in Commands /\ 1 \in BYTE BY SessionAssumption DEF Told
<1>2. c.payload \in Nat /\ c.device \in Nat /\ c.cmd \in 0..(MAX_COMMANDS - 1) BY <1>1 DEF Commands
<1>3. PICK r : r = Response(c) OBVIOUS
<1>4. r \in Commands /\ r.payload = 1 /\ r.device = c.device /\ r.cmd = c.cmd
  BY <1>1, <1>2, <1>3 DEF Response, Commands
<1>5. Bytes(c) \in [Span(0, 2) -> BYTE] /\ Bytes(c) # Zeros(2) BY SessionAssumption DEF Told
<1>6. 0 \in Span(0, 2) /\ 1 \in Span(0, 2) /\ \A j \in Span(0, 2) : j = 0 \/ j = 1 BY DEF Span
<1>7. Bytes(c)[1] = c.device * MAX_COMMANDS + c.cmd BY <1>6 DEF Bytes
<1>8. c.device * MAX_COMMANDS + c.cmd \in BYTE BY <1>5, <1>6, <1>7
<1>9. Bytes(r) = [j \in Span(0, 2) |-> IF j = 0 THEN 1 ELSE c.device * MAX_COMMANDS + c.cmd]
  BY <1>4 DEF Bytes
<1>10. Bytes(r) \in [Span(0, 2) -> BYTE] BY <1>1, <1>8, <1>9
<1>11. Bytes(r)[0] = 1 /\ Zeros(2)[0] = 0 BY <1>6, <1>9 DEF Zeros
<1>12. IsSyscall(c) /\ ~Exits(c) => Apart(c.payload, MAGICMEM) BY SessionAssumption DEF Told
<1>13. c.cmd = MAX_COMMANDS - 1 /\ NamePlace(c) % IDENTITY_SIZE = 0 => Apart(NamePlace(c), IDENTITY_SIZE)
  BY SessionAssumption DEF Told
<1> QED BY <1>1, <1>3, <1>4, <1>5, <1>10, <1>11, <1>12, <1>13

\* Quotient and remainder.
LEMMA Quotient ==
  ASSUME NEW m \in Nat \ {0}, NEW q \in Int, NEW r \in 0..(m - 1), NEW x \in Int,
         x = m * q + r
  PROVE  x \div m = q /\ x % m = r
<1>1. PICK e \in Int : e = (x \div m) - q OBVIOUS
<1>2. x = m * (x \div m) + (x % m) /\ x % m \in 0..(m - 1) /\ x \div m \in Int BY SMT
<1>3. m * e = r - (x % m) BY <1>1, <1>2, SMT
<1>4. e >= 1 => m * e >= m BY SMT
<1>5. e <= -1 => m * e <= -m BY SMT
<1>6. e = 0 BY <1>2, <1>3, <1>4, <1>5
<1> QED BY <1>1, <1>2, <1>3, <1>6, SMT

\* A word tells its command.
LEMMA CommandOfBytes ==
  ASSUME NEW c \in Commands
  PROVE  Command(Bytes(c)[0], Bytes(c)[1]) = c
<1>1. c.payload \in Nat /\ c.device \in Nat /\ c.cmd \in 0..(MAX_COMMANDS - 1) BY DEF Commands
<1>2. MAX_COMMANDS \in Nat \ {0} BY SessionAssumption
<1>3. 0 \in Span(0, 2) /\ 1 \in Span(0, 2) BY DEF Span
<1>4. PICK d \in Nat : d = c.device BY <1>1
<1>5. PICK m \in Nat : m = c.cmd /\ m < MAX_COMMANDS BY <1>1, <1>2
<1>6. PICK M \in Nat \ {0} : M = MAX_COMMANDS BY <1>2
<1>7. PICK w \in Int : w = d * M + m OBVIOUS
<1>8. w \div M = d /\ w % M = m
  <2>1. m \in 0..(M - 1) /\ d \in Int BY <1>5, <1>6
  <2>2. w = M * d + m BY <1>7
  <2> QED BY ONLY <2>1, <2>2, M \in Nat \ {0}, w \in Int, Quotient
<1>9. Bytes(c)[0] = c.payload /\ Bytes(c)[1] = w BY <1>3, <1>4, <1>5, <1>6, <1>7 DEF Bytes
<1>10. c = [payload |-> c.payload, device |-> d, cmd |-> m] BY <1>4, <1>5 DEF Commands
<1> QED BY <1>6, <1>8, <1>9, <1>10 DEF Command

\* Answers is what its recursion says.
LEMMA AnswersAre == ASSUME commands \in Seq(Told) PROVE AnswersTo(Answers, commands)
<1>1. PICK n : n = Len(commands) OBVIOUS
<1>2. n \in Nat BY <1>1
<1>0. PICK V : V = Seq(Commands) OBVIOUS
<1>3. PICK step : step = [i \in 1..n |-> [s \in V |->
                IF Answered(commands[i]) THEN Append(s, Response(commands[i])) ELSE s]] OBVIOUS
<1>4. step \in [1..n -> [V -> V]]
  <2>1. ASSUME NEW i \in 1..n, NEW s \in V PROVE Append(s, Response(commands[i])) \in V
    <3>1. commands[i] \in Told BY <1>1
    <3>2. Response(commands[i]) \in Commands BY <3>1, ToldFacts
    <3> QED BY <1>0, <3>2
  <2> QED BY <1>3, <2>1
<1>5. PICK f : Solution(f, n, V, <<>>, step)
  <2>1. <<>> \in V BY <1>0
  <2> QED BY ONLY <1>2, <1>4, <2>1, Recursion
<1>6. f \in [0..n -> V] /\ f[0] = <<>> BY <1>5 DEF Solution
<1> DEFINE E(g, i) == IF i = 0 THEN <<>>
                      ELSE IF Answered(commands[i]) THEN Append(g[i - 1], Response(commands[i]))
                      ELSE g[i - 1]
<1>7. ASSUME NEW i \in 1..n PROVE f[i] = E(f, i)
  <2>1. i - 1 \in 0..n BY <1>2
  <2>2. f[i - 1] \in V BY <1>6, <2>1
  <2>3. f[i] = step[i][f[i - 1]] BY <1>5 DEF Solution
  <2> QED BY <1>3, <2>2, <2>3
<1>8. f = [i \in 0..Len(commands) |-> E(f, i)]
  <2>1. ASSUME NEW i \in 0..n PROVE f[i] = E(f, i)
    <3>1. CASE i = 0 BY <3>1, <1>6
    <3>2. CASE i # 0
      <4>1. i \in 1..n BY <3>2, <1>2
      <4> QED BY <4>1, <1>7
    <3> QED BY <3>1, <3>2
  <2> QED BY <2>1, <1>6, <1>1
<1>9. Answers = [i \in 0..Len(commands) |-> E(Answers, i)]
  BY <1>8 DEF Answers
<1> DEFINE G == Answers
<1> HIDE DEF G
<1>10. G = [i \in 0..Len(commands) |-> E(G, i)] BY <1>9 DEF G
<1>11. G[0] = <<>>
  <2>1. 0 \in 0..Len(commands) BY <1>1, <1>2
  <2> QED BY <1>10, <2>1
<1>12. \A i \in 1..Len(commands) : AnswerStep(G, commands, i)
  <2>1. \A i \in 1..Len(commands) : i \in 0..Len(commands) /\ i # 0 BY <1>1, <1>2
  <2> QED BY <1>10, <2>1 DEF AnswerStep
<1> QED BY <1>11, <1>12 DEF AnswersTo, G

\* Commands that come later do not change the answers to those before.
LEMMA SameAnswers ==
  ASSUME NEW g, NEW h, NEW cs, NEW ds, AnswersTo(g, cs), AnswersTo(h, ds), NEW m \in Nat,
         Len(cs) \in Nat, Len(ds) \in Nat, m <= Len(cs), m <= Len(ds), \A n \in 1..m : cs[n] = ds[n]
  PROVE  \A n \in 0..m : g[n] = h[n]
<1>1. PICK Differing : Differing = {n \in 0..m : g[n] # h[n]} OBVIOUS
<1>2. ASSUME NEW k \in Differing, \A l \in Differing : k <= l PROVE FALSE
  <2>1. k \in 0..m /\ g[k] # h[k] BY <1>1
  <2>2. k # 0 BY <2>1 DEF AnswersTo
  <2>3. k - 1 \in 0..m /\ k - 1 \notin Differing BY <1>2, <2>1, <2>2
  <2>4. g[k - 1] = h[k - 1] BY <1>1, <2>3
  <2>5. k \in 1..Len(cs) /\ k \in 1..Len(ds) /\ cs[k] = ds[k] BY <2>1, <2>2
  <2>6. AnswerStep(g, cs, k) /\ AnswerStep(h, ds, k) BY <2>5 DEF AnswersTo
  <2> QED BY <2>1, <2>4, <2>5, <2>6 DEF AnswerStep
<1>3. Differing \in SUBSET Nat BY <1>1
<1>4. Differing = {}
  <2> SUFFICES ASSUME Differing # {} PROVE FALSE OBVIOUS
  <2>1. \E x \in Differing : \A y \in Differing : x <= y BY ONLY Differing # {}, <1>3, Least
  <2> QED BY ONLY <1>2, <2>1
<1> QED BY <1>1, <1>4

-----------------------------------------------------------------------------
\* The first n commands are answered, and their last exit has set the code.
Settled(n) ==
  \A k \in 1..n : Exits(commands[k]) =>
    /\ stopped
    /\ (\A j \in 1..n : j > k => ~Exits(commands[j])) => exitcode = commands[k].payload
Owed(n) == taken \o Message(Due(fromhost_addr)) \o fromhost_queue = Answers[n]
Even(n) == Owed(n) /\ Settled(n)

\* No command is left, or one, which is still to be seen or handled.
Quiet == Due(tohost_addr) = Zeros(2) /\ Even(Len(commands))
Newest == commands[Len(commands)]
Pending == commands # <<>> /\ Even(Len(commands) - 1)
Waiting == Quiet \/ (Pending /\ Due(tohost_addr) = Bytes(Newest))
Handling == Pending /\ Due(tohost_addr) = Zeros(2) /\ cmd = Newest

\* Where the host is in its turn.
Phase ==
  /\ turn \in {"target", "check", "deliver"} => Quiet
  /\ turn \in {"poll", "clear"} => Waiting
  /\ turn \in {"handle", "dispatch"} => Handling
  /\ turn = "clear" => Reads(tohost_addr, 2)
  /\ turn = "dispatch" => IsSyscall(cmd) /\ ~Exits(cmd) /\ Reads(cmd.payload, MAGICMEM)
  /\ turn = "deliver" => fromhost_queue # <<>> /\ Reads(fromhost_addr, 2)

\* Nothing is said to a simulator without a program, fesvr450.cc only says its
\* own exit, and no command is handled behind one that stopped sim_main2.cc.
Turns == {"target", "left", "poll", "clear", "handle", "dispatch", "check", "deliver", "over"}
TalkTypes ==
  /\ driver \in DRIVERS /\ turn \in Turns /\ stopped \in BOOLEAN
  /\ commands \in Seq(Told) /\ fromhost_queue \in Seq(Replies) /\ taken \in Seq(Taken)
  /\ IsProgram => commands = <<>> /\ fromhost_queue = <<>>
  /\ driver = "fesvr450" => \A k \in 1..Len(commands) : commands[k] = FESVR_EXIT
  /\ driver = "sim_main2" /\ turn \in {"poll", "clear", "handle", "dispatch"} => ~stopped

\* The invariant of the conversation.
TalkInv ==
  load # "failed" =>
    /\ TalkTypes
    /\ load # "running" => turn = "target" /\ commands = <<>> /\ taken = <<>> /\ fromhost_queue = <<>>
    /\ load = "running" /\ ~thrown => Phase

-----------------------------------------------------------------------------
\* A word that a step does not reach, and one that it writes.
LEMMA WordKept ==
  ASSUME NEW S, \A x \in Address : x \notin S => Goal(x)' = Goal(x)
  PROVE  \A a \in 0..(SPACE - 2) : Span(a, 2) \cap S = {} => Due(a)' = Due(a)
<1> TAKE a \in 0..(SPACE - 2)
<1> HAVE Span(a, 2) \cap S = {}
<1>1. \A j \in Span(0, 2) : a + j \in Span(a, 2) /\ a + j \in Address BY MemIfAssumption DEF Span, Address
<1>2. \A j \in Span(0, 2) : Goal(a + j)' = Goal(a + j) BY <1>1
<1> QED BY <1>2 DEF Due

\* A word that is written.
LEMMA WordWritten ==
  ASSUME NEW a \in 0..(SPACE - 2), NEW w, w = [j \in Span(0, 2) |-> w[j]],
         \A x \in Address : x \in Span(a, 2) => Goal(x)' = w[x - a]
  PROVE  Due(a)' = w
<1>1. \A j \in Span(0, 2) : a + j \in Span(a, 2) /\ a + j \in Address /\ (a + j) - a = j
  BY MemIfAssumption DEF Span, Address
<1>2. \A j \in Span(0, 2) : Goal(a + j)' = w[j] BY <1>1
<1> QED BY <1>2 DEF Due

\* The words for the host.
LEMMA IoFacts ==
  ASSUME LoadInv, load # "failed"
  PROVE  /\ tohost_addr \in 0..(SPACE - 2) /\ fromhost_addr \in 0..(SPACE - 2)
         /\ Span(tohost_addr, 2) \subseteq IoBytes /\ Span(fromhost_addr, 2) \subseteq IoBytes
         /\ <<tohost_addr, fromhost_addr>> \in IoPairs
         /\ ~IsProgram => Span(tohost_addr, 2) \cap Span(fromhost_addr, 2) = {}
         /\ IsProgram => tohost_addr = 0 /\ fromhost_addr = 0
         /\ SPACE \in Nat /\ SPACE - 2 \in Nat
<1>1. IoPlace BY DEF LoadInv
<1>2. PICK io \in IoPairs : io = <<tohost_addr, fromhost_addr>> BY <1>1 DEF IoPlace
<1>3. {io[1], io[2]} \subseteq 0..(SPACE - 2) BY IoAssumption
<1>4. Span(io[1], 2) \cup Span(io[2], 2) \subseteq IoBytes BY DEF IoBytes
<1>5. io[1] = tohost_addr /\ io[2] = fromhost_addr BY <1>2
<1> QED BY <1>1, <1>2, <1>3, <1>4, <1>5, MemIfAssumption DEF IoPlace

\* Steps of the host leave the rest alone.
LEMMA LoadRunning ==
  ASSUME LoadInv, load = "running", UNCHANGED <<argVars, loadVars>>
  PROVE  LoadInv'
<1>0. argVars' = argVars OBVIOUS
<1>1. /\ program' = program /\ payloads' = payloads /\ parsing' = parsing BY <1>0, SamePaths
<1>2. load' = load /\ symbols' = symbols /\ tohost_addr' = tohost_addr /\ fromhost_addr' = fromhost_addr
  BY DEF loadVars
<1>3. IoPlace /\ ArgsTypes BY DEF LoadInv
<1>4. IoPlace' /\ ArgsTypes' BY <1>1, <1>2, <1>3 DEF IoPlace, IsProgram, ArgsTypes
<1> QED BY <1>1, <1>2, <1>4 DEF LoadInv, Loading

\* What a read leads to.
LEMMA ReadCall ==
  ASSUME MemInv, NEW word \in BOOLEAN, NEW a \in Nat, NEW n \in Nat \ {0}, a + n <= SPACE,
         Call([wr |-> FALSE, word |-> word, addr |-> a, len |-> n, data |-> Zeros(n)])
  PROVE  /\ MemInv' /\ ~call'.wr /\ call'.addr = a /\ call'.len = n
         /\ \A x \in Address : Goal(x)' = Goal(x)
<1>1. Zeros(n) \in DataOf(n) BY MemIfAssumption DEF Zeros, DataOf
<1>2. PICK c : c = [wr |-> FALSE, word |-> word, addr |-> a, len |-> n, data |-> Zeros(n)] OBVIOUS
<1>3. ~c.wr /\ c.addr = a /\ c.len = n BY <1>2
<1>6. n \in Nat /\ (word => n > 0) /\ FALSE \in BOOLEAN OBVIOUS
<1>4. c \in Calls BY <1>1, <1>2, <1>6, IsCall
<1>5. Call(c) BY <1>2
<1> QED BY <1>3, <1>4, <1>5, GoalOfCall

\* What a write leads to.
LEMMA WriteCall ==
  ASSUME MemInv, NEW word \in BOOLEAN, NEW a \in Nat, NEW n \in Nat \ {0}, a + n <= SPACE, NEW d \in DataOf(n),
         Call([wr |-> TRUE, word |-> word, addr |-> a, len |-> n, data |-> d])
  PROVE  /\ MemInv' /\ (~word => ~thrown')
         /\ ~thrown' => \A x \in Address : Goal(x)' = IF x \in Span(a, n) THEN d[x - a] ELSE Goal(x)
<1>2. PICK c : c = [wr |-> TRUE, word |-> word, addr |-> a, len |-> n, data |-> d] OBVIOUS
<1>3. c.wr /\ c.word = word /\ c.addr = a /\ c.len = n /\ c.data = d BY <1>2
<1>7. n \in Nat /\ (word => n > 0) /\ TRUE \in BOOLEAN OBVIOUS
<1>4. c \in Calls BY <1>2, <1>7, IsCall
<1>5. Call(c) BY <1>2
<1>6. ~word => ~thrown' BY <1>3, <1>5 DEF Call
<1> QED BY <1>3, <1>4, <1>5, <1>6, GoalOfCall

\* The answers so far do not change when the words, the queue, the commands and
\* the exit code do not.
LEMMA EvenSame ==
  ASSUME UNCHANGED <<taken, fromhost_queue, commands, stopped, exitcode>>,
         Due(fromhost_addr)' = Due(fromhost_addr), NEW n, Even(n)
  PROVE  Even(n)'
<1>1. Answers' = Answers BY DEF Answers
<1>2. Owed(n)' BY <1>1 DEF Even, Owed
<1>3. Settled(n)' BY DEF Even, Settled
<1> QED BY <1>2, <1>3 DEF Even

\* Where neither the words nor what is said changes, nor the place in a turn.
LEMMA TalkSame ==
  ASSUME LoadInv, TalkInv,
         UNCHANGED <<loadVars, turn, cmd, fromhost_queue, exitcode, stopped, driver, commands, taken, thrown, call>>,
         \A x \in Address : Goal(x)' = Goal(x)
  PROVE  TalkInv'
<1>1. load' = load /\ symbols' = symbols /\ tohost_addr' = tohost_addr /\ fromhost_addr' = fromhost_addr
  BY DEF loadVars
<1>2. SUFFICES ASSUME load # "failed" PROVE TalkInv' BY <1>1 DEF TalkInv
<1>3. TalkTypes' BY <1>1, <1>2 DEF TalkInv, TalkTypes, IsProgram
<1>4. SUFFICES ASSUME load = "running", ~thrown PROVE Phase' BY <1>1, <1>2, <1>3 DEF TalkInv
<1>5. \A a \in 0..(SPACE - 2) : Due(a)' = Due(a)
  <2>1. \A a \in 0..(SPACE - 2) : Span(a, 2) \cap {} = {} => Due(a)' = Due(a) BY WordKept
  <2> QED BY <2>1
<1>6. Due(tohost_addr)' = Due(tohost_addr) /\ Due(fromhost_addr)' = Due(fromhost_addr)
  BY <1>1, <1>2, <1>5, IoFacts
<1>7. \A n : Even(n) => Even(n)' BY <1>6, EvenSame
<1>8. Phase BY <1>4 DEF TalkInv
<1> QED BY <1>1, <1>6, <1>7, <1>8 DEF Phase, Quiet, Pending, Waiting, Handling, Newest, Reads

-----------------------------------------------------------------------------
(* The words and what is said, step by step.                                 *)

\* Where nothing is said, nothing is owed.
LEMMA QuietKept ==
  ASSUME Quiet, UNCHANGED <<taken, fromhost_queue, commands, stopped, exitcode>>,
         Due(tohost_addr)' = Due(tohost_addr), Due(fromhost_addr)' = Due(fromhost_addr)
  PROVE  Quiet'
<1>1. Even(Len(commands)) BY DEF Quiet
<1>2. Even(Len(commands))' BY <1>1, EvenSame
<1> QED BY <1>2 DEF Quiet

\* The target writes a command.
LEMMA Tells ==
  ASSUME TalkTypes, Quiet, NEW c \in Told, commands' = Append(commands, c),
         UNCHANGED <<taken, fromhost_queue, stopped, exitcode>>,
         Due(tohost_addr)' = Bytes(c), Due(fromhost_addr)' = Due(fromhost_addr)
  PROVE  Waiting'
<1>1. commands \in Seq(Told) /\ commands' \in Seq(Told) BY DEF TalkTypes
<1>2. PICK n \in Nat : n = Len(commands) BY <1>1
<1>3. Len(commands') = n + 1 /\ Len(commands') - 1 = n /\ commands' # <<>> BY <1>1, <1>2
<1>4. \A k \in 1..n : commands'[k] = commands[k] BY <1>1, <1>2
<1>5. commands'[Len(commands')] = c BY <1>1, <1>2, <1>3
<1>6. AnswersTo(Answers, commands) BY <1>1, AnswersAre
<1>7. AnswersTo(Answers, commands)'
  <2>1. (commands \in Seq(Told) => AnswersTo(Answers, commands))' BY AnswersAre, PTL
  <2> QED BY <1>1, <2>1
<1>8. Answers'[n] = Answers[n]
  <2>1. n <= Len(commands) /\ n <= Len(commands') /\ Len(commands) \in Nat /\ Len(commands') \in Nat /\ n \in 0..n
    BY <1>2, <1>3
  <2>2. PICK g, cs : g = Answers' /\ cs = commands' OBVIOUS
  <2>3. AnswersTo(g, cs) BY <1>7, <2>2 DEF AnswersTo, AnswerStep
  <2>4. PICK h, ds : h = Answers /\ ds = commands OBVIOUS
  <2>5. AnswersTo(h, ds) BY <1>6, <2>4
  <2>6. \A k \in 1..n : cs[k] = ds[k] BY <1>4, <2>2, <2>4
  <2>7. \A k \in 0..n : g[k] = h[k] BY ONLY <2>1, <2>2, <2>3, <2>4, <2>5, <2>6, n \in Nat, SameAnswers
  <2> QED BY <2>1, <2>2, <2>4, <2>7
<1>9. Even(n) BY <1>2 DEF Quiet
<1>10. Even(n)' BY <1>4, <1>8, <1>9 DEF Even, Owed, Settled
<1> QED BY <1>3, <1>5, <1>10 DEF Waiting, Pending, Newest

\* The queue moves up: from fromhost to the target, from the queue to fromhost.
LEMMA MovesUp ==
  ASSUME NEW T, NEW s \in Seq(T), NEW q \in Seq(T), NEW x \in T, NEW y \in T
  PROVE  /\ (s \o <<x>>) \o q = (Append(s, x) \o <<>>) \o q
         /\ (s \o <<>>) \o Append(q, x) = Append((s \o <<>>) \o q, x)
         /\ (s \o <<y>>) \o Append(q, x) = Append((s \o <<y>>) \o q, x)
         /\ q # <<>> => (s \o <<Head(q)>>) \o Tail(q) = (s \o <<>>) \o q
<1>0. <<x>> \in Seq(T) /\ <<>> \in Seq(T) OBVIOUS
<1>1. Append(s, x) = s \o <<x>> /\ Append(s, x) \in Seq(T) BY AppendIsConcat
<1>2. s \o <<>> = s /\ Append(s, x) \o <<>> = Append(s, x) BY <1>1, ConcatEmptySeq
<1>3. ASSUME NEW u \in Seq(T) PROVE u \o Append(q, x) = Append(u \o q, x)
  <2>1. Append(q, x) = q \o <<x>> /\ u \o q \in Seq(T) BY AppendIsConcat
  <2>2. Append(u \o q, x) = (u \o q) \o <<x>> BY ONLY <2>1, x \in T, AppendIsConcat
  <2>3. (u \o q) \o <<x>> = u \o (q \o <<x>>) BY <1>0, ConcatAssociative
  <2> QED BY <2>1, <2>2, <2>3
<1>4. s \o <<y>> \in Seq(T) OBVIOUS
<1>5. ASSUME q # <<>> PROVE (s \o <<Head(q)>>) \o Tail(q) = s \o q
  <2>1. Head(q) \in T /\ Tail(q) \in Seq(T) BY <1>5
  <2>2. <<Head(q)>> \in Seq(T) BY <2>1
  <2>3. <<Head(q)>> \o Tail(q) = q BY <1>5
  <2>4. (s \o <<Head(q)>>) \o Tail(q) = s \o (<<Head(q)>> \o Tail(q)) BY <2>1, <2>2, ConcatAssociative
  <2> QED BY <2>3, <2>4
<1> QED BY <1>1, <1>2, <1>3, <1>4, <1>5

\* The target takes an answer.
LEMMA Takes ==
  ASSUME TalkTypes, Quiet, UNCHANGED <<fromhost_queue, commands, stopped, exitcode>>,
         NEW w \in [Span(0, 2) -> BYTE], Due(fromhost_addr) = w, w # Zeros(2),
         taken' = Append(taken, Command(w[0], w[1])),
         Due(tohost_addr)' = Due(tohost_addr), Due(fromhost_addr)' = Zeros(2)
  PROVE  Quiet' /\ taken' \in Seq(Taken)
<1>1. 0 \in Span(0, 2) /\ 1 \in Span(0, 2) BY DEF Span
<1>2. PICK c \in Taken : c = Command(w[0], w[1]) BY <1>1 DEF Taken
<1>3. taken \in Seq(Taken) /\ fromhost_queue \in Seq(Taken)
  <2>1. Replies \subseteq Taken BY ToldFacts DEF Replies, Taken
  <2> QED BY <2>1 DEF TalkTypes
<1>4. (taken \o <<c>>) \o fromhost_queue = (Append(taken, c) \o <<>>) \o fromhost_queue
  BY <1>3, MovesUp
<1>5. Message(w) = <<c>> /\ Message(Zeros(2)) = <<>> BY <1>2 DEF Message
<1>6. Answers' = Answers /\ Even(Len(commands)) BY DEF Answers, Quiet
<1>7. Owed(Len(commands))' BY <1>2, <1>4, <1>5, <1>6 DEF Even, Owed
<1>8. Settled(Len(commands))' BY <1>6 DEF Even, Settled
<1>9. taken' \in Seq(Taken) BY <1>2, <1>3
<1> QED BY <1>7, <1>8, <1>9 DEF Quiet, Even

\* The host hands out an answer.
LEMMA Delivers ==
  ASSUME TalkTypes, Quiet, UNCHANGED <<taken, commands, stopped, exitcode>>,
         fromhost_queue # <<>>, Due(fromhost_addr) = Zeros(2), fromhost_queue' = Tail(fromhost_queue),
         Due(tohost_addr)' = Due(tohost_addr), Due(fromhost_addr)' = Bytes(Head(fromhost_queue))
  PROVE  Quiet'
<1>1. taken \in Seq(Taken) /\ fromhost_queue \in Seq(Taken)
  <2>1. Replies \subseteq Taken BY ToldFacts DEF Replies, Taken
  <2> QED BY <2>1 DEF TalkTypes
<1>2. PICK r : r = Head(fromhost_queue) OBVIOUS
<1>3. r \in Replies BY <1>2 DEF TalkTypes
<1>4. PICK c \in Told : r = Response(c) BY <1>3 DEF Replies
<1>5. r \in Commands /\ Bytes(r) # Zeros(2) BY <1>4, ToldFacts
<1>6. Command(Bytes(r)[0], Bytes(r)[1]) = r BY <1>5, CommandOfBytes
<1>7. Message(Bytes(r)) = <<r>> /\ Message(Zeros(2)) = <<>> BY <1>5, <1>6 DEF Message
<1>8. (taken \o <<r>>) \o Tail(fromhost_queue) = (taken \o <<>>) \o fromhost_queue
  <2>1. r \in Taken BY <1>5 DEF Taken
  <2> QED BY <1>1, <1>2, <2>1, MovesUp
<1>9. Answers' = Answers /\ Even(Len(commands)) BY DEF Answers, Quiet
<1>10. Owed(Len(commands))' BY <1>2, <1>7, <1>8, <1>9 DEF Even, Owed
<1>11. Settled(Len(commands))' BY <1>9 DEF Even, Settled
<1> QED BY <1>10, <1>11 DEF Quiet, Even

\* The host has handled the last command.
LEMMA Handles ==
  ASSUME TalkTypes, Handling, UNCHANGED <<taken, commands>>,
         fromhost_queue' = IF Answered(cmd) THEN Append(fromhost_queue, Response(cmd)) ELSE fromhost_queue,
         \/ Exits(cmd) /\ stopped' /\ exitcode' = cmd.payload
         \/ ~Exits(cmd) /\ stopped' = stopped /\ (stopped => exitcode' = exitcode),
         Due(tohost_addr)' = Due(tohost_addr), Due(fromhost_addr)' = Due(fromhost_addr)
  PROVE  Quiet' /\ fromhost_queue' \in Seq(Replies)
<1>1. /\ taken \in Seq(Taken) /\ fromhost_queue \in Seq(Replies) /\ fromhost_queue \in Seq(Taken)
      /\ commands \in Seq(Told)
  <2>1. Replies \subseteq Taken BY ToldFacts DEF Replies, Taken
  <2> QED BY <2>1 DEF TalkTypes
<1>2. PICK n \in Nat : n = Len(commands) BY <1>1
<1>3. n \in 1..n /\ commands[n] = cmd /\ cmd \in Told /\ Even(n - 1) /\ Due(tohost_addr) = Zeros(2)
  BY <1>1, <1>2 DEF Handling, Pending, Newest
<1>4. AnswersTo(Answers, commands) BY <1>1, AnswersAre
<1>5. AnswerStep(Answers, commands, n) BY <1>2, <1>3, <1>4 DEF AnswersTo
<1>6. PICK r : r = Response(cmd) OBVIOUS
<1>7. r \in Replies /\ r \in Taken BY <1>3, <1>6, ToldFacts DEF Replies, Taken
<1>8. fromhost_queue' \in Seq(Replies) BY <1>1, <1>6, <1>7
<1>9. PICK m : m = Message(Due(fromhost_addr)) OBVIOUS
<1>10. (taken \o m) \o Append(fromhost_queue, r) = Append((taken \o m) \o fromhost_queue, r)
  <2>1. PICK y : y = Command(Due(fromhost_addr)[0], Due(fromhost_addr)[1]) OBVIOUS
  <2>2. m = <<>> \/ m = <<y>> BY <1>9, <2>1 DEF Message
  <2>3. PICK T : T = Taken \cup {y} OBVIOUS
  <2>4. y \in T /\ r \in T /\ taken \in Seq(T) /\ fromhost_queue \in Seq(T) BY <1>1, <1>7, <2>3
  <2>5. /\ (taken \o <<>>) \o Append(fromhost_queue, r) = Append((taken \o <<>>) \o fromhost_queue, r)
        /\ (taken \o <<y>>) \o Append(fromhost_queue, r) = Append((taken \o <<y>>) \o fromhost_queue, r)
    BY ONLY <2>4, MovesUp
  <2> QED BY <2>2, <2>5
<1>11. (taken \o m) \o fromhost_queue = Answers[n - 1] BY <1>3, <1>9 DEF Even, Owed
<1>12. (taken \o m) \o fromhost_queue' = Answers[n]
  <2>1. Answers[n] = IF Answered(cmd) THEN Append(Answers[n - 1], r) ELSE Answers[n - 1]
    BY <1>3, <1>5, <1>6 DEF AnswerStep
  <2> QED BY <1>6, <1>10, <1>11, <2>1
<1>13. Answers' = Answers BY DEF Answers
<1>14. Owed(n)' BY <1>9, <1>12, <1>13 DEF Owed
<1>15. Settled(n)'
  <2>1. Settled(n - 1) BY <1>3 DEF Even
  <2>2. \A k \in 1..n : k \in 1..(n - 1) \/ k = n BY <1>2
  <2>3. \A k \in 1..(n - 1) : k \in 1..n /\ n > k BY <1>2
  <2>4. CASE Exits(cmd) /\ stopped' /\ exitcode' = cmd.payload BY <1>3, <2>2, <2>3, <2>4 DEF Settled
  <2>5. CASE ~Exits(cmd) /\ stopped' = stopped /\ (stopped => exitcode' = exitcode)
    <3>1. ASSUME NEW k \in 1..n, Exits(commands[k])
          PROVE  stopped' /\ ((\A j \in 1..n : j > k => ~Exits(commands[j])) => exitcode' = commands[k].payload)
      <4>1. k \in 1..(n - 1) BY <1>3, <2>2, <2>5, <3>1
      <4>2. stopped BY <2>1, <3>1, <4>1 DEF Settled
      <4>3. ASSUME \A j \in 1..n : j > k => ~Exits(commands[j]) PROVE exitcode = commands[k].payload
        <5>1. \A j \in 1..(n - 1) : j > k => ~Exits(commands[j]) BY <2>3, <4>3
        <5> QED BY <2>1, <3>1, <4>1, <5>1 DEF Settled
      <4> QED BY <2>5, <4>2, <4>3
    <3> QED BY <3>1 DEF Settled
  <2> QED BY <2>4, <2>5
<1> QED BY <1>2, <1>3, <1>8, <1>14, <1>15 DEF Quiet, Even

-----------------------------------------------------------------------------
(* The actions of the loop.                                                  *)

\* What holds in the loop.
LEMMA RunningFacts ==
  ASSUME LoadInv, TalkInv, Running
  PROVE  /\ load = "running" /\ ~thrown /\ stage = "idle" /\ TalkTypes /\ Phase
         /\ UNCHANGED loadVars => load' = "running" /\ load' # "failed" /\ IsProgram' = IsProgram
                                  /\ tohost_addr' = tohost_addr /\ fromhost_addr' = fromhost_addr
BY DEF Running, TalkInv, loadVars, IsProgram

\* The types, when the target says nothing.
LEMMA TypesKept ==
  ASSUME TalkTypes, UNCHANGED <<driver, commands, taken, symbols>>, turn' \in Turns, stopped' \in BOOLEAN,
         fromhost_queue' \in Seq(Replies), IsProgram => fromhost_queue' = <<>>,
         driver = "sim_main2" /\ turn' \in {"poll", "clear", "handle", "dispatch"} => ~stopped'
  PROVE  TalkTypes'
BY DEF TalkTypes, IsProgram

\* The loop goes on.
LEMMA TalkOn ==
  ASSUME TalkTypes', load' = "running", thrown' \/ Phase'
  PROVE  TalkInv'
BY DEF TalkInv

\* A turn of the target.
LEMMA TargetStep ==
  ASSUME MemInv, LoadInv, TalkInv, Turn
  PROVE  MemInv' /\ TalkInv'
<1>1. /\ Running /\ turn = "target" /\ Loops /\ before' = mem' /\ call' = NoCall /\ out' = Zeros(0)
      /\ UNCHANGED <<align, stage, addr, off, len, pos, left, thrown, fromhost_queue, exitcode, stopped, driver>>
      /\ UNCHANGED loadVars
  BY DEF Turn
<1>2. /\ load = "running" /\ ~thrown /\ stage = "idle" /\ TalkTypes /\ Phase
      /\ load' = "running" /\ IsProgram' = IsProgram
      /\ tohost_addr' = tohost_addr /\ fromhost_addr' = fromhost_addr
  BY <1>1, RunningFacts
<1>3. Quiet BY <1>1, <1>2 DEF Phase
<1>4. /\ tohost_addr \in 0..(SPACE - 2) /\ fromhost_addr \in 0..(SPACE - 2)
      /\ <<tohost_addr, fromhost_addr>> \in IoPairs
      /\ ~IsProgram => Span(tohost_addr, 2) \cap Span(fromhost_addr, 2) = {}
      /\ IsProgram => tohost_addr = 0 /\ fromhost_addr = 0
  BY <1>2, IoFacts
<1>5. \A x \in Address : mem[x] = Goal(x) BY <1>2, GoalReached
<1>6. mem \in [Address -> BYTE] BY DEF MemInv, MemTypeOK
<1>7. mem' \in [Address -> BYTE] => MemInv' /\ \A x \in Address : Goal(x)' = mem'[x]
  BY <1>1, <1>2, GoalOfPoke

\* What a store into a word does.
<1>8. ASSUME NEW a \in 0..(SPACE - 2), NEW w \in [Span(0, 2) -> BYTE], Poke(a, w)
      PROVE  /\ MemInv' /\ Due(a)' = w
             /\ \A b \in 0..(SPACE - 2) : Span(b, 2) \cap Span(a, 2) = {} => Due(b)' = Due(b)
  <2>1. \A x \in Span(a, 2) : x - a \in Span(0, 2) BY DEF Span
  <2>2. mem' \in [Address -> BYTE] BY <1>6, <1>8, <2>1 DEF Poke
  <2>3. \A x \in Address : mem'[x] = IF x \in Span(a, 2) THEN w[x - a] ELSE mem[x] BY <1>8 DEF Poke
  <2>4. \A x \in Address : Goal(x)' = IF x \in Span(a, 2) THEN w[x - a] ELSE Goal(x)
    BY <1>5, <1>7, <2>2, <2>3
  <2>5. w = [j \in Span(0, 2) |-> w[j]] OBVIOUS
  <2>6. Due(a)' = w
    <3>1. \A x \in Address : x \in Span(a, 2) => Goal(x)' = w[x - a] BY <2>4
    <3> QED BY <2>5, <3>1, WordWritten
  <2>7. \A b \in 0..(SPACE - 2) : Span(b, 2) \cap Span(a, 2) = {} => Due(b)' = Due(b)
    <3>1. \A x \in Address : x \notin Span(a, 2) => Goal(x)' = Goal(x) BY <2>4
    <3> QED BY <3>1, WordKept
  <2> QED BY <1>7, <2>2, <2>6, <2>7
<1>9. ASSUME mem' = mem
      PROVE  MemInv' /\ Due(tohost_addr)' = Due(tohost_addr) /\ Due(fromhost_addr)' = Due(fromhost_addr)
  <2>1. MemInv' /\ \A x \in Address : x \notin {} => Goal(x)' = Goal(x) BY <1>5, <1>6, <1>7, <1>9
  <2>2. \A b \in 0..(SPACE - 2) : Span(b, 2) \cap {} = {} => Due(b)' = Due(b) BY <2>1, WordKept
  <2> QED BY <1>2, <1>4, <2>1, <2>2
\* The words, and what is said, when the turn goes on.
<1>10. ASSUME MemInv', Waiting', turn' \in {"poll", "left"}, commands' \in Seq(Told), taken' \in Seq(Taken),
              IsProgram => commands' = commands,
              driver = "fesvr450" => \A k \in 1..Len(commands') : commands'[k] = FESVR_EXIT
       PROVE  MemInv' /\ TalkInv'
  <2>1. Phase' BY <1>10 DEF Phase
  <2>2. driver = "sim_main2" => ~stopped BY <1>1 DEF Loops
  <2>3. TalkTypes' BY <1>1, <1>2, <1>10, <2>2 DEF TalkTypes, Turns
  <2> QED BY <1>2, <1>10, <2>1, <2>3, TalkOn
<1>11. /\ commands \in Seq(Told) /\ taken \in Seq(Taken)
       /\ driver = "fesvr450" => \A k \in 1..Len(commands) : commands[k] = FESVR_EXIT
  BY <1>2 DEF TalkTypes
<1>12. ASSUME NEW c \in Told, commands' = Append(commands, c), driver = "fesvr450" => c = FESVR_EXIT
       PROVE  /\ commands' \in Seq(Told)
              /\ driver = "fesvr450" => \A k \in 1..Len(commands') : commands'[k] = FESVR_EXIT
  <2>1. commands' \in Seq(Told) /\ Len(commands') = Len(commands) + 1 BY <1>11, <1>12
  <2>2. \A k \in 1..Len(commands') : k \in 1..Len(commands) \/ k = Len(commands) + 1 BY <1>11, <2>1
  <2> QED BY <1>11, <1>12, <2>1, <2>2
<1>13. CASE TargetRuns
  <2>1. driver = "sim_main2" /\ turn' \in {"poll", "left"} BY <1>13 DEF TargetRuns
  <2>2. ASSUME NEW c \in COMMANDS, ~IsProgram, Poke(tohost_addr, Bytes(c)), commands' = Append(commands, c), taken' = taken
        PROVE  MemInv' /\ TalkInv'
    <3>1. c \in Told /\ Bytes(c) \in [Span(0, 2) -> BYTE] BY ToldFacts DEF Told
    <3>2. /\ MemInv' /\ Due(tohost_addr)' = Bytes(c)
          /\ Due(fromhost_addr)' = Due(fromhost_addr)
      <4>1. Span(fromhost_addr, 2) \cap Span(tohost_addr, 2) = {} BY <1>4, <2>2
      <4>2. PICK a \in 0..(SPACE - 2) : a = tohost_addr BY <1>4
      <4>3. Poke(a, Bytes(c)) BY <2>2, <4>2
      <4>4. MemInv' /\ Due(a)' = Bytes(c) /\ \A b \in 0..(SPACE - 2) : Span(b, 2) \cap Span(a, 2) = {} => Due(b)' = Due(b)
        BY <1>8, <3>1, <4>3
      <4> QED BY <1>2, <1>4, <4>1, <4>2, <4>4
    <3>3. Waiting' BY <1>1, <1>2, <1>3, <2>2, <3>1, <3>2, Tells
    <3> QED BY <1>10, <1>11, <1>12, <2>1, <2>2, <3>1, <3>2, <3>3
  <2>3. ASSUME ~IsProgram, Word(fromhost_addr) # Zeros(2), Poke(fromhost_addr, Zeros(2)),
               taken' = Append(taken, Command(mem[fromhost_addr], mem[fromhost_addr + 1])), commands' = commands
        PROVE  MemInv' /\ TalkInv'
    <3>1. PICK a \in 0..(SPACE - 2) : a = fromhost_addr BY <1>4
    <3>2. Zeros(2) \in [Span(0, 2) -> BYTE] BY MemIfAssumption DEF Zeros
    <3>3. MemInv' /\ Due(a)' = Zeros(2) /\ \A b \in 0..(SPACE - 2) : Span(b, 2) \cap Span(a, 2) = {} => Due(b)' = Due(b)
      BY <1>8, <2>3, <3>1, <3>2
    <3>4. Span(tohost_addr, 2) \cap Span(a, 2) = {} BY <1>4, <2>3, <3>1
    <3>5. Due(tohost_addr)' = Due(tohost_addr) /\ Due(fromhost_addr)' = Zeros(2) BY <1>2, <1>4, <3>1, <3>3, <3>4
    <3>6. PICK w : w = Due(fromhost_addr) OBVIOUS
    <3>7. w = Word(fromhost_addr) /\ w \in [Span(0, 2) -> BYTE]
          /\ w[0] = mem[fromhost_addr] /\ w[1] = mem[fromhost_addr + 1]
      <4>1. \A j \in Span(0, 2) : a + j \in Address BY MemIfAssumption DEF Span, Address
      <4>2. \A j \in Span(0, 2) : Goal(a + j) = mem[a + j] /\ mem[a + j] \in BYTE BY <1>5, <1>6, <4>1
      <4>3. 0 \in Span(0, 2) /\ 1 \in Span(0, 2) /\ a + 0 = a BY DEF Span
      <4> QED BY <3>1, <3>6, <4>2, <4>3 DEF Due, Word
    <3>8. Quiet' /\ taken' \in Seq(Taken) BY <1>1, <1>2, <1>3, <2>3, <3>5, <3>6, <3>7, Takes
    <3>9. Waiting' BY <3>8 DEF Waiting
    <3> QED BY <1>10, <1>11, <2>1, <2>3, <3>3, <3>8, <3>9
  <2>4. ASSUME UNCHANGED <<mem, commands, taken>> PROVE MemInv' /\ TalkInv'
    <3>1. Quiet' BY <1>1, <1>3, <1>9, <2>4, QuietKept
    <3>2. Waiting' BY <3>1 DEF Waiting
    <3> QED BY <1>9, <1>10, <1>11, <2>1, <2>4, <3>2
  <2> QED BY <1>13, <2>2, <2>3, <2>4 DEF TargetRuns
<1>14. CASE NoTarget
  <2>1. driver = "fesvr450" /\ turn' = "poll" /\ taken' = taken BY <1>14 DEF NoTarget
  <2>2. CASE turns >= FESVR_TURNS
    <3>1. /\ Poke(FESVR_TOHOST, Bytes(FESVR_EXIT))
          /\ commands' = IF tohost_addr = FESVR_TOHOST THEN Append(commands, FESVR_EXIT) ELSE commands
      BY <1>14, <2>2 DEF NoTarget
    <3>2. FESVR_EXIT \in Told /\ Bytes(FESVR_EXIT) \in [Span(0, 2) -> BYTE] BY ToldFacts DEF Told
    <3>3. FESVR_TOHOST \in 0..(SPACE - 2) /\ FESVR_TOHOST # 0 BY IoAssumption
    <3>4. /\ Span(FESVR_TOHOST, 2) \cap Span(fromhost_addr, 2) = {}
          /\ FESVR_TOHOST # tohost_addr => Span(FESVR_TOHOST, 2) \cap Span(tohost_addr, 2) = {}
      <4>1. PICK io \in IoPairs : io = <<tohost_addr, fromhost_addr>> BY <1>4
      <4>2. /\ Span(FESVR_TOHOST, 2) \cap Span(io[2], 2) = {}
            /\ FESVR_TOHOST # io[1] => Span(FESVR_TOHOST, 2) \cap Span(io[1], 2) = {}
        BY ONLY IoAssumption, io \in IoPairs
      <4>3. io[1] = tohost_addr /\ io[2] = fromhost_addr BY <4>1
      <4> QED BY <4>2, <4>3
    <3>5. /\ MemInv' /\ Due(FESVR_TOHOST)' = Bytes(FESVR_EXIT)
          /\ \A b \in 0..(SPACE - 2) : Span(b, 2) \cap Span(FESVR_TOHOST, 2) = {} => Due(b)' = Due(b)
      BY <1>8, <3>1, <3>2, <3>3
    <3>6. Due(fromhost_addr)' = Due(fromhost_addr) BY <1>2, <1>4, <3>4, <3>5
    <3>7. CASE tohost_addr = FESVR_TOHOST
      <4>1. commands' = Append(commands, FESVR_EXIT) /\ Due(tohost_addr)' = Bytes(FESVR_EXIT) /\ ~IsProgram
        BY <1>2, <1>4, <3>1, <3>3, <3>5, <3>7
      <4>2. Waiting' BY <1>1, <1>2, <1>3, <2>1, <3>2, <3>6, <4>1, Tells
      <4> QED BY <1>10, <1>11, <1>12, <2>1, <3>2, <3>5, <4>1, <4>2
    <3>8. CASE tohost_addr # FESVR_TOHOST
      <4>1. commands' = commands /\ Due(tohost_addr)' = Due(tohost_addr) BY <1>2, <1>4, <3>1, <3>4, <3>5, <3>8
      <4>2. Quiet' BY <1>1, <1>3, <2>1, <3>6, <4>1, QuietKept
      <4>3. Waiting' BY <4>2 DEF Waiting
      <4> QED BY <1>10, <1>11, <2>1, <3>5, <4>1, <4>3
    <3> QED BY <3>7, <3>8
  <2>3. CASE ~(turns >= FESVR_TURNS)
    <3>1. UNCHANGED <<mem, commands>> BY <1>14, <2>3 DEF NoTarget
    <3>2. Quiet' BY <1>1, <1>3, <1>9, <2>1, <3>1, QuietKept
    <3>3. Waiting' BY <3>2 DEF Waiting
    <3> QED BY <1>9, <1>10, <1>11, <2>1, <3>1, <3>3
  <2> QED BY <2>2, <2>3
<1> QED BY <1>13, <1>14 DEF Turn

-----------------------------------------------------------------------------
\* The words do not change, but for those written over.
LEMMA DueSame ==
  ASSUME LoadInv, load # "failed", UNCHANGED loadVars, \A x \in Address : Goal(x)' = Goal(x)
  PROVE  Due(tohost_addr)' = Due(tohost_addr) /\ Due(fromhost_addr)' = Due(fromhost_addr)
<1>1. \A x \in Address : x \notin {} => Goal(x)' = Goal(x) OBVIOUS
<1>2. \A a \in 0..(SPACE - 2) : Span(a, 2) \cap {} = {} => Due(a)' = Due(a) BY <1>1, WordKept
<1>3. tohost_addr' = tohost_addr /\ fromhost_addr' = fromhost_addr BY DEF loadVars
<1> QED BY <1>2, <1>3, IoFacts

\* The host writes elsewhere.
LEMMA DueApart ==
  ASSUME LoadInv, load # "failed", UNCHANGED loadVars, NEW S, S \cap IoBytes = {},
         \A x \in Address : x \notin S => Goal(x)' = Goal(x)
  PROVE  Due(tohost_addr)' = Due(tohost_addr) /\ Due(fromhost_addr)' = Due(fromhost_addr)
<1>1. \A a \in 0..(SPACE - 2) : Span(a, 2) \cap S = {} => Due(a)' = Due(a) BY WordKept
<1>2. tohost_addr' = tohost_addr /\ fromhost_addr' = fromhost_addr BY DEF loadVars
<1>3. Span(tohost_addr, 2) \cap S = {} /\ Span(fromhost_addr, 2) \cap S = {} BY IoFacts
<1> QED BY <1>1, <1>2, <1>3, IoFacts

\* Where nothing is written, memory is as it was.
LEMMA MemSame ==
  ASSUME MemInv, UNCHANGED memifVars
  PROVE  MemInv' /\ thrown' = thrown /\ call' = call /\ stage' = stage /\ \A x : Goal(x)' = Goal(x)
<1>1. MemInv' BY Inductive
<1> QED BY <1>1 DEF memifVars, Goal

\* The host reads tohost.
LEMMA PollStep ==
  ASSUME MemInv, LoadInv, TalkInv, Poll
  PROVE  MemInv' /\ TalkInv'
<1>1. /\ Running /\ turn = "poll" /\ turn' = "clear" /\ ReadWord(tohost_addr, 2)
      /\ UNCHANGED <<loadVars, driver, commands, taken, cmd, fromhost_queue, exitcode, stopped>>
  BY DEF Poll, Host, loopVars
<1>2. /\ load = "running" /\ TalkTypes /\ Phase /\ load' = "running" /\ load # "failed"
      /\ tohost_addr' = tohost_addr /\ fromhost_addr' = fromhost_addr /\ symbols' = symbols
  BY <1>1, RunningFacts DEF loadVars
<1>3. tohost_addr \in Nat /\ tohost_addr + 2 <= SPACE BY <1>2, IoFacts
<1>4. MemInv' /\ ~call'.wr /\ call'.addr = tohost_addr /\ call'.len = 2 /\ \A x \in Address : Goal(x)' = Goal(x)
  <2>1. Call([wr |-> FALSE, word |-> TRUE, addr |-> tohost_addr, len |-> 2, data |-> Zeros(2)])
    BY <1>1 DEF ReadWord
  <2>2. TRUE \in BOOLEAN /\ 2 \in Nat \ {0} OBVIOUS
  <2> QED BY ONLY MemInv, <1>3, <2>1, <2>2, ReadCall
<1>5. Due(tohost_addr)' = Due(tohost_addr) /\ Due(fromhost_addr)' = Due(fromhost_addr)
  <2>1. UNCHANGED loadVars BY <1>1
  <2> QED BY <1>2, <1>4, <2>1, DueSame
<1>6. Waiting BY <1>1, <1>2 DEF Phase
<1>7. Waiting'
  <2>1. \A n : Even(n) => Even(n)' BY <1>1, <1>5, EvenSame
  <2> QED BY <1>1, <1>5, <1>6, <2>1 DEF Waiting, Quiet, Pending, Newest
<1>8. Phase' BY <1>1, <1>2, <1>4, <1>7 DEF Phase, Reads
<1>9. TalkTypes' BY <1>1, <1>2 DEF TalkTypes, Turns, IsProgram
<1> QED BY <1>2, <1>4, <1>8, <1>9, TalkOn

\* The host clears what it has found, before it handles it.
LEMMA ClearStep ==
  ASSUME MemInv, LoadInv, TalkInv, Clear
  PROVE  MemInv' /\ TalkInv'
<1>1. /\ Running /\ turn = "clear"
      /\ UNCHANGED <<loadVars, driver, commands, taken, fromhost_queue, exitcode, stopped>>
  BY DEF Clear, Host, loopVars
<1>2. /\ load = "running" /\ TalkTypes /\ Phase /\ load' = "running" /\ load # "failed" /\ ~thrown /\ stage = "idle"
      /\ tohost_addr' = tohost_addr /\ fromhost_addr' = fromhost_addr /\ symbols' = symbols
  BY <1>1, RunningFacts DEF loadVars
<1>3. tohost_addr \in Nat /\ tohost_addr + 2 <= SPACE /\ tohost_addr \in 0..(SPACE - 2) BY <1>2, IoFacts
<1>4. Waiting /\ Reads(tohost_addr, 2) BY <1>1, <1>2 DEF Phase
<1>5. out = Due(tohost_addr) BY <1>2, <1>4, GoalReached DEF Reads, Due
<1>10. UNCHANGED loadVars BY <1>1
<1>6. CASE out = Zeros(2)
  <2>1. turn' = "check" /\ UNCHANGED memifVars BY <1>6 DEF Clear
  <2>2. MemInv' /\ \A x : Goal(x)' = Goal(x) BY <2>1, MemSame
  <2>3. Due(tohost_addr)' = Due(tohost_addr) /\ Due(fromhost_addr)' = Due(fromhost_addr)
    BY <1>2, <1>10, <2>2, DueSame
  <2>4. Quiet
    <3>1. SUFFICES ASSUME Pending, Due(tohost_addr) = Bytes(Newest) PROVE FALSE BY <1>4 DEF Waiting
    <3>2. commands \in Seq(Told) /\ commands # <<>> BY <1>2, <3>1 DEF TalkTypes, Pending
    <3>3. Newest \in Told BY <3>2 DEF Newest
    <3>4. Bytes(Newest) # Zeros(2)
      <4>1. PICK c \in Told : c = Newest BY <3>3
      <4> QED BY <4>1, ToldFacts
    <3> QED BY <1>5, <1>6, <3>1, <3>4
  <2>5. Quiet' BY <1>1, <2>3, <2>4, QuietKept
  <2>6. Phase' BY <2>1, <2>5 DEF Phase
  <2>7. TalkTypes' BY <1>1, <1>2, <2>1 DEF TalkTypes, Turns, IsProgram
  <2> QED BY <1>2, <2>2, <2>6, <2>7, TalkOn
<1>7. CASE out # Zeros(2)
  <2>1. /\ WriteWord(tohost_addr, Zeros(2)) /\ cmd' = Command(out[0], out[1]) /\ turn' = "handle"
    BY <1>7 DEF Clear
  <2>2. Pending /\ out = Bytes(Newest) BY <1>4, <1>5, <1>7 DEF Waiting, Quiet
  <2>3. commands \in Seq(Told) /\ commands # <<>> BY <1>2, <2>2 DEF TalkTypes, Pending
  <2>4. PICK c \in Told : c = Newest BY <2>3 DEF Newest
  <2>5. cmd' = Newest BY <2>1, <2>2, <2>4, ToldFacts, CommandOfBytes
  <2>6. ~IsProgram BY <1>2, <2>3 DEF TalkTypes
  <2>7. Zeros(2) \in DataOf(2) BY MemIfAssumption DEF Zeros, DataOf
  <2>8. MemInv' /\ (~thrown' => \A x \in Address : Goal(x)' = IF x \in Span(tohost_addr, 2)
                                                            THEN Zeros(2)[x - tohost_addr] ELSE Goal(x))
    <3>1. Call([wr |-> TRUE, word |-> TRUE, addr |-> tohost_addr, len |-> 2, data |-> Zeros(2)])
      BY <2>1 DEF WriteWord
    <3>2. TRUE \in BOOLEAN /\ 2 \in Nat \ {0} OBVIOUS
    <3> QED BY ONLY MemInv, <1>3, <2>7, <3>1, <3>2, WriteCall
  <2>9. TalkTypes' BY <1>1, <1>2, <2>1 DEF TalkTypes, Turns, IsProgram
  <2>10. ASSUME ~thrown' PROVE Phase'
    <3>1. \A x \in Address : Goal(x)' = IF x \in Span(tohost_addr, 2) THEN Zeros(2)[x - tohost_addr] ELSE Goal(x)
      BY <2>8, <2>10
    <3>2. PICK a \in 0..(SPACE - 2) : a = tohost_addr BY <1>3
    <3>3. Due(a)' = Zeros(2)
      <4>1. Zeros(2) = [j \in Span(0, 2) |-> Zeros(2)[j]] BY DEF Zeros
      <4>2. \A x \in Address : x \in Span(a, 2) => Goal(x)' = Zeros(2)[x - a] BY <3>1, <3>2
      <4> QED BY <4>1, <4>2, WordWritten
    <3>4. \A b \in 0..(SPACE - 2) : Span(b, 2) \cap Span(a, 2) = {} => Due(b)' = Due(b)
      <4>1. \A x \in Address : x \notin Span(a, 2) => Goal(x)' = Goal(x) BY <3>1, <3>2
      <4> QED BY <4>1, WordKept
    <3>5. Span(fromhost_addr, 2) \cap Span(a, 2) = {} /\ fromhost_addr \in 0..(SPACE - 2)
      BY <1>2, <2>6, <3>2, IoFacts
    <3>6. Due(tohost_addr)' = Zeros(2) /\ Due(fromhost_addr)' = Due(fromhost_addr)
      BY <1>2, <3>2, <3>3, <3>4, <3>5
    <3>7. Even(Len(commands) - 1) BY <2>2 DEF Pending
    <3>8. Even(Len(commands) - 1)' BY <1>1, <3>6, <3>7, EvenSame
    <3>9. Handling' BY <1>1, <2>3, <2>5, <3>6, <3>8 DEF Handling, Pending, Newest
    <3> QED BY <2>1, <3>9 DEF Phase
  <2> QED BY <1>2, <2>8, <2>9, <2>10, TalkOn
<1> QED BY <1>6, <1>7

\* What is known of the command that is handled.
LEMMA HandlingFacts ==
  ASSUME TalkTypes, Handling
  PROVE  cmd \in Told /\ commands # <<>> /\ ~IsProgram
<1>1. commands \in Seq(Told) /\ commands # <<>> /\ cmd = commands[Len(commands)]
  BY DEF TalkTypes, Handling, Pending, Newest
<1> QED BY <1>1 DEF TalkTypes

\* An exit is no question, and a system call that is none is one.
LEMMA Answering ==
  ASSUME NEW c \in Told
  PROVE  /\ Exits(c) => ~Answered(c) /\ c.cmd # MAX_COMMANDS - 1
         /\ IsSyscall(c) /\ ~Exits(c) => Answered(c)
         /\ c.cmd = MAX_COMMANDS - 1 => Answered(c) /\ ~Exits(c)
         /\ ~IsSyscall(c) /\ c.cmd # MAX_COMMANDS - 1 => ~Answered(c) /\ ~Exits(c)
<1>1. c.payload \in Nat /\ c.cmd \in Nat BY ToldFacts, SessionAssumption DEF Commands
<1>2. MAX_COMMANDS - 1 # 0 BY SessionAssumption
<1>3. c.payload % 2 = 0 \/ c.payload % 2 = 1 BY <1>1
<1>4. ~(c.payload % 2 = 0 /\ c.payload % 2 = 1) OBVIOUS
<1> QED BY <1>2, <1>3, <1>4 DEF Exits, Answered, IsSyscall

\* An exit sets the code, and has no answer.
LEMMA TestEndsStep ==
  ASSUME MemInv, LoadInv, TalkInv, TestEnds
  PROVE  MemInv' /\ TalkInv'
<1>1. /\ Running /\ turn = "handle" /\ Exits(cmd) /\ exitcode' = cmd.payload /\ stopped' = TRUE /\ turn' = "check"
      /\ UNCHANGED <<loadVars, driver, commands, taken, fromhost_queue, memifVars>>
  BY DEF TestEnds, Host, loopVars
<1>2. /\ load = "running" /\ TalkTypes /\ Phase /\ load' = "running" /\ load # "failed" /\ symbols' = symbols
  BY <1>1, RunningFacts DEF loadVars
<1>3. UNCHANGED loadVars /\ UNCHANGED memifVars BY <1>1
<1>4. MemInv' /\ \A x : Goal(x)' = Goal(x) BY <1>3, MemSame
<1>5. Due(tohost_addr)' = Due(tohost_addr) /\ Due(fromhost_addr)' = Due(fromhost_addr)
  BY <1>2, <1>3, <1>4, DueSame
<1>6. Handling BY <1>1, <1>2 DEF Phase
<1>7. ~Answered(cmd) BY <1>1, <1>2, <1>6, HandlingFacts, Answering
<1>8. Quiet'
  <2>1. fromhost_queue' = IF Answered(cmd) THEN Append(fromhost_queue, Response(cmd)) ELSE fromhost_queue
    BY <1>1, <1>7
  <2> QED BY <1>1, <1>2, <1>5, <1>6, <2>1, Handles
<1>9. Phase' BY <1>1, <1>8 DEF Phase
<1>10. TalkTypes' BY <1>1, <1>2 DEF TalkTypes, Turns, IsProgram
<1> QED BY <1>2, <1>4, <1>9, <1>10, TalkOn

\* A system call: the host reads its block.
LEMMA DispatchStep ==
  ASSUME MemInv, LoadInv, TalkInv, Dispatch
  PROVE  MemInv' /\ TalkInv'
<1>1. /\ Running /\ turn = "handle" /\ IsSyscall(cmd) /\ ~Exits(cmd) /\ turn' = "dispatch"
      /\ ReadBytes(cmd.payload, MAGICMEM)
      /\ UNCHANGED <<loadVars, driver, commands, taken, cmd, fromhost_queue, exitcode, stopped>>
  BY DEF Dispatch, Host, loopVars
<1>2. /\ load = "running" /\ TalkTypes /\ Phase /\ load' = "running" /\ load # "failed" /\ symbols' = symbols
      /\ UNCHANGED loadVars
  BY <1>1, RunningFacts DEF loadVars
<1>3. Handling BY <1>1, <1>2 DEF Phase
<1>4. cmd \in Told BY <1>2, <1>3, HandlingFacts
<1>5. cmd.payload \in Nat /\ cmd.payload + MAGICMEM <= SPACE /\ MAGICMEM \in Nat \ {0}
  BY <1>1, <1>4, ToldFacts, SessionAssumption DEF Apart
<1>6. /\ MemInv' /\ ~call'.wr /\ call'.addr = cmd.payload /\ call'.len = MAGICMEM
      /\ \A x \in Address : Goal(x)' = Goal(x)
  <2>1. Call([wr |-> FALSE, word |-> FALSE, addr |-> cmd.payload, len |-> MAGICMEM, data |-> Zeros(MAGICMEM)])
    BY <1>1 DEF ReadBytes
  <2>2. FALSE \in BOOLEAN OBVIOUS
  <2> QED BY ONLY MemInv, <1>5, <2>1, <2>2, ReadCall
<1>7. Due(tohost_addr)' = Due(tohost_addr) /\ Due(fromhost_addr)' = Due(fromhost_addr)
  BY <1>2, <1>6, DueSame
<1>8. Handling'
  <2>1. \A n : Even(n) => Even(n)' BY <1>1, <1>7, EvenSame
  <2> QED BY <1>1, <1>3, <1>7, <2>1 DEF Handling, Pending, Newest
<1>9. Phase' BY <1>1, <1>6, <1>8 DEF Phase, Reads
<1>10. TalkTypes' BY <1>1, <1>2 DEF TalkTypes, Turns, IsProgram
<1> QED BY <1>2, <1>6, <1>9, <1>10, TalkOn

\* What is written apart from the words, when a command is answered.
LEMMA Replying ==
  ASSUME MemInv, LoadInv, TalkInv, Running, turn \in {"handle", "dispatch"}, UNCHANGED <<loadVars, driver, commands, taken>>,
         Answered(cmd), ~Exits(cmd), respond, turn' = "check", stopped' = stopped, stopped => exitcode' = exitcode,
         NEW a, NEW n \in Nat \ {0}, Apart(a, n), NEW d \in DataOf(n), WriteBytes(a, n, d)
  PROVE  MemInv' /\ TalkInv'
<1>2. /\ load = "running" /\ TalkTypes /\ Phase /\ load' = "running" /\ load # "failed" /\ symbols' = symbols
      /\ UNCHANGED loadVars
  BY RunningFacts DEF loadVars
<1>3. Handling BY <1>2 DEF Phase
<1>4. cmd \in Told /\ ~IsProgram BY <1>2, <1>3, HandlingFacts
<1>5. a \in Nat /\ a + n <= SPACE /\ Span(a, n) \cap IoBytes = {} BY DEF Apart
<1>6. MemInv' /\ \A x \in Address : Goal(x)' = IF x \in Span(a, n) THEN d[x - a] ELSE Goal(x)
  <2>1. Call([wr |-> TRUE, word |-> FALSE, addr |-> a, len |-> n, data |-> d]) BY DEF WriteBytes
  <2>2. FALSE \in BOOLEAN OBVIOUS
  <2>3. /\ MemInv' /\ (~FALSE => ~thrown')
        /\ ~thrown' => \A x \in Address : Goal(x)' = IF x \in Span(a, n) THEN d[x - a] ELSE Goal(x)
    BY ONLY MemInv, <1>5, n \in Nat \ {0}, d \in DataOf(n), <2>1, <2>2, WriteCall
  <2> QED BY <2>3
<1>7. Due(tohost_addr)' = Due(tohost_addr) /\ Due(fromhost_addr)' = Due(fromhost_addr)
  <2>1. \A x \in Address : x \notin Span(a, n) => Goal(x)' = Goal(x) BY <1>6
  <2>2. PICK S : S = Span(a, n) OBVIOUS
  <2> QED BY <1>2, <1>5, <2>1, <2>2, DueApart
<1>8. Quiet' /\ fromhost_queue' \in Seq(Replies)
  <2>1. fromhost_queue' = IF Answered(cmd) THEN Append(fromhost_queue, Response(cmd)) ELSE fromhost_queue
    BY DEF respond
  <2> QED BY <1>2, <1>3, <1>7, <2>1, Handles
<1>9. Phase' BY <1>8 DEF Phase
<1>10. TalkTypes' BY <1>2, <1>4, <1>8, TypesKept DEF Turns, TalkTypes
<1> QED BY <1>2, <1>6, <1>9, <1>10, TalkOn

\* Its result takes the place of its number.  A program that has stopped makes none.
LEMMA ReturnStep ==
  ASSUME MemInv, LoadInv, TalkInv, Return
  PROVE  MemInv' /\ TalkInv'
<1> DEFINE result == IF out[0] = SYS_EXIT THEN 0 ELSE out[0]
           d == [out EXCEPT ![0] = result]
<1>1. /\ Running /\ turn = "dispatch" /\ WriteBytes(cmd.payload, MAGICMEM, d) /\ respond /\ turn' = "check"
      /\ stopped' = stopped /\ UNCHANGED <<loadVars, driver, commands, taken>>
  BY DEF Return, Host, loopVars
<1>2. load = "running" /\ ~thrown /\ stage = "idle" /\ TalkTypes /\ Phase BY <1>1, RunningFacts
<1>3. Handling /\ IsSyscall(cmd) /\ ~Exits(cmd) /\ Reads(cmd.payload, MAGICMEM) BY <1>1, <1>2 DEF Phase
<1>4. cmd \in Told BY <1>2, <1>3, HandlingFacts
<1>5. Answered(cmd) /\ Apart(cmd.payload, MAGICMEM) BY <1>3, <1>4, Answering, ToldFacts
<1>6. out \in DataOf(MAGICMEM) BY <1>3 DEF MemInv, MemTypeOK, Reads
<1>7. MAGICMEM \in Nat \ {0} /\ 0 \in Span(0, MAGICMEM) BY SessionAssumption DEF Span
<1>8. d \in DataOf(MAGICMEM) BY <1>6, <1>7, MemIfAssumption DEF DataOf
<1>9. stopped => exitcode' = exitcode
  <2>1. SUFFICES ASSUME stopped PROVE FALSE OBVIOUS
  <2>2. driver = "fesvr450" BY <1>1, <1>2, <2>1, SessionAssumption DEF TalkTypes
  <2>3. cmd = FESVR_EXIT
    <3>1. commands \in Seq(Told) /\ commands # <<>> /\ cmd = commands[Len(commands)]
      BY <1>2, <1>3 DEF TalkTypes, Handling, Pending, Newest
    <3>2. Len(commands) \in 1..Len(commands) BY <3>1
    <3> QED BY <1>2, <2>2, <3>1, <3>2 DEF TalkTypes
  <2>4. Exits(FESVR_EXIT) BY SessionAssumption
  <2> QED BY <1>3, <2>3, <2>4
<1> HIDE DEF d
<1> QED BY <1>1, <1>3, <1>5, <1>7, <1>8, <1>9, Replying

\* A name is written, where it is aligned.
LEMMA IdentifyStep ==
  ASSUME MemInv, LoadInv, TalkInv, handle_identify, ~Die
  PROVE  MemInv' /\ TalkInv'
<1> DEFINE what == cmd.payload % MAX_COMMANDS
           id == IF cmd.device = 0 THEN NAME[what] ELSE Zeros(IDENTITY_SIZE)
<1>1. /\ Running /\ turn = "handle" /\ cmd.cmd = MAX_COMMANDS - 1 /\ NamePlace(cmd) % IDENTITY_SIZE = 0
      /\ WriteBytes(NamePlace(cmd), IDENTITY_SIZE, id) /\ respond /\ turn' = "check"
      /\ UNCHANGED <<loadVars, driver, commands, taken, exitcode, stopped>>
  BY DEF handle_identify, Host, loopVars
<1>2. TalkTypes /\ Phase BY <1>1, RunningFacts
<1>3. Handling BY <1>1, <1>2 DEF Phase
<1>4. cmd \in Told BY <1>2, <1>3, HandlingFacts
<1>5. Answered(cmd) /\ ~Exits(cmd) /\ Apart(NamePlace(cmd), IDENTITY_SIZE) BY <1>1, <1>4, Answering, ToldFacts
<1>6. IDENTITY_SIZE \in Nat \ {0} BY SessionAssumption
<1>7. id \in DataOf(IDENTITY_SIZE)
  <2>1. cmd.payload \in Nat /\ MAX_COMMANDS \in Nat \ {0} BY <1>4, ToldFacts, SessionAssumption DEF Commands
  <2>2. what \in 0..(MAX_COMMANDS - 1) BY <2>1
  <2>3. NAME[what] \in DataOf(IDENTITY_SIZE) BY <2>2, SessionAssumption DEF DataOf
  <2>4. Zeros(IDENTITY_SIZE) \in DataOf(IDENTITY_SIZE) BY MemIfAssumption DEF Zeros, DataOf
  <2> QED BY <2>3, <2>4
<1> HIDE DEF id
<1> QED BY <1>1, <1>5, <1>6, <1>7, Replying

\* A command that nobody handles.
LEMMA NullStep ==
  ASSUME MemInv, LoadInv, TalkInv, handle_null_command
  PROVE  MemInv' /\ TalkInv'
<1>1. /\ Running /\ turn = "handle" /\ ~IsSyscall(cmd) /\ cmd.cmd # MAX_COMMANDS - 1 /\ turn' = "check"
      /\ UNCHANGED <<loadVars, driver, commands, taken, fromhost_queue, exitcode, stopped, memifVars>>
  BY DEF handle_null_command, Host, loopVars
<1>2. /\ load = "running" /\ TalkTypes /\ Phase /\ load' = "running" /\ load # "failed" /\ symbols' = symbols
  BY <1>1, RunningFacts DEF loadVars
<1>3. UNCHANGED loadVars /\ UNCHANGED memifVars BY <1>1
<1>4. MemInv' /\ \A x : Goal(x)' = Goal(x) BY <1>3, MemSame
<1>5. Due(tohost_addr)' = Due(tohost_addr) /\ Due(fromhost_addr)' = Due(fromhost_addr)
  BY <1>2, <1>3, <1>4, DueSame
<1>6. Handling BY <1>1, <1>2 DEF Phase
<1>7. ~Answered(cmd) /\ ~Exits(cmd) BY <1>1, <1>2, <1>6, HandlingFacts, Answering
<1>8. Quiet'
  <2>1. fromhost_queue' = IF Answered(cmd) THEN Append(fromhost_queue, Response(cmd)) ELSE fromhost_queue
    BY <1>1, <1>7
  <2> QED BY <1>1, <1>2, <1>5, <1>6, <1>7, <2>1, Handles
<1>9. Phase' BY <1>1, <1>8 DEF Phase
<1>10. TalkTypes' BY <1>1, <1>2 DEF TalkTypes, Turns, IsProgram
<1> QED BY <1>2, <1>4, <1>9, <1>10, TalkOn

\* The host looks whether an answer waits.
LEMMA CheckStep ==
  ASSUME MemInv, LoadInv, TalkInv, Check
  PROVE  MemInv' /\ TalkInv'
<1>1. /\ Running /\ turn = "check"
      /\ UNCHANGED <<loadVars, driver, commands, taken, cmd, fromhost_queue, exitcode, stopped>>
  BY DEF Check, EndTurn, Host, loopVars
<1>2. /\ load = "running" /\ TalkTypes /\ Phase /\ load' = "running" /\ load # "failed" /\ symbols' = symbols
      /\ tohost_addr' = tohost_addr /\ fromhost_addr' = fromhost_addr /\ UNCHANGED loadVars
  BY <1>1, RunningFacts DEF loadVars
<1>3. Quiet BY <1>1, <1>2 DEF Phase
<1>4. fromhost_addr \in Nat /\ fromhost_addr + 2 <= SPACE BY <1>2, IoFacts
<1>5. CASE fromhost_queue = <<>>
  <2>1. turn' = "target" /\ UNCHANGED memifVars BY <1>5 DEF Check
  <2>2. MemInv' /\ \A x : Goal(x)' = Goal(x) BY <2>1, MemSame
  <2>3. Due(tohost_addr)' = Due(tohost_addr) /\ Due(fromhost_addr)' = Due(fromhost_addr)
    BY <1>2, <2>2, DueSame
  <2>4. Quiet' BY <1>1, <1>3, <2>3, QuietKept
  <2>5. Phase' BY <2>1, <2>4 DEF Phase
  <2>6. TalkTypes' BY <1>1, <1>2, <2>1 DEF TalkTypes, Turns, IsProgram
  <2> QED BY <1>2, <2>2, <2>5, <2>6, TalkOn
<1>6. CASE fromhost_queue # <<>>
  <2>1. ReadWord(fromhost_addr, 2) /\ turn' = "deliver" BY <1>6 DEF Check
  <2>2. /\ MemInv' /\ ~call'.wr /\ call'.addr = fromhost_addr /\ call'.len = 2
        /\ \A x \in Address : Goal(x)' = Goal(x)
    <3>1. Call([wr |-> FALSE, word |-> TRUE, addr |-> fromhost_addr, len |-> 2, data |-> Zeros(2)])
      BY <2>1 DEF ReadWord
    <3>2. TRUE \in BOOLEAN /\ 2 \in Nat \ {0} OBVIOUS
    <3> QED BY ONLY MemInv, <1>4, <3>1, <3>2, ReadCall
  <2>3. Due(tohost_addr)' = Due(tohost_addr) /\ Due(fromhost_addr)' = Due(fromhost_addr)
    BY <1>2, <2>2, DueSame
  <2>4. Quiet' BY <1>1, <1>3, <2>3, QuietKept
  <2>5. Phase' BY <1>1, <1>2, <1>6, <2>1, <2>2, <2>4 DEF Phase, Reads
  <2>6. TalkTypes' BY <1>1, <1>2, <2>1 DEF TalkTypes, Turns, IsProgram
  <2> QED BY <1>2, <2>2, <2>5, <2>6, TalkOn
<1> QED BY <1>5, <1>6

\* An answer goes to fromhost, when the target has taken the last one.
LEMMA DeliverStep ==
  ASSUME MemInv, LoadInv, TalkInv, Deliver
  PROVE  MemInv' /\ TalkInv'
<1>1. /\ Running /\ turn = "deliver" /\ turn' = "target"
      /\ UNCHANGED <<loadVars, driver, commands, taken, cmd, exitcode, stopped>>
  BY DEF Deliver, EndTurn
<1>2. /\ load = "running" /\ TalkTypes /\ Phase /\ load' = "running" /\ load # "failed" /\ ~thrown
      /\ stage = "idle" /\ symbols' = symbols /\ tohost_addr' = tohost_addr /\ fromhost_addr' = fromhost_addr
      /\ UNCHANGED loadVars
  BY <1>1, RunningFacts DEF loadVars
<1>3. Quiet /\ fromhost_queue # <<>> /\ Reads(fromhost_addr, 2) BY <1>1, <1>2 DEF Phase
<1>4. fromhost_addr \in 0..(SPACE - 2) /\ fromhost_addr \in Nat /\ fromhost_addr + 2 <= SPACE BY <1>2, IoFacts
<1>5. out = Due(fromhost_addr) BY <1>2, <1>3, GoalReached DEF Reads, Due
<1>6. CASE out = Zeros(2)
  <2>1. WriteWord(fromhost_addr, Bytes(Head(fromhost_queue))) /\ fromhost_queue' = Tail(fromhost_queue)
    BY <1>6 DEF Deliver
  <2>2. fromhost_queue \in Seq(Replies) /\ ~IsProgram BY <1>2, <1>3 DEF TalkTypes
  <2>3. fromhost_queue' \in Seq(Replies) BY <1>3, <2>1, <2>2
  <2>4. PICK c \in Told : Head(fromhost_queue) = Response(c)
    <3>1. Head(fromhost_queue) \in Replies BY <1>3, <2>2
    <3> QED BY <3>1 DEF Replies
  <2>5. PICK d \in DataOf(2) : d = Bytes(Head(fromhost_queue)) BY <2>4, ToldFacts DEF DataOf
  <2>6. /\ MemInv'
        /\ ~thrown' => \A x \in Address : Goal(x)' = IF x \in Span(fromhost_addr, 2)
                                                     THEN d[x - fromhost_addr] ELSE Goal(x)
    <3>1. Call([wr |-> TRUE, word |-> TRUE, addr |-> fromhost_addr, len |-> 2, data |-> d])
      BY <2>1, <2>5 DEF WriteWord
    <3>2. TRUE \in BOOLEAN /\ 2 \in Nat \ {0} OBVIOUS
    <3> QED BY ONLY MemInv, <1>4, d \in DataOf(2), <3>1, <3>2, WriteCall
  <2>7. TalkTypes' BY <1>1, <1>2, <2>2, <2>3, TypesKept DEF TalkTypes, Turns
  <2>8. ASSUME ~thrown' PROVE Phase'
    <3>1. \A x \in Address : Goal(x)' = IF x \in Span(fromhost_addr, 2) THEN d[x - fromhost_addr] ELSE Goal(x)
      BY <2>6, <2>8
    <3>2. PICK a \in 0..(SPACE - 2) : a = fromhost_addr BY <1>4
    <3>3. Due(a)' = d
      <4>1. d = [j \in Span(0, 2) |-> d[j]] BY DEF DataOf
      <4>2. \A x \in Address : x \in Span(a, 2) => Goal(x)' = d[x - a] BY <3>1, <3>2
      <4> QED BY <4>1, <4>2, WordWritten
    <3>4. \A b \in 0..(SPACE - 2) : Span(b, 2) \cap Span(a, 2) = {} => Due(b)' = Due(b)
      <4>1. \A x \in Address : x \notin Span(a, 2) => Goal(x)' = Goal(x) BY <3>1, <3>2
      <4> QED BY <4>1, WordKept
    <3>5. Span(tohost_addr, 2) \cap Span(a, 2) = {} /\ tohost_addr \in 0..(SPACE - 2) BY <1>2, <2>2, <3>2, IoFacts
    <3>6. Due(fromhost_addr)' = Bytes(Head(fromhost_queue)) /\ Due(tohost_addr)' = Due(tohost_addr)
      BY <1>2, <2>5, <3>2, <3>3, <3>4, <3>5
    <3>7. Quiet' BY <1>1, <1>2, <1>3, <1>5, <1>6, <2>1, <3>6, Delivers
    <3> QED BY <1>1, <3>7 DEF Phase
  <2> QED BY <1>2, <2>6, <2>7, <2>8, TalkOn
<1>7. CASE out # Zeros(2)
  <2>1. UNCHANGED memifVars /\ fromhost_queue' = fromhost_queue BY <1>7 DEF Deliver
  <2>2. MemInv' /\ \A x : Goal(x)' = Goal(x) BY <2>1, MemSame
  <2>3. Due(tohost_addr)' = Due(tohost_addr) /\ Due(fromhost_addr)' = Due(fromhost_addr)
    BY <1>2, <2>2, DueSame
  <2>4. Quiet' BY <1>1, <1>3, <2>1, <2>3, QuietKept
  <2>5. Phase' BY <1>1, <2>4 DEF Phase
  <2>6. TalkTypes' BY <1>1, <1>2, <2>1 DEF TalkTypes, Turns, IsProgram
  <2> QED BY <1>2, <2>2, <2>5, <2>6, TalkOn
<1> QED BY <1>6, <1>7

\* The end of the loop.
LEMMA StopStep ==
  ASSUME MemInv, LoadInv, TalkInv, Stop
  PROVE  MemInv' /\ TalkInv'
<1>1. /\ Running /\ ReadBytes(STOP_ADDR, 2) /\ turn' = "over" /\ stopped' = TRUE
      /\ UNCHANGED <<loadVars, driver, commands, taken, cmd, fromhost_queue, exitcode>>
  BY DEF Stop, Host, loopVars
<1>2. /\ load = "running" /\ TalkTypes /\ load' = "running" /\ symbols' = symbols
  BY <1>1, RunningFacts DEF loadVars
<1>3. MemInv'
  <2>1. Call([wr |-> FALSE, word |-> FALSE, addr |-> STOP_ADDR, len |-> 2, data |-> Zeros(2)])
    BY <1>1 DEF ReadBytes
  <2>2. FALSE \in BOOLEAN /\ 2 \in Nat \ {0} /\ STOP_ADDR \in Nat /\ STOP_ADDR + 2 <= SPACE BY SessionAssumption
  <2> QED BY ONLY MemInv, <2>1, <2>2, ReadCall
<1>4. Phase' BY <1>1 DEF Phase
<1>5. TalkTypes' BY <1>1, <1>2 DEF TalkTypes, Turns, IsProgram
<1> QED BY <1>2, <1>3, <1>4, <1>5, TalkOn

-----------------------------------------------------------------------------
(* All together.                                                             *)

\* The invariant of a whole run.
SInv == MemInv /\ ArgsInv /\ LoadInv /\ TalkInv

\* It holds at the beginning.
LEMMA Initially == Init => SInv
<1> SUFFICES ASSUME Init PROVE SInv OBVIOUS
<1>1. ArgsInit /\ MemInit /\ LoadInit BY DEF Init
<1>2. TalkInv
  <2>1. load = "start" BY <1>1 DEF LoadInit
  <2>2. /\ driver \in DRIVERS /\ turn = "target" /\ stopped = FALSE
        /\ commands = <<>> /\ taken = <<>> /\ fromhost_queue = <<>>
    BY DEF Init
  <2>3. <<>> \in Seq(Told) /\ <<>> \in Seq(Replies) /\ <<>> \in Seq(Taken) /\ Len(<<>>) = 0 OBVIOUS
  <2>4. \A k \in 1..Len(commands) : commands[k] = FESVR_EXIT
    <3>1. Len(commands) = 0 BY <2>2, <2>3
    <3> QED BY <3>1
  <2>5. commands \in Seq(Told) /\ fromhost_queue \in Seq(Replies) /\ taken \in Seq(Taken) BY <2>2, <2>3
  <2>6. TalkTypes BY <2>2, <2>4, <2>5 DEF TalkTypes, Turns
  <2> QED BY <2>1, <2>2, <2>6 DEF TalkInv
<1> QED BY <1>1, <1>2, MemInitially, ArgsInitially, LoadInitially DEF SInv

\* Parsing comes before all else.
LEMMA ParsingStep ==
  ASSUME SInv, ParseStep
  PROVE  SInv'
<1>1. MemInv /\ ArgsInv /\ LoadInv /\ TalkInv BY DEF SInv
<1>2. /\ ParseArguments /\ UNCHANGED memifVars /\ UNCHANGED loadVars
      /\ UNCHANGED <<turn, cmd, fromhost_queue, exitcode, stopped, driver, commands, taken>>
  BY DEF ParseStep, hostVars, loopVars
<1>3. parsing = "options" BY <1>2 DEF ParseArguments, Help, Payload, Unknown, Plus, Permissive, Plain, End, At
<1>4. load \in {"start", "failed"} BY <1>1, <1>3 DEF LoadInv
<1>5. ArgsInv' BY <1>1, <1>2, ArgsStep
<1>6. MemInv' /\ thrown' = thrown /\ call' = call /\ \A x : Goal(x)' = Goal(x) BY <1>1, <1>2, MemSame
<1>7. TalkInv' BY <1>1, <1>2, <1>6, TalkSame
<1>8. LoadInv'
  <2>1. ArgsTypes' BY <1>1, <1>2, ArgsTypesStep DEF LoadInv
  <2>2. /\ load' = load /\ symbols' = symbols /\ entry' = entry
        /\ tohost_addr' = tohost_addr /\ fromhost_addr' = fromhost_addr
    BY <1>2 DEF loadVars
  <2>3. CASE load = "failed" BY <2>1, <2>2, <2>3 DEF LoadInv, Loading
  <2>4. CASE load = "start"
    <3>1. /\ IoPlace /\ IoZero /\ ~thrown /\ IsProgram /\ entry = DEFAULT_ENTRY
          /\ \A x \in Address : Goal(x) = 0
      BY <1>1, <2>4 DEF LoadInv, Loading
    <3>2. IoPlace' /\ IoZero' /\ IsProgram' BY <1>6, <2>2, <3>1 DEF IoPlace, IoZero, IsProgram
    <3> QED BY <1>6, <2>1, <2>2, <2>4, <3>1, <3>2 DEF LoadInv, Loading
  <2> QED BY <1>4, <2>3, <2>4
<1> QED BY <1>5, <1>6, <1>7, <1>8 DEF SInv

\* While the loader works, the conversation has not begun.
LEMMA BootTalk ==
  ASSUME MemInv, LoadInv, TalkInv, Boot
  PROVE  TalkInv'
<1>1. UNCHANGED <<turn, cmd, fromhost_queue, exitcode, stopped, driver, commands, taken>>
  BY DEF Boot, hostVars, loopVars
<1>2. CASE MemStep /\ UNCHANGED loadVars
  <2>1. call' = call /\ thrown' = thrown /\ \A x : Goal(x)' = Goal(x) BY <1>2, GoalStays
  <2> QED BY <1>1, <1>2, <2>1, TalkSame
<1>3. CASE ~(MemStep /\ UNCHANGED loadVars)
  <2>1. load \in Loading /\ load' \in Loading \cup {"failed"}
    <3>1. Start \/ OpenElf \/ Segment \/ ProgramLoaded \/ PayloadLoaded \/ RomDone \/ SetupRom \/ NoRom
      BY <1>3 DEF Boot, LoadStep
    <3>2. CASE Start BY <3>2 DEF Start, Loading
    <3>3. CASE OpenElf BY <3>3 DEF OpenElf, Die, Loading
    <3>4. CASE Segment BY <3>4 DEF Segment, FileHalf, ZeroHalf, SkipSegment, Die, Loading
    <3>5. CASE ProgramLoaded BY <3>5 DEF ProgramLoaded, SegmentsDone, Die, Loading
    <3>6. CASE PayloadLoaded BY <3>6 DEF PayloadLoaded, SegmentsDone, Die, Loading
    <3>7. CASE RomDone BY <3>7 DEF RomDone, Loading
    <3>8. CASE SetupRom BY <3>8 DEF SetupRom, Loading
    <3>9. CASE NoRom BY <3>9 DEF NoRom, Loading
    <3> QED BY <3>1, <3>2, <3>3, <3>4, <3>5, <3>6, <3>7, <3>8, <3>9
  <2>2. /\ TalkTypes /\ turn = "target" /\ commands = <<>> /\ taken = <<>> /\ fromhost_queue = <<>>
    BY <2>1 DEF TalkInv, Loading
  <2>3. TalkTypes' BY <1>1, <2>2 DEF TalkTypes
  <2> QED BY <1>1, <2>1, <2>2, <2>3 DEF TalkInv, Loading
<1> QED BY <1>2, <1>3

\* The conversation begins: nothing is said, and both words are free.
LEMMA EnterStep ==
  ASSUME MemInv, LoadInv, TalkInv, EnterLoop
  PROVE  MemInv' /\ LoadInv' /\ TalkInv'
<1>1. /\ load \in {"ready", "bare"} /\ load' = "running"
      /\ UNCHANGED <<argVars, memifVars, symbols, entry, tohost_addr, fromhost_addr>>
      /\ UNCHANGED <<turn, fromhost_queue, exitcode, stopped, driver, commands, taken>>
  BY DEF EnterLoop, hostVars, loopVars
<1>2. MemInv' /\ LoadInv'
  <2>1. UNCHANGED <<argVars, memifVars, symbols, entry, tohost_addr, fromhost_addr>> BY <1>1
  <2>2. LastSteps BY <1>1 DEF LastSteps, LoadInv
  <2> QED BY <2>1, <2>2, LoadEnds
<1>3. TalkTypes /\ turn = "target" /\ commands = <<>> /\ taken = <<>> /\ fromhost_queue = <<>>
  BY <1>1 DEF TalkInv
<1>4. TalkTypes' BY <1>1, <1>3 DEF TalkTypes, IsProgram
<1>5. IoZero /\ load # "failed" BY <1>1 DEF LoadInv, Loading
<1>6. Due(tohost_addr)' = Zeros(2) /\ Due(fromhost_addr)' = Zeros(2)
  <2>1. \A x : Goal(x)' = Goal(x)
    <3>1. UNCHANGED memifVars BY <1>1
    <3> QED BY <3>1, MemSame
  <2>2. \A j \in Span(0, 2) : tohost_addr + j \in IoBytes /\ fromhost_addr + j \in IoBytes
    <3>1. \A a \in Nat : \A j \in Span(0, 2) : a + j \in Span(a, 2) BY DEF Span
    <3>2. tohost_addr \in Nat /\ fromhost_addr \in Nat BY <1>5, IoFacts
    <3> QED BY <1>5, <3>1, <3>2, IoFacts
  <2>3. \A j \in Span(0, 2) : Goal(tohost_addr + j)' = 0 /\ Goal(fromhost_addr + j)' = 0
    BY <1>1, <1>5, <2>1, <2>2 DEF IoZero
  <2> QED BY <2>3 DEF Due, Zeros
<1>7. Quiet'
  <2>1. commands' = <<>> /\ Len(commands') = 0 /\ commands' \in Seq(Told) BY <1>1, <1>3
  <2>2. (commands \in Seq(Told) => AnswersTo(Answers, commands))' BY AnswersAre, PTL
  <2>3. Answers'[0] = <<>> BY <2>1, <2>2 DEF AnswersTo
  <2>4. Message(Zeros(2)) = <<>> BY DEF Message
  <2>5. Owed(0)'
    <3>1. taken' = <<>> /\ fromhost_queue' = <<>> BY <1>1, <1>3
    <3>2. <<>> \o <<>> \o <<>> = <<>> OBVIOUS
    <3> QED BY <1>6, <2>3, <2>4, <3>1, <3>2 DEF Owed
  <2>6. Settled(0)' BY DEF Settled
  <2> QED BY <1>6, <2>1, <2>5, <2>6 DEF Quiet, Even
<1>8. Phase' BY <1>1, <1>3, <1>7 DEF Phase
<1> QED BY <1>1, <1>2, <1>4, <1>8, TalkOn

\* A signal leaves the conversation alone, or ends the process.
LEMMA SignalStep ==
  ASSUME MemInv, LoadInv, TalkInv, Signal
  PROVE  MemInv' /\ LoadInv' /\ TalkInv'
<1>1. UNCHANGED argVars /\ UNCHANGED memifVars /\ UNCHANGED <<hostVars, driver, turns, commands, taken>>
  BY DEF Signal
<1>2. MemInv' /\ thrown' = thrown /\ call' = call /\ stage' = stage /\ \A x : Goal(x)' = Goal(x) BY <1>1, MemSame
<1>3. CASE Die
  <2>1. LoadInv' BY <1>1, <1>3, DieStep
  <2>2. TalkInv' BY <1>3 DEF Die, TalkInv
  <2> QED BY <1>2, <2>1, <2>2
<1>4. CASE UNCHANGED loadVars
  <2>1. LoadInv' BY <1>1, <1>2, <1>4, LoadSame
  <2>2. TalkInv' BY <1>1, <1>2, <1>4, TalkSame DEF hostVars
  <2> QED BY <1>2, <2>1, <2>2
<1> QED BY <1>3, <1>4 DEF Signal

\* The loops of memif_t, and steps in which nothing happens.
LEMMA WorkStep ==
  ASSUME MemInv, LoadInv, TalkInv, Work \/ UNCHANGED vars
  PROVE  MemInv' /\ LoadInv' /\ TalkInv'
<1>1. UNCHANGED argVars /\ UNCHANGED loadVars
      /\ UNCHANGED <<turn, cmd, fromhost_queue, exitcode, stopped, driver, commands, taken>>
  BY DEF Work, vars, hostVars, loopVars
<1>2. MemInv' /\ thrown' = thrown /\ call' = call /\ \A x : Goal(x)' = Goal(x)
  <2>1. CASE Work BY <2>1, GoalStays DEF Work
  <2>2. CASE UNCHANGED vars
    <3>1. UNCHANGED memifVars BY <2>2 DEF vars
    <3> QED BY <3>1, MemSame
  <2> QED BY <2>1, <2>2
<1>3. LoadInv'
  <2>1. CASE Work BY <1>1, <2>1, LoadWorks DEF Work
  <2>2. CASE UNCHANGED vars
    <3>1. UNCHANGED memifVars BY <2>2 DEF vars
    <3>2. stage' = stage BY <3>1, MemSame
    <3> QED BY <1>1, <1>2, <3>2, LoadSame
  <2> QED BY <2>1, <2>2
<1>4. TalkInv' BY <1>1, <1>2, TalkSame
<1> QED BY <1>2, <1>3, <1>4

\* The host's side of a turn.
LEMMA HostStep ==
  ASSUME MemInv, LoadInv, TalkInv, ProcessHtio \/ Stop
  PROVE  MemInv' /\ LoadInv' /\ TalkInv'
<1>1. UNCHANGED argVars
  BY DEF ProcessHtio, Poll, Clear, TestEnds, Dispatch, Return, BadSyscall, handle_identify,
         handle_null_command, Check, Deliver, Stop, Host, EndTurn
<1>2. Running
  BY DEF ProcessHtio, Poll, Clear, TestEnds, Dispatch, Return, BadSyscall, handle_identify,
         handle_null_command, Check, Deliver, Stop
<1>3. CASE Die
  <2>1. LoadInv' BY <1>1, <1>3, DieStep
  <2>2. TalkInv' BY <1>3 DEF Die, TalkInv
  <2>3. UNCHANGED loadVars => FALSE BY <1>2, <1>3 DEF Die, Running, loadVars
  <2>4. UNCHANGED memifVars
    BY <2>3 DEF ProcessHtio, Poll, Clear, TestEnds, Dispatch, Return, BadSyscall, handle_identify,
                handle_null_command, Check, Deliver, Stop, Host, EndTurn
  <2> QED BY <2>1, <2>2, <2>4, MemSame
<1>4. CASE ~Die
  <2>1. UNCHANGED loadVars
    BY <1>4 DEF ProcessHtio, Poll, Clear, TestEnds, Dispatch, Return, BadSyscall, handle_identify,
                handle_null_command, Check, Deliver, Stop, Host, EndTurn
  <2>2. LoadInv'
    <3>1. load = "running" BY <1>2 DEF Running
    <3>2. UNCHANGED <<argVars, loadVars>> BY <1>1, <2>1
    <3> QED BY <3>1, <3>2, LoadRunning
  <2>3. ~BadSyscall BY <1>4 DEF BadSyscall
  <2>4. MemInv' /\ TalkInv'
    BY <1>4, <2>3, PollStep, ClearStep, TestEndsStep, DispatchStep, ReturnStep, IdentifyStep, NullStep,
       CheckStep, DeliverStep, StopStep DEF ProcessHtio
  <2> QED BY <2>2, <2>4
<1> QED BY <1>3, <1>4

\* Every step keeps it.
LEMMA Keeps == SInv /\ [Next]_vars => SInv'
<1> SUFFICES ASSUME SInv, [Next]_vars PROVE SInv' OBVIOUS
<1>1. MemInv /\ ArgsInv /\ LoadInv /\ TalkInv BY DEF SInv
<1>2. CASE ParseStep BY <1>2, ParsingStep
<1>3. CASE ~ParseStep
  <2>1. UNCHANGED argVars
    BY <1>3 DEF Next, Boot, EnterLoop, Turn, Signal, ProcessHtio, Poll, Clear, TestEnds, Dispatch, Return,
                BadSyscall, handle_identify, handle_null_command, Check, Deliver, Stop, Host, EndTurn, Work, vars
  <2>2. ArgsInv' BY <1>1, <2>1, ArgsStay
  <2>3. MemInv' /\ LoadInv' /\ TalkInv'
    <3>1. CASE Boot BY <1>1, <3>1, BootStep, BootTalk
    <3>2. CASE EnterLoop BY <1>1, <3>2, EnterStep
    <3>3. CASE Turn
      <4>1. LoadInv'
        <5>1. load = "running" /\ UNCHANGED <<argVars, loadVars>> BY <3>3 DEF Turn, Running
        <5> QED BY <1>1, <5>1, LoadRunning
      <4> QED BY <1>1, <3>3, <4>1, TargetStep
    <3>4. CASE Signal BY <1>1, <3>4, SignalStep
    <3>5. CASE ProcessHtio \/ Stop BY <1>1, <3>5, HostStep
    <3>6. CASE Work \/ UNCHANGED vars BY <1>1, <3>6, WorkStep
    <3> QED BY <1>3, <3>1, <3>2, <3>3, <3>4, <3>5, <3>6 DEF Next
  <2> QED BY <2>2, <2>3 DEF SInv
<1> QED BY <1>2, <1>3

\* Between two turns nothing is owed.
LEMMA TalkExact == SInv => ConversationExact
<1> SUFFICES ASSUME SInv, Running, turn = "target" PROVE ConversationExact BY DEF ConversationExact
<1>1. MemInv /\ LoadInv /\ TalkInv BY DEF SInv
<1>2. load # "failed" /\ stage = "idle" /\ TalkTypes /\ Phase BY <1>1, RunningFacts
<1>3. Quiet BY <1>2 DEF Phase
<1>4. Word(fromhost_addr) = Due(fromhost_addr)
  <2>1. \A x \in Address : mem[x] = Goal(x) BY <1>1, <1>2, GoalReached
  <2>2. fromhost_addr \in 0..(SPACE - 2) BY <1>1, <1>2, IoFacts
  <2>3. \A j \in Span(0, 2) : fromhost_addr + j \in Address BY <2>2, MemIfAssumption DEF Span, Address
  <2> QED BY <2>1, <2>3 DEF Word, Due
<1>5. Owed(Len(commands)) /\ Settled(Len(commands)) BY <1>3 DEF Quiet, Even
<1>6. DOMAIN commands = 1..Len(commands) BY <1>2 DEF TalkTypes
<1> QED BY <1>4, <1>5, <1>6 DEF ConversationExact, Owed, Settled

-----------------------------------------------------------------------------
(* Only sound files.                                                         *)

\* The number of the file that is loaded, and what is known of the files before
\* it and of the segments that are written.
TurnOf == IF IsProgram THEN 1 ELSE Len(Paths) - Len(todo) + 1
Tested(k) == Sound(k) /\ (k = 1 => {"tohost", "fromhost"} \subseteq DOMAIN Symbols(PathFile(k)))
SoundBefore(n) == \A k \in DOMAIN Paths : k < n => Tested(k)
SizeOk(i) == PT_LOAD(file.ph[i]) /\ file.ph[i].filesz # 0 => file.size >= file.ph[i].offset + file.ph[i].filesz
Written(i) == i < ph \/ (i = ph /\ half = "zeros")
SoundSoFar == SoundBefore(TurnOf) /\ HeaderOk(file) /\ \A i \in DOMAIN file.ph : Written(i) => SizeOk(i)

\* The invariant of the assertions.
SoundInv ==
  /\ load = "open" => SoundBefore(TurnOf)
  /\ load = "segments" => SoundSoFar
  /\ load \in {"loaded", "rom", "ready", "bare"} => SoundBefore(Len(Paths) + 1)

\* What is sound is said by the arguments.
LEMMA SameSound ==
  ASSUME UNCHANGED argVars
  PROVE  Paths' = Paths /\ program' = program /\ payloads' = payloads /\ \A n : SoundBefore(n)' = SoundBefore(n)
<1>1. Paths' = Paths /\ program' = program /\ payloads' = payloads BY SamePaths
<1>2. \A k : PathFile(k)' = PathFile(k) BY <1>1 DEF PathFile
<1>3. \A k : Tested(k)' = Tested(k)
  BY <1>1, <1>2 DEF Tested, Sound
<1> QED BY <1>1, <1>3 DEF SoundBefore

\* A step that leaves the loader and its arguments alone.
LEMMA SoundStays ==
  ASSUME SoundInv, UNCHANGED argVars, UNCHANGED loadVars
  PROVE  SoundInv'
<1>1. /\ load' = load /\ todo' = todo /\ ph' = ph /\ half' = half /\ IsProgram' = IsProgram
  BY DEF loadVars, IsProgram
<1>2. Paths' = Paths /\ file' = file /\ \A n : SoundBefore(n)' = SoundBefore(n)
  BY <1>1, SameSound DEF file
<1>3. TurnOf' = TurnOf BY <1>1, <1>2 DEF TurnOf
<1>4. \A i : Written(i)' = Written(i) /\ SizeOk(i)' = SizeOk(i) BY <1>1, <1>2 DEF Written, SizeOk, PT_LOAD
<1>5. HeaderOk(file)' = HeaderOk(file) BY <1>2 DEF HeaderOk, IS_ELF, IS_ELF_EXEC, LittleEndian
<1>6. SoundSoFar => SoundSoFar' BY <1>2, <1>3, <1>4, <1>5 DEF SoundSoFar
<1> QED BY <1>1, <1>2, <1>3, <1>6 DEF SoundInv

\* Before the first file nothing is to be tested.
LEMMA SoundStart ==
  ASSUME ArgsInv, LoadInv, Start, UNCHANGED argVars
  PROVE  SoundInv'
<1>1. Paths \in Seq(STRING)
  <2>1. ArgsTypes /\ parsing = "done" BY DEF LoadInv, Start
  <2> QED BY <2>1, PathsType
<1>2. SoundBefore(1) /\ (Paths = <<>> => SoundBefore(Len(Paths) + 1)) BY <1>1 DEF SoundBefore
<1>3. Paths' = Paths /\ \A n : SoundBefore(n)' = SoundBefore(n) BY SameSound
<1>4. IsProgram'
  <2>1. IsProgram BY DEF Start, LoadInv, Loading
  <2> QED BY <2>1 DEF Start, IsProgram
<1>5. TurnOf' = 1 BY <1>4 DEF TurnOf
<1>6. CASE program = NONE
  <2>1. Paths = <<>> /\ load' = "loaded" BY <1>6 DEF Paths, Start
  <2> QED BY <1>2, <1>3, <2>1 DEF SoundInv
<1>7. CASE program # NONE
  <2>1. load' = "open" BY <1>7 DEF Start
  <2> QED BY <1>2, <1>3, <1>5, <2>1 DEF SoundInv
<1> QED BY <1>6, <1>7

\* A file that is opened has a sound header.
LEMMA SoundOpen ==
  ASSUME LoadInv, SoundInv, OpenElf, ~Die, UNCHANGED argVars
  PROVE  SoundInv'
<1>1. /\ load = "open" /\ load' = "segments" /\ ph' = 1 /\ half' = "file" /\ HeaderOk(file)
      /\ todo' = todo /\ symbols' = symbols /\ Head(todo) \in DOMAIN FILES
  BY DEF OpenElf
<1>2. Paths' = Paths /\ file' = file /\ IsProgram' = IsProgram /\ \A n : SoundBefore(n)' = SoundBefore(n)
  BY <1>1, SameSound DEF file, IsProgram
<1>3. TurnOf' = TurnOf BY <1>1, <1>2 DEF TurnOf
<1>4. SoundBefore(TurnOf)' BY <1>1, <1>2, <1>3 DEF SoundInv
<1>5. HeaderOk(file)' BY <1>1, <1>2 DEF HeaderOk, IS_ELF, IS_ELF_EXEC, LittleEndian
<1>6. file.ph \in Seq(Phdr)
  <2>1. file \in ElfFiles BY <1>1 DEF file, ElfFiles
  <2> QED BY <2>1, FileFacts
<1>7. \A i \in DOMAIN file.ph : ~Written(i)' BY <1>1, <1>6 DEF Written
<1>8. SoundSoFar' BY <1>2, <1>4, <1>5, <1>7 DEF SoundSoFar
<1> QED BY <1>1, <1>8 DEF SoundInv

\* A segment is written only if the file has its bytes.
LEMMA SoundSegment ==
  ASSUME LoadInv, SoundInv, Segment, ~Die, UNCHANGED argVars
  PROVE  SoundInv'
<1>1. load = "segments" BY DEF Segment
<1>2. PICK k \in Nat : SegmentsAt(k) BY <1>1 DEF LoadInv
<1>3. PICK p : p = file.ph[ph] OBVIOUS
<1>4. file \in ElfFiles /\ file.ph \in Seq(Phdr) /\ ph \in Nat /\ ph >= 1 BY <1>1, <1>2, SegmentFacts
<1>5. file.size \in Nat /\ \A i \in DOMAIN file.ph : file.ph[i] \in Phdr BY <1>4, FileFacts
<1>6. half \in {"file", "zeros"} /\ (half = "zeros" => PT_LOAD(p)) BY <1>2, <1>3 DEF SegmentsAt
<1>7. ph \in DOMAIN file.ph /\ p.filesz \in Nat /\ p.offset \in Nat
  <2>1. ph \in DOMAIN file.ph BY <1>4 DEF Segment
  <2> QED BY <1>3, <1>5, <2>1 DEF Phdr
<1>8. /\ load' = load /\ todo' = todo /\ symbols' = symbols
      /\ \/ ph' = ph + 1 /\ half' = "file" /\ SizeOk(ph)
         \/ ph' = ph /\ half' = "zeros" /\ SizeOk(ph)
  <2>1. CASE SkipSegment /\ ~PT_LOAD(p) BY <1>3, <1>6, <2>1 DEF SkipSegment, SizeOk
  <2>2. CASE FileHalf(p)
    <3>1. ~(file.size < p.offset + p.filesz) /\ half' = "zeros"
          /\ UNCHANGED <<load, todo, ph, symbols>>
      BY <2>2 DEF FileHalf
    <3>2. SizeOk(ph) BY <1>3, <1>5, <1>7, <3>1 DEF SizeOk
    <3> QED BY <3>1, <3>2
  <2>3. CASE ZeroHalf(p)
    <3>1. (half = "zeros" \/ p.filesz = 0) /\ half' = "file" /\ ph' = ph + 1 /\ UNCHANGED <<load, todo, symbols>>
      BY <2>3 DEF ZeroHalf
    <3>2. CASE half = "zeros" BY <1>1, <1>7, <3>1, <3>2 DEF SoundInv, SoundSoFar, Written
    <3>3. CASE p.filesz = 0 BY <1>3, <3>1, <3>3 DEF SizeOk
    <3> QED BY <3>1, <3>2, <3>3
  <2> QED BY <1>3, <2>1, <2>2, <2>3 DEF Segment
<1>9. Paths' = Paths /\ file' = file /\ IsProgram' = IsProgram /\ \A n : SoundBefore(n)' = SoundBefore(n)
  BY <1>8, SameSound DEF file, IsProgram
<1>10. TurnOf' = TurnOf BY <1>8, <1>9 DEF TurnOf
<1>11. \A i \in DOMAIN file.ph : Written(i)' => Written(i) \/ i = ph
  BY <1>4, <1>8 DEF Written
<1>12. \A i : SizeOk(i)' = SizeOk(i) BY <1>9 DEF SizeOk, PT_LOAD
<1>13. HeaderOk(file)' = HeaderOk(file) BY <1>9 DEF HeaderOk, IS_ELF, IS_ELF_EXEC, LittleEndian
<1>14. SoundSoFar BY <1>1 DEF SoundInv
<1>15. SoundSoFar' BY <1>8, <1>9, <1>10, <1>11, <1>12, <1>13, <1>14 DEF SoundSoFar
<1> QED BY <1>1, <1>8, <1>15 DEF SoundInv

\* After its last assertion a file is sound.
LEMMA SoundFile ==
  ASSUME LoadInv, SoundInv, SegmentsDone, NEW k \in Nat, SegmentsAt(k), ElfOk(file),
         k = 1 => {"tohost", "fromhost"} \subseteq DOMAIN Symbols(file)
  PROVE  SoundBefore(k + 1) /\ k \in DOMAIN Paths /\ Paths \in Seq(STRING)
<1>1. load = "segments" /\ ph > Len(file.ph) BY DEF SegmentsDone
<1>2. /\ Paths \in Seq(STRING) /\ file = PathFile(k) /\ k \in DOMAIN Paths /\ Paths[k] \in DOMAIN FILES
      /\ file.ph \in Seq(Phdr) /\ ph \in Nat
  BY <1>1, SegmentFacts
<1>3. TurnOf = k
  <2>1. Place(k) BY DEF SegmentsAt
  <2>2. Len(Paths) \in Nat BY <1>2
  <2>3. CASE IsProgram BY <2>1, <2>3 DEF Place, TurnOf
  <2>4. CASE ~IsProgram BY <2>1, <2>2, <2>4 DEF Place, TurnOf
  <2> QED BY <2>3, <2>4
<1>4. SoundSoFar BY <1>1 DEF SoundInv
<1>5. \A i \in DOMAIN file.ph : SizeOk(i) BY <1>1, <1>2, <1>4 DEF SoundSoFar, Written
<1>6. SizesOk(file) BY <1>5 DEF SizesOk, SizeOk
<1>7. Tested(k) BY <1>2, <1>4, <1>6 DEF Tested, Sound, SoundSoFar
<1>8. \A j \in DOMAIN Paths : j < k + 1 => j < k \/ j = k BY <1>2
<1>9. SoundBefore(k + 1) BY <1>3, <1>4, <1>7, <1>8 DEF SoundSoFar, SoundBefore
<1> QED BY <1>2, <1>9

\* The next file, or the end.
LEMMA SoundNext ==
  ASSUME SoundBefore(Len(Paths) - Len(todo') + 1), Paths \in Seq(STRING), UNCHANGED argVars, ~IsProgram',
         load' = IF todo' = <<>> THEN "loaded" ELSE "open"
  PROVE  SoundInv'
<1>1. Paths' = Paths /\ \A n : SoundBefore(n)' = SoundBefore(n) BY SameSound
<1>2. TurnOf' = Len(Paths) - Len(todo') + 1 BY <1>1 DEF TurnOf
<1>3. todo' = <<>> => Len(Paths) - Len(todo') + 1 = Len(Paths) + 1 OBVIOUS
<1> QED BY <1>1, <1>2, <1>3 DEF SoundInv

\* The program is sound and has both words for the host.
LEMMA SoundProgram ==
  ASSUME LoadInv, SoundInv, ProgramLoaded, ~Die, UNCHANGED argVars
  PROVE  SoundInv'
<1>1. /\ SegmentsDone /\ IsProgram /\ load = "segments" BY DEF ProgramLoaded, SegmentsDone
<1>2. PICK k \in Nat : SegmentsAt(k) BY <1>1 DEF LoadInv
<1>3. /\ ElfOk(file) /\ {"tohost", "fromhost"} \subseteq DOMAIN Symbols(file) /\ symbols' = Symbols(file)
      /\ todo' = payloads /\ load' = IF payloads = <<>> THEN "loaded" ELSE "open"
  BY DEF ProgramLoaded
<1>4. SoundBefore(k + 1) /\ Paths \in Seq(STRING) BY <1>1, <1>2, <1>3, SoundFile
<1>5. ~IsProgram'
  <2>1. "tohost" \in DOMAIN symbols' BY <1>3
  <2>2. DOMAIN NoSymbols = {} BY DEF NoSymbols
  <2> QED BY <2>1, <2>2 DEF IsProgram, NoSymbols
<1>6. k = 1 /\ program # NONE BY <1>1, <1>2 DEF SegmentsAt, Place
<1>7. Len(Paths) - Len(todo') + 1 = k + 1
  <2>1. payloads \in Seq(STRING) /\ <<program>> \in Seq(STRING) BY <1>1 DEF LoadInv, ArgsTypes
  <2>2. Paths = <<program>> \o payloads BY <1>6 DEF Paths
  <2>3. Len(Paths) = 1 + Len(payloads) /\ Len(payloads) \in Nat BY <2>1, <2>2
  <2> QED BY <1>3, <1>6, <2>3
<1> QED BY <1>3, <1>4, <1>5, <1>7, SoundNext

\* A payload is sound.
LEMMA SoundPayload ==
  ASSUME LoadInv, SoundInv, PayloadLoaded, ~Die, UNCHANGED argVars
  PROVE  SoundInv'
<1>1. /\ SegmentsDone /\ ~IsProgram /\ load = "segments" BY DEF PayloadLoaded, SegmentsDone
<1>2. PICK k \in Nat : SegmentsAt(k) BY <1>1 DEF LoadInv
<1>3. /\ ElfOk(file) /\ symbols' = symbols /\ todo' = Tail(todo)
      /\ load' = IF todo' = <<>> THEN "loaded" ELSE "open"
  BY DEF PayloadLoaded
<1>4. Place(k) /\ k # 1 BY <1>1, <1>2 DEF SegmentsAt, Place
<1>5. SoundBefore(k + 1) /\ Paths \in Seq(STRING) BY <1>1, <1>2, <1>3, <1>4, SoundFile
<1>6. ~IsProgram' BY <1>1, <1>3 DEF IsProgram
<1>7. Len(Paths) - Len(todo') + 1 = k + 1
  <2>1. todo \in Seq(STRING) /\ todo # <<>> /\ Len(todo) = Len(Paths) - k + 1 BY <1>1, <1>4 DEF Place
  <2>2. Len(Paths) \in Nat BY <1>5
  <2> QED BY <1>3, <2>1, <2>2
<1> QED BY <1>3, <1>5, <1>6, <1>7, SoundNext

\* The steps behind the last file.
LEMMA SoundEnd ==
  ASSUME SoundInv, SetupRom \/ RomDone \/ NoRom, UNCHANGED argVars
  PROVE  SoundInv'
<1>1. load \in {"loaded", "rom"} /\ load' \in {"rom", "ready", "bare"} BY DEF SetupRom, RomDone, NoRom
<1>2. Paths' = Paths /\ \A n : SoundBefore(n)' = SoundBefore(n) BY SameSound
<1> QED BY <1>1, <1>2 DEF SoundInv

\* Every step keeps it.
LEMMA SoundKeeps == SInv /\ SoundInv /\ [Next]_vars => SoundInv'
<1> SUFFICES ASSUME SInv, SoundInv, [Next]_vars PROVE SoundInv' OBVIOUS
<1>1. ArgsInv /\ LoadInv BY DEF SInv
<1>2. load' \in {"start", "failed", "running"} => SoundInv' BY DEF SoundInv
<1>3. CASE ParseStep
  <2>1. parsing = "options" /\ UNCHANGED loadVars
    BY <1>3 DEF ParseStep, ParseArguments, Help, Payload, Unknown, Plus, Permissive, Plain, End, At
  <2>2. load \in {"start", "failed"} BY <1>1, <2>1 DEF LoadInv
  <2> QED BY <1>2, <2>1, <2>2 DEF loadVars
<1>4. CASE Boot
  <2>1. UNCHANGED argVars BY <1>4 DEF Boot
  <2>2. CASE Die BY <1>2, <2>2 DEF Die
  <2>3. CASE ~Die
    <3>1. CASE Start BY <1>1, <2>1, <3>1, SoundStart
    <3>2. CASE OpenElf BY <1>1, <2>1, <2>3, <3>2, SoundOpen
    <3>3. CASE Segment BY <1>1, <2>1, <2>3, <3>3, SoundSegment
    <3>4. CASE ProgramLoaded BY <1>1, <2>1, <2>3, <3>4, SoundProgram
    <3>5. CASE PayloadLoaded BY <1>1, <2>1, <2>3, <3>5, SoundPayload
    <3>6. CASE SetupRom \/ RomDone \/ NoRom BY <2>1, <3>6, SoundEnd
    <3>7. CASE MemStep /\ UNCHANGED loadVars BY <2>1, <3>7, SoundStays
    <3> QED BY <1>4, <3>1, <3>2, <3>3, <3>4, <3>5, <3>6, <3>7 DEF Boot, LoadStep
  <2> QED BY <2>2, <2>3
<1>5. CASE EnterLoop BY <1>2, <1>5 DEF EnterLoop
<1>6. CASE Turn \/ Work \/ UNCHANGED vars
  <2>1. UNCHANGED argVars /\ UNCHANGED loadVars BY <1>6 DEF Turn, Work, vars
  <2> QED BY <2>1, SoundStays
<1>7. CASE Signal
  <2>1. CASE Die BY <1>2, <2>1 DEF Die
  <2>2. CASE ~Die
    <3>1. UNCHANGED argVars /\ UNCHANGED loadVars BY <1>7, <2>2 DEF Signal
    <3> QED BY <3>1, SoundStays
  <2> QED BY <2>1, <2>2
<1>8. CASE ProcessHtio \/ Stop
  <2>1. CASE Die BY <1>2, <2>1 DEF Die
  <2>2. CASE ~Die
    <3>1. UNCHANGED argVars /\ UNCHANGED loadVars
      BY <1>8, <2>2 DEF ProcessHtio, Poll, Clear, TestEnds, Dispatch, Return, BadSyscall, handle_identify,
                        handle_null_command, Check, Deliver, Stop, Host, EndTurn
    <3> QED BY <3>1, SoundStays
  <2> QED BY <2>1, <2>2
<1> QED BY <1>3, <1>4, <1>5, <1>6, <1>7, <1>8 DEF Next

\* The invariant of a whole run, from which the theorems follow.
LEMMA Always == Spec => [](SInv /\ SoundInv)
<1>1. Init => SoundInv
  <2> SUFFICES ASSUME Init PROVE SoundInv OBVIOUS
  <2>1. load = "start" BY DEF Init, LoadInit
  <2> QED BY <2>1 DEF SoundInv
<1> QED BY <1>1, Initially, Keeps, SoundKeeps, PTL DEF Spec

\* parse_arguments splits every vector as the reference definitions say.
THEOREM ArgumentsAlwaysSplit == Spec => []ArgumentsSplit
<1>1. SInv => ArgumentsSplit BY DEF SInv, ArgsInv
<1> QED BY <1>1, Always, PTL

\* Whoever calls it, memif_t reads and writes exactly the bytes of the call.
THEOREM MemoryAlwaysExact == Spec => []MemoryExact
<1>1. SInv => MemoryExact BY Exact DEF SInv
<1> QED BY <1>1, Always, PTL

\* start() and setup_rom load exactly the image of the program and its payloads.
THEOREM ImageAlwaysLoaded == Spec => []ImageLoaded
<1>1. SInv => ImageLoaded BY LoadExact DEF SInv
<1> QED BY <1>1, Always, PTL

\* A core comes up only over files that passed every assertion of load_elf, also
\* those made when some of a file is already in memory (elfloader.cc:24-103).
THEOREM OnlySoundLoaded == Spec => []OnlySoundFiles
<1>1. SInv /\ SoundInv => OnlySoundFiles
  <2> SUFFICES ASSUME SInv, SoundInv, load \in {"ready", "bare"} PROVE OnlySoundFiles BY DEF OnlySoundFiles
  <2>1. SoundBefore(Len(Paths) + 1) BY DEF SoundInv
  <2>2. Paths \in Seq(STRING)
    <3>1. ArgsTypes /\ parsing = "done" BY DEF SInv, LoadInv
    <3> QED BY <3>1, PathsType
  <2>3. \A k \in DOMAIN Paths : k < Len(Paths) + 1 BY <2>2
  <2>4. \A k \in DOMAIN Paths : Tested(k) BY <2>1, <2>3 DEF SoundBefore
  <2>5. ASSUME program # NONE PROVE 1 \in DOMAIN Paths /\ Paths[1] = program
    <3>1. payloads \in Seq(STRING) /\ program \in STRING BY DEF SInv, LoadInv, ArgsTypes
    <3> QED BY <2>5, <3>1 DEF Paths
  <2> QED BY <2>4, <2>5 DEF OnlySoundFiles, Tested, PathFile
<1> QED BY <1>1, Always, PTL

\* The conversation through tohost and fromhost loses, repeats and misplaces no
\* answer, and the exit code is that of the program's last exit.
THEOREM ConversationAlwaysExact == Spec => []ConversationExact
<1>1. SInv => ConversationExact BY TalkExact
<1> QED BY <1>1, Always, PTL
=============================================================================
