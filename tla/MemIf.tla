------------------------------- MODULE MemIf --------------------------------
(* How the host reads and writes target memory: memif_t splits a call into   *)
(* chunks, and BucketMemory each chunk at the ends of its buckets.  One      *)
(* action is one turn of a loop.  Address x is byte x % BUCKET of bucket     *)
(* x \div BUCKET.                                                            *)
EXTENDS Integers

CONSTANTS SPACE,   \* addresses: 2^32
          BUCKET,  \* bucketSize
          CHUNK,   \* chunk_max_size()
          ALIGNS,  \* values of chunk_align()
          BYTE     \* values of a byte

ASSUME MemIfAssumption ==
  /\ SPACE \in Nat /\ BUCKET \in Nat \ {0} /\ CHUNK \in Nat \ {0}
  /\ ALIGNS \subseteq Nat \ {0} /\ \A a \in ALIGNS : SPACE % a = 0
  /\ 0 \in BYTE

VARIABLES align,
          mem,
          stage,             \* "idle", or the loop that the call is in
          call,              \* the call under way, or the last one
          addr, off, len,    \* what is left of it: `len' bytes from `off' on
          pos,               \* bytes done of the last loop
          left,              \* bytes left of the current chunk
          out,               \* the bytes that were read
          thrown,
          before             \* memory when the call came: no action reads it
memifVars == <<align, mem, stage, call, addr, off, len, pos, left, out, thrown, before>>

Address == 0..(SPACE - 1)
Span(a, n) == a..(a + n - 1)
smaller(a, b) == IF a < b THEN a ELSE b

\* A call lies below SPACE.  `word': it goes through one of the accessors.
Calls == UNION {[wr : BOOLEAN, word : IF n > 0 THEN BOOLEAN ELSE {FALSE}, addr : 0..(SPACE - n), len : {n},
                 data : [Span(0, n) -> BYTE]] : n \in 0..SPACE}

\* The bytes at the addresses S, which are written from f, or read into the
\* place o, with a as origin.
Put(S, a, f) == [x \in Address |-> IF x \in S THEN f[x - a] ELSE mem[x]]
Get(S, a, o) == [i \in DOMAIN out |-> IF a + i - o \in S THEN mem[a + i - o] ELSE out[i]]

NoCall == [wr |-> FALSE, word |-> FALSE, addr |-> 0, len |-> 0, data |-> [i \in Span(0, 0) |-> 0]]
MemInit ==
  /\ align \in ALIGNS
  /\ mem = [x \in Address |-> 0] /\ before = mem
  /\ stage = "idle" /\ thrown = FALSE /\ call = NoCall
  /\ addr = 0 /\ off = 0 /\ len = 0 /\ pos = 0 /\ left = 0 /\ out = [i \in Span(0, 0) |-> 0]

\* A word has to be aligned.
Call(c) ==
  /\ stage = "idle" /\ ~thrown
  /\ call' = c /\ addr' = c.addr /\ off' = 0 /\ len' = c.len /\ pos' = 0 /\ left' = 0
  /\ out' = [i \in Span(0, c.len) |-> 0] /\ before' = mem
  /\ thrown' = (c.word /\ c.addr % c.len # 0)
  /\ stage' = IF thrown' THEN "idle" ELSE "head"
  /\ UNCHANGED <<align, mem>>

\* A partial chunk: n bytes from offset o of the call are copied into the
\* whole chunk at `base', which is read and written back, or out of it.
Partial(base, a, o, n) ==
  LET chunk == [j \in Span(0, align) |-> IF base + j \in Span(a, n)
                                         THEN call.data[o + base + j - a] ELSE mem[base + j]]
  IN IF call.wr THEN mem' = Put(Span(base, align), base, chunk) /\ UNCHANGED out
                ELSE out' = Get(Span(a, n), a, o) /\ UNCHANGED mem

\* The bytes up to the first chunk border.
HeadBlock ==
  LET n == smaller(len, align - (addr % align)) IN
  /\ stage = "head" /\ stage' = "tail"
  /\ IF len # 0 /\ addr % align # 0
     THEN /\ Partial(addr - (addr % align), addr, off, n)
          /\ addr' = addr + n /\ off' = off + n /\ len' = len - n
     ELSE UNCHANGED <<mem, out, addr, off, len>>
  /\ UNCHANGED <<align, call, pos, left, thrown, before>>

\* The bytes behind the last chunk border.
TailBlock ==
  LET n == len % align IN
  /\ stage = "tail" /\ stage' = "body"
  /\ IF n # 0
     THEN Partial(addr + len - n, addr + len - n, off + len - n, n) /\ len' = len - n
     ELSE UNCHANGED <<mem, out, len>>
  /\ UNCHANGED <<align, call, addr, off, pos, left, thrown, before>>

\* Zeros are not copied: clear_chunk makes them.
all_zero == \A i \in Span(off, len) : call.data[i] = 0

\* The part of a chunk that is in one bucket.  What is copied past the end of
\* the bucket's array does not get to the next bucket.
piece_WholeBucket(a, chunk) == smaller(BUCKET, chunk)
piece(a, chunk) == smaller(BUCKET - (a % BUCKET), chunk)
InBucket(a, n) == Span(a, n) \cap Span(a - (a % BUCKET), BUCKET)

\* Chunk after chunk, and in each bucket after bucket.
BodyBlock ==
  LET chunk == IF left = 0 THEN smaller(CHUNK, len - pos) ELSE left
      a == addr + pos
      n == piece(a, chunk)
  IN /\ stage = "body" /\ pos < len
     /\ IF call.wr
        THEN /\ mem' = Put(InBucket(a, n), a, [j \in Span(0, n) |->
                         IF all_zero THEN 0 ELSE call.data[off + pos + j]])
             /\ UNCHANGED out
        ELSE out' = Get(InBucket(a, n), a, off + pos) /\ UNCHANGED mem
     /\ pos' = pos + n /\ left' = chunk - n
     /\ UNCHANGED <<align, stage, call, addr, off, len, thrown, before>>

Finish ==
  /\ stage = "body" /\ pos >= len /\ stage' = "idle"
  /\ UNCHANGED <<align, mem, call, addr, off, len, pos, left, out, thrown, before>>

MemStep == HeadBlock \/ TailBlock \/ BodyBlock \/ Finish
MemNext == MemStep \/ \E c \in Calls : Call(c)
MemSpec == MemInit /\ [][MemNext]_memifVars

-----------------------------------------------------------------------------
(* Properties.                                                               *)

\* memif.cc:11, 48: when a call is over, memory differs from before in its
\* bytes alone, each of which is that of the call; or each byte that was read
\* is that of memory.  Wherever chunks, their borders and the ends of buckets
\* fall, and whether zeros are cleared or copied.
MemoryExact ==
  LET done(x) == ~thrown /\ call.wr /\ x \in Span(call.addr, call.len) IN
  stage = "idle" =>
    /\ mem = [x \in Address |-> IF done(x) THEN call.data[x - call.addr] ELSE before[x]]
    /\ ~thrown /\ ~call.wr => out = [i \in Span(0, call.len) |-> before[call.addr + i]]
=============================================================================
