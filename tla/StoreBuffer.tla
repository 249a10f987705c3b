---------------------------- MODULE StoreBuffer ----------------------------
(* The store buffer of the simulation harness in front of its memory, byte   *)
(* by byte.  The i-th byte of the data of store s is <<s, i>>; a byte never  *)
(* written is Zero.                                                          *)
EXTENDS Integers, SequencesExt

CONSTANTS
  ADDR,          \* the byte addresses that the model keeps
  HALT_ADDR,     \* 0xFFFFFFFC
  CONSOLE_ADDR   \* 0xFFFFFFF8

\* The model keeps ordinary memory only.
ASSUME StoreBufferAssumption ==
  ADDR \subseteq Int /\ CONSOLE_ADDR \in Int /\ ADDR \cap CONSOLE_ADDR..(CONSOLE_ADDR + 7) = {}

VARIABLES mem, buffer
bufferVars == <<mem, buffer>>

Zero == <<0, 0>>
Span(first, n) == first..(first + n - 1)

BufferInit == mem = [b \in ADDR |-> Zero] /\ buffer = <<>>

\* The bytes of the 8-byte line of a load that a store at this offset covers.
\* The code has one branch per size, all of this form.
Covered(size, offset) ==
  IF offset \in 0..(8 - size) THEN Span(offset, size)
  ELSE IF offset \in (9 - size)..7 THEN Span(offset, 8 - offset)
  ELSE IF offset \in (1 - size)..(-1) THEN Span(0, size + offset)
  ELSE {}

\* The line at address a: memory, with the buffered stores over it, in order.
LoadData(m, buf, a) ==
  LET line[i \in 0..Len(buf)] ==
        IF i = 0 THEN [j \in 0..7 |-> IF a + j \in ADDR THEN m[a + j] ELSE Zero]
        ELSE LET s == buf[i] IN
             [j \in 0..7 |-> IF j \in Covered(s.size, s.addr - a)
                             THEN <<s.id, j - (s.addr - a)>> ELSE line[i - 1][j]]
  IN line[Len(buf)]

write_transaction(m, s) ==
  IF s.addr = CONSOLE_ADDR THEN m
  ELSE [b \in ADDR |-> IF b \in Span(s.addr, s.size) THEN <<s.id, b - s.addr>> ELSE m[b]]

\* Memory after these stores, one after the other.
Written(m, stores) ==
  LET after[i \in 0..Len(stores)] ==
        IF i = 0 THEN m ELSE write_transaction(after[i - 1], stores[i])
  IN after[Len(stores)]

\* The first n stores go to memory.  When a store asks to halt, or there are
\* fewer than n, the buffer is emptied and the simulation ends.
CommitStoreRequest_Newest(m, buf, n) ==
  LET few == n > Len(buf) IN
  [mem    |-> IF few THEN m ELSE Written(m, Reverse(SubSeq(buf, 1, n))),
   buffer |-> IF few THEN <<>> ELSE SubSeq(buf, n + 1, Len(buf)),
   stop   |-> few]
CommitStoreRequest(m, buf, n) ==
  LET few   == n > Len(buf)
      halts == {k \in 1..n : ~few /\ buf[k].addr = HALT_ADDR}
      last  == CASE few -> 0
                 [] halts # {} -> (CHOOSE k \in halts : \A l \in halts : k <= l) - 1
                 [] OTHER -> n
      stop  == few \/ halts # {}
  IN [mem    |-> Written(m, SubSeq(buf, 1, last)),
      buffer |-> IF stop THEN <<>> ELSE SubSeq(buf, n + 1, Len(buf)),
      stop   |-> stop]

\* What a byte is after these stores: that of the youngest one over it.
Youngest(stores) == CHOOSE s \in stores : \A t \in stores : t.id <= s.id
NewestByte(stores, b) ==
  LET over == {s \in stores : b \in Span(s.addr, s.size)}
  IN IF over = {} THEN Zero ELSE <<Youngest(over).id, b - Youngest(over).addr>>
=============================================================================
