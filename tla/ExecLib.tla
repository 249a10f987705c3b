------------------------------- MODULE ExecLib -------------------------------
(* The library of the programs that run on the simulated core: ExecLib.c     *)
(* (its exchange with the host is HostCall's), and the string functions of   *)
(* 151_library.  A string is a sequence of characters, without the zero that *)
(* ends it.                                                                  *)
EXTENDS Integers, Sequences

CONSTANT WORD   \* values of an unsigned: 2^32

ASSUME ExecLibAssumption == WORD \in Nat \ {0}

ASCII_0 == 48
mul(a, b) == a * b
strlen_e(str) == Len(str)

\* As often as `base' goes into val, nine times at most; none if more is left.
get_digit(base, val) ==
  LET i == IF base # 0 /\ val \div base < 9 THEN val \div base ELSE 9
  IN IF val - i * base >= base THEN 0 ELSE i

\* The powers of ten, as far as an unsigned holds them.
base[j \in 0..99] ==
  IF j = 0 THEN 0 ELSE IF j = 1 THEN 1 ELSE mul(base[j - 1], 10) % WORD

\* The first loop goes on until a power is greater than val, which none is that
\* is not held by an unsigned: it never ends for the reg_t of an error.
Hangs(val) == val < 0 \/ val >= WORD
Power(val) == (CHOOSE j \in 1..99 : /\ (base[j] - 1) % WORD >= val
                                    /\ \A k \in 1..(j - 1) : (base[k] - 1) % WORD < val) - 1

\* Digit after digit, as long as something is left of val.
uint64_to_str_LeadingZero(val) ==
  LET j == Power(val) + 1
      left[k \in 0..j] == IF k = j THEN val ELSE left[k + 1] - mul(base[k + 1], get_digit(base[k + 1], left[k + 1]))
      n == CHOOSE k \in 0..j : left[j - k] = 0 /\ \A i \in 0..(k - 1) : left[j - i] # 0
  IN IF val = 0 THEN <<ASCII_0>>
     ELSE [i \in 1..n |-> ASCII_0 + get_digit(base[j - i + 1], left[j - i + 1])]
uint64_to_str(val) ==
  LET j == Power(val)
      left[k \in 0..j] == IF k = j THEN val ELSE left[k + 1] - mul(base[k + 1], get_digit(base[k + 1], left[k + 1]))
      n == CHOOSE k \in 0..j : left[j - k] = 0 /\ \A i \in 0..(k - 1) : left[j - i] # 0
  IN IF val = 0 THEN <<ASCII_0>>
     ELSE [i \in 1..n |-> ASCII_0 + get_digit(base[j - i + 1], left[j - i + 1])]

-----------------------------------------------------------------------------
(* 151_library.  A type has `size' bytes.                                    *)

Pow(b, n) == LET p[i \in Nat] == IF i = 0 THEN 1 ELSE b * p[i - 1] IN p[n]
Ascii(first, n) == first..(first + n - 1)

\* What a character adds; another one is passed over.
Decimal(t, c) == IF c \in Ascii(ASCII_0, 10) THEN 10 * t + c - ASCII_0 ELSE t
Hex(t, c) ==
  IF c \in Ascii(ASCII_0, 10) THEN 16 * t + c - ASCII_0
  ELSE IF c \in Ascii(97, 6) THEN 16 * t + c - 97 + 10
  ELSE IF c \in Ascii(65, 6) THEN 16 * t + c - 65 + 10 ELSE t

\* The first characters, as many as there are hexadecimal digits of the type,
\* and of decimal ones one more.
ascii_dec_to(size, s) ==
  LET n == IF Len(s) < 2 * size + 1 THEN Len(s) ELSE 2 * size + 1
      t[i \in 0..n] == IF i = 0 THEN 0 ELSE Decimal(t[i - 1], s[i]) % Pow(256, size)
  IN t[n]
ascii_hex_to(size, s) ==
  LET n == IF Len(s) < 2 * size THEN Len(s) ELSE 2 * size
      t[i \in 0..n] == IF i = 0 THEN 0 ELSE Hex(t[i - 1], s[i]) % Pow(256, size)
  IN t[n]

\* As many digits as fit into a buffer of n characters.
to_ascii_hex(size, x, n) ==
  LET m == 2 * size
      t(i) == (x \div Pow(16, m - i)) % 16
  IN [i \in 1..(IF m < n - 1 THEN m ELSE n - 1) |-> IF t(i) <= 9 THEN ASCII_0 + t(i) ELSE 97 + t(i) - 10]

\* Up to the first character that differs, or the zero of both.
CharAt(s, i) == IF i <= Len(s) THEN s[i] ELSE 0
strcmp(s0, s1) ==
  LET stop == CHOOSE i \in 1..(Len(s0) + 1) :
                /\ CharAt(s0, i) # CharAt(s1, i) \/ CharAt(s0, i) = 0
                /\ \A j \in 1..(i - 1) : CharAt(s0, j) = CharAt(s1, j) /\ CharAt(s0, j) # 0
  IN IF CharAt(s0, stop) # CharAt(s1, stop) THEN 1 ELSE 0
strlen(s) == LET n == CHOOSE i \in 1..(Len(s) + 1) : CharAt(s, i) = 0 /\ \A j \in 1..(i - 1) : CharAt(s, j) # 0
             IN n - 1

-----------------------------------------------------------------------------
(* References.                                                               *)

\* The decimal digits of val but for the zeros at its end, all of which are
\* lost: 41 for 410.
IsTrimmedNumeral(str, val) ==
  LET value[i \in 0..Len(str)] == IF i = 0 THEN 0 ELSE 10 * value[i - 1] + str[i] - ASCII_0
  IN \/ val = 0 /\ str = <<ASCII_0>>
     \/ /\ val > 0 /\ str # <<>> /\ \A i \in 1..Len(str) : str[i] \in Ascii(ASCII_0, 10)
        /\ str[1] # ASCII_0 /\ str[Len(str)] # ASCII_0
        /\ \E zeros \in 0..9 : value[Len(str)] * Pow(10, zeros) = val
=============================================================================
