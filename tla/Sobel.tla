-------------------------------- MODULE Sobel --------------------------------
(* The edge detection that three of the programs do, with the same           *)
(* functions: sobel.c, sobel-approx.c, whose multiplication is an            *)
(* instruction that need not be exact, and the sobel.c of src/software.      *)
EXTENDS Integers, Sequences

CONSTANTS LOG2_FM_DIM,  \* 6
          mula(_, _)    \* the approximate multiplication

WT_DIM == 3
WT_SIZE == 9

\* No module of src/ decodes it.  What the program relies on: it makes 0 of 0,
\* as what is outside of the image adds nothing, it is off by less than a factor
\* of two, and no square is negative, of which int_sqrt would find no root.
Products == -1024..1024
Gradients == -(WT_SIZE * 1024)..(WT_SIZE * 1024)
ASSUME SobelAssumption ==
  /\ LOG2_FM_DIM \in Nat
  /\ \A w \in -2..2 : mula(0, w) = 0
  /\ \A d \in 0..255, w \in -2..2 : mula(d, w) \in Products
ASSUME SquaresAssumption == \A g \in Gradients : mula(g, g) \in Nat

\* 1 << n.
power2[n \in Nat] == IF n = 0 THEN 1 ELSE 2 * power2[n - 1]

FM_DIM == power2[LOG2_FM_DIM]
\* 1 << LOG2_FM_DIM * 1 << LOG2_FM_DIM, as it is read without parentheses.
FM_SIZE == power2[LOG2_FM_DIM * 1] * power2[LOG2_FM_DIM]

wt_x == <<-1, 0, 1, -2, 0, 2, -1, 0, 1>>
wt_y == <<1, 2, 1, 0, 0, 0, -1, -2, -1>>

Abs(a) == IF a < 0 THEN -a ELSE a
\* Shift and add, and the sign in the end.
times(a, b) ==
  LET add[p \in Nat \X Nat] ==
        IF p[2] = 0 THEN 0
        ELSE (IF p[2] % 2 = 1 THEN p[1] ELSE 0) + add[<<2 * p[1], p[2] \div 2>>]
      result == add[<<Abs(a), Abs(b)>>]
  IN IF (a < 0) # (b < 0) THEN -result ELSE result

\* The multiplication of a program.
Times(exact, a, b) == IF exact THEN times(a, b) ELSE mula(a, b)

\* n without its last k digits of base 4, until nothing is left: as many as
\* there are turns of the second loop.
n_shifted(n, k) == n \div power2[2 * k]
Stops(n, k) == n_shifted(n, k) = 0 \/ n_shifted(n, k) = n
Turns(n) == CHOOSE k \in 1..(n + 1) : Stops(n, k) /\ \A j \in 1..(k - 1) : ~Stops(n, j)
\* Digit by digit of base 2.
int_sqrt(exact, n) ==
  LET result[k \in 0..Turns(n)] ==
        IF k = 0 THEN 0
        ELSE LET tmp == 2 * result[k - 1] + 1
             IN IF Times(exact, tmp, tmp) <= n_shifted(n, Turns(n) - k) THEN tmp ELSE tmp - 1
  IN result[Turns(n)]

\* One turn of the inner loop: m and n walk over the weights, idx and idy over
\* the pixels.  Nothing is added for one outside of the image.
Tap(exact, ifm, wt, x, y, s, wt_idx) ==
  LET idx == x - (WT_DIM \div 2) + s.n
      idy == y - (WT_DIM \div 2) + s.m
      d == IF ~(idx < 0 \/ idx >= FM_DIM \/ idy < 0 \/ idy >= FM_DIM)
           THEN ifm[idy * FM_DIM + idx + 1] ELSE 0
  IN [sum |-> s.sum + Times(exact, d, wt[wt_idx]),
      n |-> IF s.n + 1 = WT_DIM THEN 0 ELSE s.n + 1,
      m |-> IF s.n + 1 = WT_DIM THEN s.m + 1 ELSE s.m]

\* One of the outer loop: x and y walk over the image.
Pixel_RowKept(exact, ifm, wt, s) ==
  LET tap[k \in 0..WT_SIZE] ==
        IF k = 0 THEN [sum |-> 0, n |-> 0, m |-> 0]
        ELSE Tap(exact, ifm, wt, s.x, s.y, tap[k - 1], k)
  IN [ofm |-> Append(s.ofm, tap[WT_SIZE].sum), x |-> s.x + 1, y |-> s.y]
Pixel(exact, ifm, wt, s) ==
  LET tap[k \in 0..WT_SIZE] ==
        IF k = 0 THEN [sum |-> 0, n |-> 0, m |-> 0]
        ELSE Tap(exact, ifm, wt, s.x, s.y, tap[k - 1], k)
  IN [ofm |-> Append(s.ofm, tap[WT_SIZE].sum),
      x |-> IF s.x + 1 = FM_DIM THEN 0 ELSE s.x + 1,
      y |-> IF s.x + 1 = FM_DIM THEN s.y + 1 ELSE s.y]

conv2D_sw(exact, ifm, wt) ==
  LET fm[k \in 0..FM_SIZE] ==
        IF k = 0 THEN [ofm |-> <<>>, x |-> 0, y |-> 0] ELSE Pixel(exact, ifm, wt, fm[k - 1])
  IN fm[FM_SIZE].ofm

\* The loop of main that combines the two.
Magnitude(exact, x, y) ==
  LET mag == int_sqrt(exact, Times(exact, x, x) + Times(exact, y, y)) IN IF mag > 255 THEN 255 ELSE mag
Combine(exact, ofm_x, ofm_y) == [i \in 1..FM_SIZE |-> Magnitude(exact, ofm_x[i], ofm_y[i])]

checksum(array) == LET sum[i \in 0..FM_SIZE] == IF i = 0 THEN 0 ELSE sum[i - 1] + array[i] IN sum[FM_SIZE]

-----------------------------------------------------------------------------
(* Reference: the gradients of a pixel as sums over its neighbours.          *)

Near(exact, image, x, y, dx, dy, w) ==
  IF x + dx \in 0..(FM_DIM - 1) /\ y + dy \in 0..(FM_DIM - 1)
  THEN Times(exact, image[(y + dy) * FM_DIM + x + dx + 1], w) ELSE 0
Around(exact, image, x, y, weight(_, _)) ==
  LET near(dx, dy) == Near(exact, image, x, y, dx, dy, weight(dx, dy))
      row(dy) == near(-1, dy) + near(0, dy) + near(1, dy)
  IN row(-1) + row(0) + row(1)
GradX(exact, image, x, y) == Around(exact, image, x, y, LAMBDA dx, dy : dx * (2 - Abs(dy)))
GradY(exact, image, x, y) == Around(exact, image, x, y, LAMBDA dx, dy : -dy * (2 - Abs(dx)))

\* Each pixel is the square root of both, rounded down, 255 at most.  Of the
\* approximate multiplication nothing is known but that it maps 0 to 0, so that
\* there the root is what int_sqrt makes it.
IsSobel(exact, image, out) == \A x, y \in 0..(FM_DIM - 1) :
  LET gx == GradX(exact, image, x, y)
      gy == GradY(exact, image, x, y)
      o  == out[y * FM_DIM + x + 1]
  IN IF exact
     THEN o \in 0..255 /\ o * o <= gx * gx + gy * gy /\ (o < 255 => gx * gx + gy * gy < (o + 1) * (o + 1))
     ELSE o = Magnitude(exact, gx, gy)
=============================================================================
