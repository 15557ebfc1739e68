------------------------------- MODULE Vectors -------------------------------
(***************************************************************************)
(* The vector registers and instructions that the kernels of VapStd use.   *)
(* A register is the sequence of its elements, lowest first; an element is *)
(* an integer, signed or not as the instruction that made it says.  The    *)
(* instructions that move elements work in each 128-bit lane by itself:    *)
(* L is the number of elements of a lane, and a 256-bit register has two   *)
(* lanes.  No element of 32 bits leaves the range of int32_t: the callers  *)
(* choose their values so.  A float is an exact number; where it has to be *)
(* divided it is a numerator, and the denominator is carried beside it.    *)
(***************************************************************************)
LOCAL INSTANCE Integers
LOCAL INSTANCE Sequences

Least(a, b) == IF a < b THEN a ELSE b
Greatest(a, b) == IF a < b THEN b ELSE a
Clamp(lo, hi, x) == IF x < lo THEN lo ELSE IF x > hi THEN hi ELSE x
Magnitude(x) == IF x < 0 THEN -x ELSE x

INT16_MIN == -32768
UINT8_MAX == 255
UINT16_MAX == 65535
\* INFINITY, and FLT_MAX: beyond every number of an instance.
INFINITY == 1000000000

\* The pixel types.  A float has no largest value.
Top(T) == IF T = "byte" THEN UINT8_MAX ELSE UINT16_MAX
IsFloat(T) == T = "float"
BytesPerSample(T) == CASE T = "byte" -> 1 [] T = "word" -> 2 [] T = "float" -> 4

\* What is left of x in a register element of 8 or 16 bits.
U8(x) == x % 256
U16(x) == x % 65536
S16(x) == ((x + 32768) % 65536) - 32768

\* n / d to the nearest integer, ties to even: lrint and cvtps2dq.
Nearest(n, d) ==
  LET q == n \div d
      r == n % d
  IN IF 2 * r < d \/ (2 * r = d /\ q % 2 = 0) THEN q ELSE q + 1

\* The square root of n, cut off: every kernel takes the root of the same sum.
Root(n) ==
  LET search[k \in 0 .. 16, low \in 0 .. 65535] ==
        IF k = 0 THEN low
        ELSE LET mid == low + 2 ^ (k - 1)
             IN IF mid <= 46340 /\ mid * mid <= n THEN search[k - 1, mid] ELSE search[k - 1, low]
  IN search[16, 0]

-----------------------------------------------------------------------------
(* One element *)

adds_epu(top, a, b) == Least(a + b, top)
subs_epu(a, b) == Greatest(a - b, 0)
adds_epi(bits, a, b) == Clamp(-(2 ^ (bits - 1)), 2 ^ (bits - 1) - 1, a + b)
subs_epi(bits, a, b) == Clamp(-(2 ^ (bits - 1)), 2 ^ (bits - 1) - 1, a - b)
\* Two products of 16 bits, added in 32.
madd(c, x) == c[1] * x[1] + c[2] * x[2]

\* The upper halves of two products, of 16 and of 32 bits; m is a pair of halves.
mulhi(x, y) == (x * y) \div 65536
LOCAL Carried(x, m, c) ==
  LET high == (x \div 16384) * m
  IN (high \div 4) + ((high % 4) * 16384 + (x % 16384) * m + c) \div 65536
mulhi_epu32(x, m) == Carried(x, m[1], Carried(x, m[2], 0))
div255(x) == mulhi(x, 32897) \div 128

-----------------------------------------------------------------------------
(* Moving elements *)

\* A row of n pixels that is made N at a time: where the registers begin, and the
\* pixels that they leave behind.
Starts(n, N) == {N * b : b \in 0 .. (n - 1) \div N}
Stored(block, n, N) == [x \in 0 .. n - 1 |-> block[N * (x \div N)][(x % N) + 1]]

set1(N, x) == [i \in 1 .. N |-> x]
loadu(row, at, N) == [i \in 1 .. N |-> row[at + i]]
Zip(x, y) == [i \in DOMAIN x |-> <<x[i], y[i]>>]

\* The lower, or the upper, half of every lane (unpacklo and unpackhi with zeros).
UnpackLo(x, L) == [i \in 1 .. Len(x) \div 2 |-> x[((i - 1) \div (L \div 2)) * L + ((i - 1) % (L \div 2)) + 1]]
UnpackHi(x, L) ==
  [i \in 1 .. Len(x) \div 2 |->
    x[((i - 1) \div (L \div 2)) * L + (L \div 2) + ((i - 1) % (L \div 2)) + 1]]

\* Two registers into one: lane by lane, lo's elements and then hi's.
Pack(lo, hi, L) ==
  LET H == L \div 2 IN
  [i \in 1 .. 2 * Len(lo) |->
    LET lane == (i - 1) \div L
        k == (i - 1) % L
    IN IF k < H THEN lo[lane * H + k + 1] ELSE hi[lane * H + k - H + 1]]
packs_epi32(lo, hi) == LET p == Pack(lo, hi, 8) IN [i \in DOMAIN p |-> Clamp(-32768, 32767, p[i])]
packus_epi32(lo, hi) == LET p == Pack(lo, hi, 8) IN [i \in DOMAIN p |-> Clamp(0, UINT16_MAX, p[i])]
packus_epi16(lo, hi) == LET p == Pack(lo, hi, 16) IN [i \in DOMAIN p |-> Clamp(0, UINT8_MAX, p[i])]

\* The quarters of a 256-bit register in another order, and its lower half.
permute4x64(x, order) ==
  LET Q == Len(x) \div 4 IN [i \in DOMAIN x |-> x[order[((i - 1) \div Q) + 1] * Q + ((i - 1) % Q) + 1]]
LowHalf(x) == SubSeq(x, 1, Len(x) \div 2)

\* What a script's function of two pixels answers goes round.
answerOf(func, x, y) == LET of == func[(x % Len(func)) + 1] IN of[(y % Len(of)) + 1]
=============================================================================
