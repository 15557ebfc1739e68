---------------------------- MODULE PlanePasses ----------------------------
(***************************************************************************)
(* What works on a whole plane, or on one line of it from end to end: the  *)
(* statistics, the transposition, and the blur, which is horizontal, and   *)
(* vertical between two transpositions.                                    *)
(***************************************************************************)
LOCAL INSTANCE Integers
LOCAL INSTANCE Sequences
LOCAL INSTANCE Vectors

-----------------------------------------------------------------------------
(* The kernels of kernel/planestats.c and of kernel/x86/planestats_sse2.c  *)
(* and planestats_avx2.c. src2 is empty when there is one plane. An        *)
(* accumulator is kept in parts, as the registers keep it; a part does not *)
(* overflow in an instance.                                                *)

\* What the structure holds before a kernel writes to it.
NoStats == [min |-> 0, max |-> 0, acc |-> 0, diffacc |-> 0]

LOCAL Pixel(row, x) == row[x + 1]

\* UINT_MAX is beyond every pixel too.
scan(T, src1, src2, width, height) ==
  LET two == src2 # <<>>
      after[k \in 0 .. width * height] ==
        IF k = 0 THEN [min |-> INFINITY, max |-> IF IsFloat(T) THEN -INFINITY ELSE 0, acc |-> 0, diffacc |-> 0]
        ELSE LET s == after[k - 1]
                 y == (k - 1) \div width
                 x == (k - 1) % width
                 v == Pixel(src1[y], x)
             IN [min |-> Least(s.min, v), max |-> Greatest(s.max, v), acc |-> s.acc + v,
                 diffacc |-> s.diffacc + IF two THEN Magnitude(v - Pixel(src2[y], x)) ELSE 0]
  IN after[width * height]

vs_plane_stats_1_c(T, src, width, height) == scan(T, src, <<>>, width, height)

\* The last one, for two planes of floats, does not store what it found.
vs_plane_stats_2_c(T, src1, src2, width, height) ==
  IF IsFloat(T) THEN NoStats ELSE scan(T, src1, src2, width, height)

-----------------------------------------------------------------------------
(* Registers *)

\* A register folded onto itself, half by half, down to one element.
hmax(x) ==
  LET fold[N \in {1, 2, 4, 8, 16, 32}] ==
        IF N = Len(x) THEN x
        ELSE [i \in 1 .. N |-> Greatest(fold[2 * N][i], fold[2 * N][i + N])]
  IN fold[1][1]
hmin(x) ==
  LET fold[N \in {1, 2, 4, 8, 16, 32}] ==
        IF N = Len(x) THEN x
        ELSE [i \in 1 .. N |-> Least(fold[2 * N][i], fold[2 * N][i + N])]
  IN fold[1][1]
hadd(x) ==
  LET fold[N \in {1, 2, 4, 8, 16, 32}] ==
        IF N = Len(x) THEN x ELSE [i \in 1 .. N |-> fold[2 * N][i] + fold[2 * N][i + N]]
  IN fold[1][1]

\* The sums of P neighbours each.
LOCAL Sums(x, P) ==
  [q \in 1 .. Len(x) \div P |->
    LET sum[k \in 0 .. P] == IF k = 0 THEN 0 ELSE sum[k - 1] + x[(q - 1) * P + k] IN sum[P]]

\* What one register adds: _mm_sad_epu8 adds eight bytes, and words are taken apart
\* into their lower and their upper bytes; floats become doubles, half and half.
LOCAL AddedBytes(x) == Sums(x, 8)
LOCAL AddedWords(x) ==
  LET lo == Sums([i \in DOMAIN x |-> x[i] % 256], 4)
      hi == Sums([i \in DOMAIN x |-> x[i] \div 256], 4)
  IN [q \in DOMAIN lo |-> lo[q] + 256 * hi[q]]
LOCAL AddedFloats(x) == [i \in 1 .. Len(x) \div 2 |-> x[i] + x[i + Len(x) \div 2]]

\* N pixels at a time; what lies beyond the row is masked out of the last register.
\* low and high are the lowest and the highest element, and shift is what is added to
\* compare words as signed ones.
sweep(T, N, low, high, shift, src1, src2, width, height) ==
  LET two == src2 # <<>>
      tail == (width \div N) * N
      mask == [k \in 1 .. N |-> k - 1 < width % N]
      masked(v, other) == [k \in 1 .. N |-> IF mask[k] THEN v[k] ELSE other]
      added(v) == CASE T = "byte" -> AddedBytes(v) [] T = "word" -> AddedWords(v)
                    [] T = "float" -> AddedFloats(v)
      registers == (width + N - 1) \div N
      sum(x, y) == [q \in DOMAIN x |-> x[q] + y[q]]
      zero == added(set1(N, 0))
      after[r \in 0 .. registers * height] ==
        IF r = 0 THEN [min |-> set1(N, high), max |-> set1(N, low), acc |-> zero, diffacc |-> zero]
        ELSE LET s == after[r - 1]
                 y == (r - 1) \div registers
                 at == ((r - 1) % registers) * N
                 whole == loadu(src1[y], at, N)
                 v1 == IF at < tail THEN whole ELSE masked(whole, 0)
                 upper == IF at < tail THEN whole ELSE masked(whole, high - shift)
                 lower == IF at < tail THEN whole
                          ELSE masked(whole, IF IsFloat(T) THEN -INFINITY ELSE 0)
                 v2 == IF ~two THEN v1
                       ELSE IF at < tail THEN loadu(src2[y], at, N)
                       ELSE masked(loadu(src2[y], at, N), 0)
             IN [min |-> [k \in 1 .. N |-> Least(s.min[k], upper[k] + shift)],
                 max |-> [k \in 1 .. N |-> Greatest(s.max[k], lower[k] + shift)],
                 acc |-> sum(s.acc, added(v1)),
                 diffacc |-> sum(s.diffacc, added([k \in 1 .. N |-> Magnitude(v1[k] - v2[k])]))]
      last == after[registers * height]
  IN [min |-> hmin(last.min) - shift, max |-> hmax(last.max) - shift, acc |-> hadd(last.acc),
      diffacc |-> hadd(last.diffacc)]

LOCAL stats_sse2(T, src1, src2, width, height) ==
  CASE T = "byte" -> sweep(T, 16, 0, UINT8_MAX, 0, src1, src2, width, height)
    [] T = "word" -> sweep(T, 8, INT16_MIN, -INT16_MIN - 1, INT16_MIN, src1, src2, width, height)
    [] T = "float" -> sweep(T, 4, -INFINITY, INFINITY, 0, src1, src2, width, height)
vs_plane_stats_1_sse2(T, src, width, height) == stats_sse2(T, src, <<>>, width, height)
vs_plane_stats_2_sse2(T, src1, src2, width, height) == stats_sse2(T, src1, src2, width, height)

LOCAL stats_avx2(T, src1, src2, width, height) ==
  CASE T = "byte" -> sweep(T, 32, 0, UINT8_MAX, 0, src1, src2, width, height)
    [] T = "word" -> sweep(T, 16, 0, UINT16_MAX, 0, src1, src2, width, height)
    [] T = "float" -> sweep(T, 8, -INFINITY, INFINITY, 0, src1, src2, width, height)
vs_plane_stats_1_avx2(T, src, width, height) == stats_avx2(T, src, <<>>, width, height)
vs_plane_stats_2_avx2(T, src1, src2, width, height) == stats_avx2(T, src1, src2, width, height)

\* The averages are fractions of the largest pixel, given with their denominators.
planeStats(args, cpu, src1, src2, width, height) ==
  LET one(kernel(_, _, _, _)) == kernel(args.T, src1, width, height)
      two(kernel(_, _, _, _, _)) == kernel(args.T, src1, src2, width, height)
      stats ==
        IF src2 = <<>>
          THEN CASE cpu = "avx2" -> one(vs_plane_stats_1_avx2)
                 [] cpu = "sse2" -> one(vs_plane_stats_1_sse2)
                 [] cpu = "c" -> one(vs_plane_stats_1_c)
          ELSE CASE cpu = "avx2" -> two(vs_plane_stats_2_avx2)
                 [] cpu = "sse2" -> two(vs_plane_stats_2_sse2)
                 [] cpu = "c" -> two(vs_plane_stats_2_c)
      whole == width * height * IF IsFloat(args.T) THEN 1 ELSE 2 ^ args.bits - 1
  IN [min |-> stats.min, max |-> stats.max, average |-> <<stats.acc, whole>>,
      diff |-> IF src2 = <<>> THEN <<0, 1>> ELSE <<stats.diffacc, whole>>]

-----------------------------------------------------------------------------
(* The transposition of a plane: kernel/transpose.h over the blocks of     *)
(* transpose.c and x86/transpose_sse2.c. Pixels are only moved: a plane    *)
(* may hold any values. The result is what is written, row by row of the   *)
(* new plane; a pixel that nothing writes is Unwritten.                    *)

Unwritten == <<>>

\* Two registers interleaved, g elements at a time: the lower and the upper half.
LOCAL Interleaved(x, y, g) ==
  [i \in 1 .. 2 * Len(x) |->
    LET k == ((i - 1) \div (2 * g)) * g + ((i - 1) % g) + 1
    IN IF ((i - 1) \div g) % 2 = 0 THEN x[k] ELSE y[k]]
unpacklo(x, y, g) == SubSeq(Interleaved(x, y, g), 1, Len(x))
unpackhi(x, y, g) == SubSeq(Interleaved(x, y, g), Len(x) + 1, 2 * Len(x))

\* A block of rows becomes a block of columns, both counted from 1.
transpose_block_c(row) == row

\* The order of the unpacks of each round: the rows that are paired, and which half.
LOCAL First(row, g) ==
  [k \in 1 .. 8 |-> LET a == 2 * ((k - 1) % 4) + 1
                    IN IF k <= 4 THEN unpacklo(row[a], row[a + 1], g) ELSE unpackhi(row[a], row[a + 1], g)]
LOCAL Second(t, g) ==
  [k \in 1 .. 8 |-> LET a == 2 * ((k - 1) \div 2) + 1
                    IN IF k % 2 = 1 THEN unpacklo(t[a], t[a + 1], g) ELSE unpackhi(t[a], t[a + 1], g)]
LOCAL Third(tt, g) ==
  [k \in 1 .. 8 |-> LET a == 4 * ((k - 1) \div 4) + (((k - 1) \div 2) % 2) + 1
                    IN IF k % 2 = 1 THEN unpacklo(tt[a], tt[a + 2], g) ELSE unpackhi(tt[a], tt[a + 2], g)]

\* Eight rows of sixteen bytes: the double words of a row are shuffled first, so that
\* each register ends up with two columns, which are stored apart.
transpose_block_byte_sse2(row) ==
  LET shuffled == [k \in 1 .. 8 |->
                    [i \in 1 .. 16 |-> row[k][4 * (<<0, 2, 1, 3>>[((i - 1) \div 4) + 1]) + ((i - 1) % 4) + 1]]]
      t == First(shuffled, 1)
      tt == Second(t, 2)
      r == Third(tt, 4)
      column == <<0, 2, 8, 10, 4, 6, 12, 14>>
      at(c) == CHOOSE k \in 1 .. 8 : column[k] = 2 * (c \div 2)
  IN [j \in 1 .. 16 |-> IF j % 2 = 1 THEN SubSeq(r[at(j - 1)], 1, 8) ELSE SubSeq(r[at(j - 1)], 9, 16)]

transpose_block_word_sse2(row) == Third(Second(First(row, 1), 2), 4)

\* _MM_TRANSPOSE4_PS.
transpose_block_dword_sse2(row) == [j \in 1 .. 4 |-> [i \in 1 .. 4 |-> row[i][j]]]

-----------------------------------------------------------------------------
BLOCK_WIDTH(T, cpu) ==
  IF cpu = "c" THEN 1 ELSE CASE T = "byte" -> 16 [] T = "word" -> 8 [] T = "dword" -> 4
BLOCK_HEIGHT(T, cpu) ==
  IF cpu = "c" THEN 1 ELSE CASE T = "byte" -> 8 [] T = "word" -> 8 [] T = "dword" -> 4

transpose_block(T, cpu, row) ==
  CASE cpu = "c" -> transpose_block_c(row)
    [] cpu = "sse2" /\ T = "byte" -> transpose_block_byte_sse2(row)
    [] cpu = "sse2" /\ T = "word" -> transpose_block_word_sse2(row)
    [] cpu = "sse2" /\ T = "dword" -> transpose_block_dword_sse2(row)

LOCAL Loop(from, to, step) == {from + step * k : k \in 0 .. ((to - from + step - 1) \div step) - 1}

\* By cache lines, then by blocks, then row by row; what is right of the blocks goes
\* pixel by pixel.  A plane of double words rounds down as if it were one of bytes.
transpose_plane(T, cpu, src, width, height) ==
  LET W == BLOCK_WIDTH(T, cpu)
      H == BLOCK_HEIGHT(T, cpu)
      CACHELINE_SIZE(U) == CASE U = "byte" -> 64 [] U = "word" -> 32 [] U = "dword" -> 16
      floors == IF T = "dword" THEN "byte" ELSE T
      width_floor == width - (width % BLOCK_WIDTH(floors, cpu))
      height_floor == height - (height % CACHELINE_SIZE(floors))
      height_floor2 == height - (height % BLOCK_HEIGHT(floors, cpu))
      lines == Loop(0, height_floor, CACHELINE_SIZE(T))
      rest == Loop(height_floor, height_floor2, H)
      blocks == (rest \cup UNION {Loop(i, i + CACHELINE_SIZE(T), H) : i \in lines})
                \X Loop(0, width_floor, W)
      singles == ((UNION {i .. i + CACHELINE_SIZE(T) - 1 : i \in lines})
                    \cup (UNION {i .. i + H - 1 : i \in rest})) \X (width_floor .. width - 1)
                 \cup (height_floor2 .. height - 1) \X (0 .. width - 1)
      block == [b \in blocks |->
                 transpose_block(T, cpu, [r \in 1 .. H |->
                                           [c \in 1 .. W |-> src[b[1] + r - 1][b[2] + c]]])]
  IN [j \in 0 .. width - 1 |-> [i \in 0 .. height - 1 |->
       LET b == <<i - (i % H), j - (j % W)>>
       IN IF b \in blocks THEN block[b][(j % W) + 1][(i % H) + 1]
          ELSE IF <<i, j>> \in singles THEN src[i][j + 1]
          ELSE Unwritten]]

\* There is nothing for AVX2.
transpose(T, cpu, src, width, height) ==
  transpose_plane(T, IF cpu = "c" THEN "c" ELSE "sse2", src, width, height)

-----------------------------------------------------------------------------
(* The horizontal blur of boxblurfilter.cpp, a row at a time: a sum slides *)
(* along the row, and each pass reads what the pass before it wrote. A row *)
(* of pixels is a function from 0. A row of floats is kept undivided:      *)
(* after p passes it is in parts of (2 * radius + 1)^p.                    *)

LOCAL Shared(T, acc, round, div) == IF IsFloat(T) THEN acc ELSE (acc + round) \div div

\* Any radius: from one row to another.
blurH(T, src, width, radius, round) ==
  LET in(x) == src[Clamp(0, width - 1, x)]
      first[x \in 0 .. radius] == IF x = 0 THEN radius * src[0] ELSE first[x - 1] + in(x - 1)
      acc[x \in 0 .. width] ==
        IF x = 0 THEN first[radius] ELSE acc[x - 1] + in(x - 1 + radius) - in(x - 1 - radius)
  IN [x \in 0 .. width - 1 |-> Shared(T, acc[x] + in(x + radius), round, 2 * radius + 1)]

\* A radius of one: a row may be blurred in place, because the two pixels that are
\* still needed are kept in tmp.  There have to be three pixels at least.
blurHR1(T, src, inPlace, width, round) ==
  LET after[x \in 0 .. width - 1] ==
        IF x = 0
          THEN LET acc == 2 * src[0] + src[1]
               IN [dst |-> [src EXCEPT ![0] = Shared(T, acc, round, 3)], acc |-> acc - src[0],
                   tmp |-> <<src[0], src[1]>>]
          ELSE LET s == after[x - 1]
                   slot == ((x + 1) % 2) + 1
                   v == IF x = width - 1 THEN s.tmp[3 - slot]
                        ELSE IF inPlace THEN s.dst[x + 1] ELSE src[x + 1]
               IN [dst |-> [s.dst EXCEPT ![x] = Shared(T, s.acc + v, round, 3)],
                   acc |-> s.acc + v - s.tmp[slot], tmp |-> [s.tmp EXCEPT ![slot] = v]]
  IN after[width - 1].dst

\* Mutant: only the first pass rounds the other way.
passRoundFirst(radius, p) == IF p = 0 THEN 0 ELSE 2 * radius
\* The rounding goes one way in the first pass, the other way in the second.
passRound(radius, p) == IF p % 2 = 1 THEN 0 ELSE 2 * radius

\* Every pass but the first reads one of two rows and writes the other; the last one
\* has to have written dst.
processPlane(T, src, width, passes, radius) ==
  LET to(p) == IF (passes - p) % 2 = 1 THEN "dst" ELSE "tmp"
      after[p \in 0 .. passes] ==
        IF p = 0 THEN [dst |-> <<>>, tmp |-> <<>>]
        ELSE LET from == IF p = 1 THEN src ELSE after[p - 1][to(p - 2)]
             IN [after[p - 1] EXCEPT ![to(p - 1)] = blurH(T, from, width, radius, passRound(radius, p - 1))]
  IN after[passes].dst

processPlaneR1(T, src, width, passes) ==
  LET after[p \in 1 .. passes] ==
        IF p = 1 THEN blurHR1(T, src, FALSE, width, passRound(1, 0))
        ELSE blurHR1(T, after[p - 1], TRUE, width, passRound(1, p - 1))
  IN after[passes]

\* row is a row of a plane, which is counted from 1.
boxBlur(args, row, width) ==
  LET src == [x \in 0 .. width - 1 |-> row[x + 1]]
  IN IF args.radius = 1 THEN processPlaneR1(args.T, src, width, args.passes)
     ELSE processPlane(args.T, src, width, args.passes, args.radius)
=============================================================================
