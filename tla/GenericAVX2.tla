----------------------------- MODULE GenericAVX2 -----------------------------
(***************************************************************************)
(* kernel/x86/generic_avx2.cpp: the 3x3 filters on registers of 256 bits,  *)
(* that is of two lanes.  Words are compared unsigned.  Which elements a   *)
(* shift or a pack moves is another matter than in 128 bits; the rest is   *)
(* what generic_sse2.cpp does.                                             *)
(***************************************************************************)
LOCAL INSTANCE Integers
LOCAL INSTANCE Sequences
LOCAL INSTANCE Vectors

vec_len(T) == 32 \div BytesPerSample(T)

\* A shift stays in its lane: what leaves the one lane is put into the other by a
\* second shift, of a copy whose lanes are exchanged and filled with zeros.
mm256_slli_ex_si256(x) ==
  LET H == Len(x) \div 2
      tmp(i) == IF i \in {1, H + 1} THEN 0 ELSE x[i - 1]
      mask(i) == IF i = H + 1 THEN x[H] ELSE 0
  IN [i \in DOMAIN x |-> tmp(i) + mask(i)]
\* Mutant: the element that leaves the one lane does not get into the other.
srli_within_lanes(x) ==
  LET H == Len(x) \div 2 IN [i \in DOMAIN x |-> IF i \in {H, 2 * H} THEN 0 ELSE x[i + 1]]
mm256_srli_ex_si256(x) ==
  LET H == Len(x) \div 2
      tmp(i) == IF i \in {H, 2 * H} THEN 0 ELSE x[i + 1]
      mask(i) == IF i = H THEN x[H + 1] ELSE 0
  IN [i \in DOMAIN x |-> tmp(i) + mask(i)]

shl_insert_lo(x, y) == [mm256_slli_ex_si256(x) EXCEPT ![1] = @ + y]
shr_insert(x, y, idx) == [mm256_srli_ex_si256(x) EXCEPT ![idx + 1] = y]

LOCAL Element(a, i) == [k \in DOMAIN a |-> a[k][i]]
LOCAL Lo(a, L) == [k \in DOMAIN a |-> UnpackLo(a[k], L)]
LOCAL Hi(a, L) == [k \in DOMAIN a |-> UnpackHi(a[k], L)]

-----------------------------------------------------------------------------
\* gx and gy start from the same difference.
Gradient(Sobel, w) ==
  LET m == IF Sobel THEN 2 ELSE 1
      d == w[9] - w[1]
  IN <<d + w[7] + m * w[8] - m * w[2] - w[3], d + w[3] + m * w[6] - m * w[4] - w[7]>>

PrewittSobelByte(Sobel, p, a) ==
  LET tmpi(g) == [i \in DOMAIN g |-> Root(madd(g[i], g[i])) * p.scale]
      half(h) ==
        LET gxy == [i \in DOMAIN h[1] |-> LET g == Gradient(Sobel, Element(h, i))
                                          IN <<S16(g[1]), S16(g[2])>>]
        IN packs_epi32(tmpi(UnpackLo(gxy, 8)), tmpi(UnpackHi(gxy, 8)))
  IN packus_epi16(half(Lo(a, 16)), half(Hi(a, 16)))

PrewittSobelWord(Sobel, p, a) ==
  LET half(h) == [i \in DOMAIN h[1] |-> LET g == Gradient(Sobel, Element(h, i))
                                        IN Root(g[1] * g[1] + g[2] * g[2]) * p.scale]
      tmp == packus_epi32(half(Lo(a, 8)), half(Hi(a, 8)))
  IN [i \in DOMAIN tmp |-> Least(tmp[i], p.maxval)]

PrewittSobelFloat(Sobel, p, a) ==
  [i \in DOMAIN a[1] |-> LET g == Gradient(Sobel, Element(a, i))
                         IN Root(g[1] * g[1] + g[2] * g[2]) * p.scale]

-----------------------------------------------------------------------------
(* Minimum and Maximum *)

STENCIL_H == {3, 4}
STENCIL_V == {1, 6}
STENCIL_PLUS == STENCIL_H \cup STENCIL_V
STENCIL_ALL == 0 .. 7
LOCAL Neighbour == <<1, 2, 3, 4, 6, 7, 8, 9>>
LOCAL a11 == 5

limit_diff_epu8(Max, val, orig, threshold) ==
  IF Max THEN Least(val, adds_epu(UINT8_MAX, orig, threshold))
         ELSE Greatest(val, subs_epu(orig, threshold))
limit_diff_epu16(Max, val, orig, threshold) ==
  IF Max THEN Least(val, adds_epu(UINT16_MAX, orig, threshold))
         ELSE Greatest(val, subs_epu(orig, threshold))
limit_diff_ps(Max, val, orig, threshold) ==
  IF Max THEN Least(val, orig + threshold) ELSE Greatest(val, orig - threshold)

LOCAL reduce(Max, x, y) == IF Max THEN Greatest(x, y) ELSE Least(x, y)

\* A disabled neighbour is masked to the value that changes nothing; an enabled
\* one is masked, too, and stays what it is.
MinMaxTraits(T, Max, stencil, w) ==
  LET masked(k) ==
        LET rhs == w[Neighbour[k]]
            enabled == k - 1 \in stencil
        IN CASE T = "byte" -> IF enabled THEN rhs ELSE IF Max THEN 0 ELSE UINT8_MAX
             [] T = "word" -> IF enabled THEN rhs ELSE IF Max THEN 0 ELSE UINT16_MAX
             [] T = "float" -> reduce(~Max, rhs, IF enabled = Max THEN INFINITY ELSE -INFINITY)
      val[k \in 0 .. 8] == IF k = 0 THEN w[a11] ELSE reduce(Max, val[k - 1], masked(k))
  IN val[8]

MinMaxByte(Max, p, w) ==
  limit_diff_epu8(Max, MinMaxTraits("byte", Max, p.stencil, w), w[a11],
                  Least(p.threshold, UINT8_MAX))
MinMaxWord(Max, p, w) ==
  limit_diff_epu16(Max, MinMaxTraits("word", Max, p.stencil, w), w[a11], p.threshold)
MinMaxFloat(Max, p, w) ==
  limit_diff_ps(Max, MinMaxTraits("float", Max, p.stencil, w), w[a11], p.thresholdf)

\* With a stencil known to the compiler, the other neighbours are left out.
MinMaxFixedTraits(Max, Stencil, w) ==
  LET val[k \in 0 .. 8] ==
        IF k = 0 THEN w[a11]
        ELSE IF k - 1 \in Stencil THEN reduce(Max, val[k - 1], w[Neighbour[k]]) ELSE val[k - 1]
  IN val[8]

MinMaxFixedByte(Stencil, Max, p, w) ==
  limit_diff_epu8(Max, MinMaxFixedTraits(Max, Stencil, w), w[a11], Least(p.threshold, UINT8_MAX))
MinMaxFixedWord(Stencil, Max, p, w) ==
  limit_diff_epu16(Max, MinMaxFixedTraits(Max, Stencil, w), w[a11], p.threshold)
MinMaxFixedFloat(Stencil, Max, p, w) ==
  limit_diff_ps(Max, MinMaxFixedTraits(Max, Stencil, w), w[a11], p.thresholdf)

\* Four stencils have filters of their own.
vs_generic_3x3_min_max(T, Max, p, a) ==
  LET fixed == p.stencil \in {STENCIL_H, STENCIL_V, STENCIL_PLUS, STENCIL_ALL}
      pixel(w) ==
        CASE T = "byte" -> IF fixed THEN MinMaxFixedByte(p.stencil, Max, p, w) ELSE MinMaxByte(Max, p, w)
          [] T = "word" -> IF fixed THEN MinMaxFixedWord(p.stencil, Max, p, w) ELSE MinMaxWord(Max, p, w)
          [] T = "float" ->
               IF fixed THEN MinMaxFixedFloat(p.stencil, Max, p, w) ELSE MinMaxFloat(Max, p, w)
  IN [i \in DOMAIN a[1] |-> pixel(Element(a, i))]

-----------------------------------------------------------------------------
\* The comparisons of which both results are used, and those of which one is:
\* <<"max", i, j>> keeps the greater at j, <<"min", i, j>> the lesser at i.
MedianNetwork ==
  << <<"both", 1, 2>>, <<"both", 3, 4>>, <<"both", 6, 7>>, <<"both", 8, 9>>,
     <<"both", 1, 3>>, <<"both", 2, 4>>, <<"both", 6, 8>>, <<"both", 7, 9>>,
     <<"both", 2, 3>>, <<"both", 7, 8>>,
     <<"max", 1, 6>>, <<"max", 2, 7>>, <<"min", 3, 8>>, <<"min", 4, 9>>,
     <<"max", 3, 6>>, <<"min", 4, 7>>,
     <<"both", 4, 6>>,
     <<"max", 4, 5>>, <<"min", 5, 6>> >>

MedianTraits(w) ==
  LET after[k \in 0 .. Len(MedianNetwork)] ==
        IF k = 0 THEN w
        ELSE LET v == after[k - 1]
                 c == MedianNetwork[k]
             IN [v EXCEPT ![c[2]] = IF c[1] = "max" THEN @ ELSE Least(@, v[c[3]]),
                          ![c[3]] = IF c[1] = "min" THEN @ ELSE Greatest(v[c[2]], @)]
  IN after[Len(MedianNetwork)][a11]

MedianByte(w) == MedianTraits(w)
MedianWord(w) == MedianTraits(w)
MedianFloat(w) == MedianTraits(w)

-----------------------------------------------------------------------------
LOCAL Around(w) == w[1] + w[2] + w[3] + w[4] + w[6] + w[7] + w[8] + w[9]

DeflateInflateByte(Inflate, p, a) ==
  LET accum(h) == [i \in DOMAIN h[1] |-> U16(Around(Element(h, i)) + 4) \div 8]
      mean == packus_epi16(accum(Lo(a, 16)), accum(Hi(a, 16)))
      threshold == Least(p.threshold, UINT8_MAX)
  IN [i \in DOMAIN mean |->
       LET orig == a[a11][i]
       IN IF Inflate
            THEN Least(Greatest(mean[i], orig), adds_epu(UINT8_MAX, orig, threshold))
            ELSE Greatest(Least(mean[i], orig), subs_epu(orig, threshold))]

DeflateInflateWord(Inflate, p, a) ==
  LET accum(h) == [i \in DOMAIN h[1] |-> (Around(Element(h, i)) + 4) \div 8]
      mean == packus_epi32(accum(Lo(a, 8)), accum(Hi(a, 8)))
  IN [i \in DOMAIN mean |->
       LET orig == a[a11][i]
       IN limit_diff_epu16(Inflate, reduce(Inflate, mean[i], orig), orig, p.threshold)]

DeflateInflateFloat(Inflate, p, a) ==
  [i \in DOMAIN a[1] |->
    LET w == Element(a, i)
        accum0 == w[1] + w[2] + w[6] + w[8]
        accum1 == w[3] + w[4] + w[7] + w[9]
        tmp == reduce(Inflate, (accum0 + accum1) \div 8, w[a11])
    IN limit_diff_ps(Inflate, tmp, w[a11], p.thresholdf)]

-----------------------------------------------------------------------------
\* Times div, plus bias, and without its sign unless the result may saturate.
ConvolutionTraits(p, accum) ==
  LET tmp == accum * p.div[1] + p.bias * p.div[2]
  IN Nearest(IF p.saturate THEN tmp ELSE Magnitude(tmp), p.div[2])

\* The pixels are taken in pairs, with their weights; the last has a tenth weight.
LOCAL Weights(p, tenth) ==
  << <<p.matrix[1], p.matrix[2]>>, <<p.matrix[3], p.matrix[4]>>, <<p.matrix[5], p.matrix[6]>>,
     <<p.matrix[7], p.matrix[8]>>, <<p.matrix[9], tenth>> >>
LOCAL Pairs(h, tenth) ==
  <<Zip(h[1], h[2]), Zip(h[3], h[4]), Zip(h[5], h[6]), Zip(h[7], h[8]), Zip(h[9], tenth)>>

\* The sum of the five products of a pair with its weights.
ConvolutionIntTraits(c, pair, i) ==
  madd(c[1], pair[1][i]) + madd(c[2], pair[2][i]) + madd(c[3], pair[3][i])
  + madd(c[4], pair[4][i]) + madd(c[5], pair[5][i])

ConvolutionByte(p, a) ==
  LET c == Weights(p, 0)
      accum(pair) == [i \in DOMAIN pair[1] |->
                       ConvolutionTraits(p, ConvolutionIntTraits(c, pair, i))]
      half(h) == LET pair == Pairs(h, set1(Len(h[1]), 0))
                 IN packs_epi32(accum(Lo(pair, 8)), accum(Hi(pair, 8)))
  IN packus_epi16(half(Lo(a, 16)), half(Hi(a, 16)))

\* In the signed domain the sum lacks 32768 times the sum of the weights: the
\* tenth weight is that sum, negated, and meets INT16_MIN.
ConvolutionWord(p, a) ==
  LET sum[k \in 0 .. 9] == IF k = 0 THEN 0 ELSE sum[k - 1] + p.matrix[k]
      c == Weights(p, S16(-sum[9]))
      signed == [k \in 1 .. 9 |-> [i \in DOMAIN a[k] |-> S16(a[k][i] + INT16_MIN)]]
      pair == Pairs(signed, set1(Len(a[1]), INT16_MIN))
      accum(q) == [i \in DOMAIN q[1] |->
                    ConvolutionTraits(p, ConvolutionIntTraits(c, q, i))]
      tmp == packus_epi32(accum(Lo(pair, 8)), accum(Hi(pair, 8)))
  IN [i \in DOMAIN tmp |-> Least(tmp[i], p.maxval)]

\* The weights are multiplied by div beforehand.
ConvolutionFloat(p, a) ==
  [i \in DOMAIN a[1] |->
    LET w == Element(a, i)
        c(k) == p.matrixf[k] * p.div[1]
        accum0 == c(1) * w[1] + c(3) * w[3] + c(5) * w[5] + c(7) * w[7] + c(9) * w[9]
        accum1 == c(2) * w[2] + c(4) * w[4] + c(6) * w[6] + c(8) * w[8] + p.bias
    IN IF p.saturate THEN accum0 + accum1 ELSE Magnitude(accum0 + accum1)]

-----------------------------------------------------------------------------
\* A register of pixels from nine registers.
op(kernel, T, p, a) ==
  CASE kernel \in {"prewitt", "sobel"} ->
         LET Sobel == kernel = "sobel"
         IN (CASE T = "byte" -> PrewittSobelByte(Sobel, p, a)
               [] T = "word" -> PrewittSobelWord(Sobel, p, a)
               [] T = "float" -> PrewittSobelFloat(Sobel, p, a))
    [] kernel \in {"min", "max"} -> vs_generic_3x3_min_max(T, kernel = "max", p, a)
    [] kernel = "median" ->
         [i \in DOMAIN a[1] |-> CASE T = "byte" -> MedianByte(Element(a, i))
                                  [] T = "word" -> MedianWord(Element(a, i))
                                  [] T = "float" -> MedianFloat(Element(a, i))]
    [] kernel \in {"deflate", "inflate"} ->
         LET Inflate == kernel = "inflate"
         IN (CASE T = "byte" -> DeflateInflateByte(Inflate, p, a)
               [] T = "word" -> DeflateInflateWord(Inflate, p, a)
               [] T = "float" -> DeflateInflateFloat(Inflate, p, a))
    [] kernel = "conv" ->
         CASE T = "byte" -> ConvolutionByte(p, a)
           [] T = "word" -> ConvolutionWord(p, a)
           [] T = "float" -> ConvolutionFloat(p, a)

\* Row i of the destination.  The first register has no left neighbour in the row;
\* the last, which may be the first, has a mirrored right one; the others lie inside.
filter_plane_3x3(kernel, T, p, src, width, height, i) ==
  LET N == vec_len(T)
      vec_end == ((width - 1) \div N) * N
      above_idx == IF i = 0 THEN Least(1, height - 1) ELSE i - 1
      below_idx == IF i = height - 1 THEN height - Least(2, height) ELSE i + 1
      first(srcp) ==
        LET x == loadu(srcp, 0, N)
        IN <<shl_insert_lo(x, srcp[Least(1, width - 1) + 1]), x,
             IF width > N THEN loadu(srcp, 1, N)
             ELSE shr_insert(x, srcp[width - Least(2, width) + 1], width - 1)>>
      inner(srcp, j) == <<loadu(srcp, j - 1, N), loadu(srcp, j, N), loadu(srcp, j + 1, N)>>
      last(srcp) ==
        LET x == loadu(srcp, vec_end, N)
        IN <<loadu(srcp, vec_end - 1, N), x, shr_insert(x, srcp[width - 1], width - vec_end - 1)>>
      columns(srcp, j) ==
        IF j = 0 THEN first(srcp) ELSE IF j < vec_end THEN inner(srcp, j) ELSE last(srcp)
      val == [b \in 0 .. vec_end \div N |->
               op(kernel, T, p,
                  columns(src[above_idx], b * N) \o columns(src[i], b * N)
                  \o columns(src[below_idx], b * N))]
  IN [j \in 0 .. width - 1 |-> val[j \div N][(j % N) + 1]]

vs_generic_avx2(kernel, T, p, src, width, height, i) ==
  filter_plane_3x3(kernel, T, p, src, width, height, i)
=============================================================================
