--------------------------- MODULE MergeKernels ----------------------------
(***************************************************************************)
(* The kernels of mergefilters.c: kernel/merge.c, pixel by pixel, and      *)
(* kernel/x86/merge_sse2.c and merge_avx2.c, register by register. src1,   *)
(* src2 and mask are rows; n is the number of pixels. A float's weight, or *)
(* mask, is a number of parts of ONE, and what comes out of a kernel that  *)
(* multiplies with it is also in parts of ONE.                             *)
(***************************************************************************)
LOCAL INSTANCE Integers
LOCAL INSTANCE Vectors
LOCAL INSTANCE Sequences

-----------------------------------------------------------------------------
(* merge.c, and the divisors of merge.h                                    *)

MERGESHIFT == 15
ROUND == 2 ^ (MERGESHIFT - 1)
ONE == 2 ^ MERGESHIFT

\* For 9 bits to 16: the magic divisor, in two halves, and what is shifted besides.
div_table ==
  [depth \in 9 .. 16 |->
    <<<<32832, 8209>>, <<32800, 2051>>, <<32784, 513>>, <<32776, 129>>, <<32772, 33>>,
      <<32770, 9>>, <<32769, 3>>, <<32768, 32769>>>>[depth - 8]]
shift_table == [depth \in 9 .. 16 |-> depth - 1]

\* The division by 2^depth - 1.
divX(x, depth) == mulhi_epu32(x, div_table[depth]) \div 2 ^ shift_table[depth]

LOCAL Cut(T, x) == x % (Top(T) + 1)

vs_merge_c(T, src1, src2, weight, n) ==
  [x \in 0 .. n - 1 |->
    LET v1 == src1[x + 1]
        v2 == src2[x + 1]
    IN IF IsFloat(T) THEN v1 * ONE + (v2 - v1) * weight
       ELSE Cut(T, v1 + (((v2 - v1) * weight + ROUND) \div 2 ^ MERGESHIFT))]

vs_mask_merge_c(T, src1, src2, mask, depth, offset, n) ==
  [x \in 0 .. n - 1 |->
    LET v1 == src1[x + 1]
        v2 == src2[x + 1]
        m == mask[x + 1]
        maxval == 2 ^ depth - 1
    IN CASE T = "byte" -> U16((UINT8_MAX - m) * v1 + m * v2 + UINT8_MAX \div 2) \div 255
         [] T = "word" -> divX(U16(maxval - m) * v1 + m * v2 + maxval \div 2, depth)
         [] T = "float" -> v1 * ONE + (v2 - v1) * m]

\* The difference from the offset is scaled without its sign; the sum is cut to
\* the width of a pixel.
vs_mask_merge_premul_c(T, src1, src2, mask, depth, offset, n) ==
  [x \in 0 .. n - 1 |->
    LET v1 == src1[x + 1]
        v2 == src2[x + 1]
        m == mask[x + 1]
        maxval == 2 ^ depth - 1
        size == Magnitude(v1 - offset)
        part == IF T = "byte" THEN U16(size * (UINT8_MAX - m) + UINT8_MAX \div 2) \div 255
                ELSE divX(size * U16(maxval - m) + maxval \div 2, depth)
    IN IF IsFloat(T) THEN (ONE - m) * v1 + v2 * ONE
       ELSE Cut(T, (IF v1 - offset < 0 THEN -part ELSE part) + v2)]

vs_makediff_c(T, src1, src2, depth, n) ==
  [x \in 0 .. n - 1 |->
    LET tmp == src1[x + 1] - src2[x + 1]
    IN IF IsFloat(T) THEN tmp ELSE Clamp(0, 2 ^ depth - 1, tmp + 2 ^ (depth - 1))]

vs_mergediff_c(T, src1, src2, depth, n) ==
  [x \in 0 .. n - 1 |->
    LET tmp == src1[x + 1] + src2[x + 1]
    IN IF IsFloat(T) THEN tmp ELSE Clamp(0, 2 ^ depth - 1, tmp - 2 ^ (depth - 1))]

-----------------------------------------------------------------------------
(* merge_sse2.c                                                            *)

LOCAL Added(x, c) == [i \in DOMAIN x |-> S16(x[i] + c)]
LOCAL Unsigned(x) == [i \in DOMAIN x |-> U16(x[i])]

\* merge

vs_merge_byte_sse2(src1, src2, weight, n) ==
  LET w == S16(weight)
      half(v1, v2) ==
        [i \in DOMAIN v1 |->
          LET tmp1 == 2 * (v2[i] - v1[i])
          IN S16(mulhi(tmp1, w) + U16(tmp1 * w) \div 32768 + v1[i])]
  IN Stored([i \in Starts(n, 16) |->
              LET v1b == loadu(src1, i, 16)
                  v2b == loadu(src2, i, 16)
              IN packus_epi16(half(UnpackLo(v1b, 16), UnpackLo(v2b, 16)),
                              half(UnpackHi(v1b, 16), UnpackHi(v2b, 16)))], n, 16)

\* The weights are signed: neither may be as large as 2^15.
vs_merge_word_sse2(src1, src2, weight, n) ==
  LET w2 == Clamp(1, 2 ^ MERGESHIFT - 1, weight)
      w1 == 2 ^ MERGESHIFT - w2
      sums(v) == [i \in DOMAIN v |-> (madd(<<w1, w2>>, v[i]) + ROUND) \div 2 ^ MERGESHIFT]
  IN Stored([i \in Starts(n, 8) |->
              LET v == Zip(Added(loadu(src1, i, 8), INT16_MIN), Added(loadu(src2, i, 8), INT16_MIN))
              IN Unsigned(Added(packs_epi32(sums(UnpackLo(v, 8)), sums(UnpackHi(v, 8))), -INT16_MIN))],
            n, 8)

vs_merge_float_sse2(src1, src2, weight, n) ==
  Stored([i \in Starts(n, 4) |->
           LET v1 == loadu(src1, i, 4)
               v2 == loadu(src2, i, 4)
           IN [k \in 1 .. 4 |-> (ONE - weight) * v1[k] + weight * v2[k]]], n, 4)

\* mask_merge

div255_epu16(x) == [i \in DOMAIN x |-> div255(x[i])]
divX_epu32(x, depth) == [i \in DOMAIN x |-> divX(x[i], depth)]

\* Sums of 32 bits, divided, that become 16 bits by way of the signed ones.
LOCAL Divided(sums, depth) ==
  LET half(x) == LET q == divX_epu32(x, depth) IN [i \in DOMAIN q |-> q[i] + INT16_MIN]
  IN Unsigned(Added(packs_epi32(half(UnpackLo(sums, 8)), half(UnpackHi(sums, 8))), -INT16_MIN))

vs_mask_merge_byte_sse2(src1, src2, mask, depth, offset, n) ==
  Stored([i \in Starts(n, 8) |->
           LET v1 == loadu(src1, i, 8)
               v2 == loadu(src2, i, 8)
               w2 == loadu(mask, i, 8)
               tmp == div255_epu16([k \in 1 .. 8 |->
                        U16(v1[k] * (UINT8_MAX - w2[k]) + v2[k] * w2[k] + UINT8_MAX \div 2)])
           IN LowHalf(packus_epi16(tmp, tmp))], n, 8)

vs_mask_merge_word_sse2(src1, src2, mask, depth, offset, n) ==
  LET maxval == 2 ^ depth - 1
  IN Stored([i \in Starts(n, 8) |->
              LET v1 == loadu(src1, i, 8)
                  v2 == loadu(src2, i, 8)
                  w2 == loadu(mask, i, 8)
              IN Divided([k \in 1 .. 8 |->
                           U16(maxval - w2[k]) * v1[k] + w2[k] * v2[k] + maxval \div 2], depth)],
            n, 8)

vs_mask_merge_float_sse2(src1, src2, mask, depth, offset, n) ==
  Stored([i \in Starts(n, 4) |->
           LET v1 == loadu(src1, i, 4)
               v2 == loadu(src2, i, 4)
               w2 == loadu(mask, i, 4)
           IN [k \in 1 .. 4 |-> v1[k] * ONE + (v2[k] - v1[k]) * w2[k]]], n, 4)

\* mask_merge_premul

LOCAL Signed(sign, x) == [i \in DOMAIN x |-> IF sign[i] THEN S16(-x[i]) ELSE S16(x[i])]

vs_mask_merge_premul_byte_sse2(src1, src2, mask, depth, offset, n) ==
  Stored([i \in Starts(n, 8) |->
           LET v1 == loadu(src1, i, 8)
               v2 == loadu(src2, i, 8)
               w2 == loadu(mask, i, 8)
               diff == Added(v1, -offset)
               sign == [k \in 1 .. 8 |-> diff[k] < 0]
               size == Signed(sign, diff)
               part == div255_epu16([k \in 1 .. 8 |->
                         U16(size[k] * (UINT8_MAX - w2[k]) + UINT8_MAX \div 2)])
               back == Signed(sign, part)
               tmp == [k \in 1 .. 8 |-> S16(back[k] + v2[k])]
           IN LowHalf(packus_epi16(tmp, tmp))], n, 8)

vs_mask_merge_premul_word_sse2(src1, src2, mask, depth, offset, n) ==
  LET maxval == 2 ^ depth - 1
  IN Stored([i \in Starts(n, 8) |->
              LET v1 == loadu(src1, i, 8)
                  v2 == loadu(src2, i, 8)
                  w2 == loadu(mask, i, 8)
                  sign == [k \in 1 .. 8 |-> S16(v1[k] + INT16_MIN) < S16(offset + INT16_MIN)]
                  size == Unsigned(Signed(sign, Added(v1, -offset)))
                  part == Divided([k \in 1 .. 8 |->
                            U16(maxval - w2[k]) * size[k] + maxval \div 2], depth)
                  back == Signed(sign, part)
              IN [k \in 1 .. 8 |-> U16(back[k] + v2[k])]], n, 8)

vs_mask_merge_premul_float_sse2(src1, src2, mask, depth, offset, n) ==
  Stored([i \in Starts(n, 4) |->
           LET v1 == loadu(src1, i, 4)
               v2 == loadu(src2, i, 4)
               w2 == loadu(mask, i, 4)
           IN [k \in 1 .. 4 |-> (ONE - w2[k]) * v1[k] + v2[k] * ONE]], n, 4)

-----------------------------------------------------------------------------
(* makediff and mergediff: the pixels are moved to the signed domain, where the *)
(* instructions saturate.                                                        *)

vs_makediff_sse2(T, src1, src2, depth, n) ==
  LET N == CASE T = "byte" -> 16 [] T = "word" -> 8 [] T = "float" -> 4
      bits == IF T = "byte" THEN 8 ELSE 16
      minval == -(2 ^ ((IF T = "byte" THEN 8 ELSE depth) - 1))
      diff(v1, v2) == Clamp(minval, -minval - 1, subs_epi(bits, S16(v1 + minval), S16(v2 + minval)))
  IN Stored([i \in Starts(n, N) |->
              LET v1 == loadu(src1, i, N)
                  v2 == loadu(src2, i, N)
              IN [k \in 1 .. N |-> IF IsFloat(T) THEN v1[k] - v2[k] ELSE diff(v1[k], v2[k]) - minval]],
            n, N)

vs_mergediff_sse2(T, src1, src2, depth, n) ==
  LET N == CASE T = "byte" -> 16 [] T = "word" -> 8 [] T = "float" -> 4
      bits == IF T = "byte" THEN 8 ELSE 16
      minval == -(2 ^ ((IF T = "byte" THEN 8 ELSE depth) - 1))
      tmp(v1, v2) == Clamp(minval, -minval - 1, adds_epi(bits, S16(v1 + minval), S16(v2 + minval)))
  IN Stored([i \in Starts(n, N) |->
              LET v1 == loadu(src1, i, N)
                  v2 == loadu(src2, i, N)
              IN [k \in 1 .. N |-> IF IsFloat(T) THEN v1[k] + v2[k] ELSE tmp(v1[k], v2[k]) - minval]],
            n, N)

-----------------------------------------------------------------------------
vs_merge_sse2(T, src1, src2, weight, n) ==
  CASE T = "byte" -> vs_merge_byte_sse2(src1, src2, weight, n)
    [] T = "word" -> vs_merge_word_sse2(src1, src2, weight, n)
    [] T = "float" -> vs_merge_float_sse2(src1, src2, weight, n)
vs_mask_merge_sse2(T, src1, src2, mask, depth, offset, n) ==
  CASE T = "byte" -> vs_mask_merge_byte_sse2(src1, src2, mask, depth, offset, n)
    [] T = "word" -> vs_mask_merge_word_sse2(src1, src2, mask, depth, offset, n)
    [] T = "float" -> vs_mask_merge_float_sse2(src1, src2, mask, depth, offset, n)
vs_mask_merge_premul_sse2(T, src1, src2, mask, depth, offset, n) ==
  CASE T = "byte" -> vs_mask_merge_premul_byte_sse2(src1, src2, mask, depth, offset, n)
    [] T = "word" -> vs_mask_merge_premul_word_sse2(src1, src2, mask, depth, offset, n)
    [] T = "float" -> vs_mask_merge_premul_float_sse2(src1, src2, mask, depth, offset, n)

-----------------------------------------------------------------------------
(* merge_avx2.c                                                            *)


\* Sixteen words into sixteen bytes: the pack leaves them in the first and the
\* third quarter, and the permutation brings them together.
LOCAL Bytes(x) == LowHalf(permute4x64(packus_epi16(x, x), <<0, 2, 1, 3>>))

\* merge

vs_merge_byte_avx2(src1, src2, weight, n) ==
  LET w == S16(weight)
      tmp2(v1, v2) ==
        [k \in 1 .. 16 |->
          LET tmp1 == 2 * (v2[k] - v1[k])
          IN S16(mulhi(tmp1, w) + U16(tmp1 * w) \div 32768 + v1[k])]
  IN Stored([i \in Starts(n, 16) |-> Bytes(tmp2(loadu(src1, i, 16), loadu(src2, i, 16)))], n, 16)

vs_merge_word_avx2(src1, src2, weight, n) ==
  LET w2 == Clamp(1, 2 ^ MERGESHIFT - 1, weight)
      w1 == 2 ^ MERGESHIFT - w2
      sums(v) == [i \in DOMAIN v |-> (madd(<<w1, w2>>, v[i]) + ROUND) \div 2 ^ MERGESHIFT]
  IN Stored([i \in Starts(n, 16) |->
              LET v == Zip(Added(loadu(src1, i, 16), INT16_MIN), Added(loadu(src2, i, 16), INT16_MIN))
              IN Unsigned(Added(packs_epi32(sums(UnpackLo(v, 8)), sums(UnpackHi(v, 8))), -INT16_MIN))],
            n, 16)

vs_merge_float_avx2(src1, src2, weight, n) ==
  Stored([i \in Starts(n, 8) |->
           LET v1 == loadu(src1, i, 8)
               v2 == loadu(src2, i, 8)
           IN [k \in 1 .. 8 |-> (ONE - weight) * v1[k] + weight * v2[k]]], n, 8)

\* mask_merge

\* Sums of 32 bits, divided, that become 16 bits without a sign.
LOCAL DividedUnsigned(sums, depth) ==
  packus_epi32(divX_epu32(UnpackLo(sums, 8), depth), divX_epu32(UnpackHi(sums, 8), depth))

vs_mask_merge_byte_avx2(src1, src2, mask, depth, offset, n) ==
  Stored([i \in Starts(n, 16) |->
           LET v1 == loadu(src1, i, 16)
               v2 == loadu(src2, i, 16)
               w2 == loadu(mask, i, 16)
           IN Bytes(div255_epu16([k \in 1 .. 16 |->
                U16(v1[k] * (UINT8_MAX - w2[k]) + v2[k] * w2[k] + UINT8_MAX \div 2)]))], n, 16)

vs_mask_merge_word_avx2(src1, src2, mask, depth, offset, n) ==
  LET maxval == 2 ^ depth - 1
  IN Stored([i \in Starts(n, 16) |->
              LET v1 == loadu(src1, i, 16)
                  v2 == loadu(src2, i, 16)
                  w2 == loadu(mask, i, 16)
              IN DividedUnsigned([k \in 1 .. 16 |->
                           U16(maxval - w2[k]) * v1[k] + w2[k] * v2[k] + maxval \div 2], depth)],
            n, 16)

vs_mask_merge_float_avx2(src1, src2, mask, depth, offset, n) ==
  Stored([i \in Starts(n, 8) |->
           LET v1 == loadu(src1, i, 8)
               v2 == loadu(src2, i, 8)
               w2 == loadu(mask, i, 8)
           IN [k \in 1 .. 8 |-> v1[k] * ONE + (v2[k] - v1[k]) * w2[k]]], n, 8)

\* mask_merge_premul

vs_mask_merge_premul_byte_avx2(src1, src2, mask, depth, offset, n) ==
  Stored([i \in Starts(n, 16) |->
           LET v1 == loadu(src1, i, 16)
               v2 == loadu(src2, i, 16)
               w2 == loadu(mask, i, 16)
               diff == Added(v1, -offset)
               sign == [k \in 1 .. 16 |-> 0 > diff[k]]
               size == Signed(sign, diff)
               part == div255_epu16([k \in 1 .. 16 |->
                         U16(size[k] * (UINT8_MAX - w2[k]) + UINT8_MAX \div 2)])
               back == Signed(sign, part)
           IN Bytes([k \in 1 .. 16 |-> S16(back[k] + v2[k])])], n, 16)

vs_mask_merge_premul_word_avx2(src1, src2, mask, depth, offset, n) ==
  LET maxval == 2 ^ depth - 1
  IN Stored([i \in Starts(n, 16) |->
              LET v1 == loadu(src1, i, 16)
                  v2 == loadu(src2, i, 16)
                  w2 == loadu(mask, i, 16)
                  sign == [k \in 1 .. 16 |-> S16(offset + INT16_MIN) > S16(v1[k] + INT16_MIN)]
                  size == Unsigned(Signed(sign, Added(v1, -offset)))
                  part == DividedUnsigned([k \in 1 .. 16 |->
                            U16(maxval - w2[k]) * size[k] + maxval \div 2], depth)
                  back == Signed(sign, part)
              IN [k \in 1 .. 16 |-> U16(back[k] + v2[k])]], n, 16)

\* The other kernels weigh v1 with w1; this one weighs v2.
vs_mask_merge_premul_float_avx2(src1, src2, mask, depth, offset, n) ==
  Stored([i \in Starts(n, 8) |->
           LET v1 == loadu(src1, i, 8)
               v2 == loadu(src2, i, 8)
               w2 == loadu(mask, i, 8)
           IN [k \in 1 .. 8 |-> v2[k] * (ONE - w2[k]) + v1[k] * ONE]], n, 8)

-----------------------------------------------------------------------------
(* makediff and mergediff *)

vs_makediff_avx2(T, src1, src2, depth, n) ==
  LET N == CASE T = "byte" -> 32 [] T = "word" -> 16 [] T = "float" -> 8
      bits == IF T = "byte" THEN 8 ELSE 16
      minval == -(2 ^ ((IF T = "byte" THEN 8 ELSE depth) - 1))
      diff(v1, v2) == Clamp(minval, -minval - 1, subs_epi(bits, S16(v1 + minval), S16(v2 + minval)))
  IN Stored([i \in Starts(n, N) |->
              LET v1 == loadu(src1, i, N)
                  v2 == loadu(src2, i, N)
              IN [k \in 1 .. N |-> IF IsFloat(T) THEN v1[k] - v2[k] ELSE diff(v1[k], v2[k]) - minval]],
            n, N)

vs_mergediff_avx2(T, src1, src2, depth, n) ==
  LET N == CASE T = "byte" -> 32 [] T = "word" -> 16 [] T = "float" -> 8
      bits == IF T = "byte" THEN 8 ELSE 16
      minval == -(2 ^ ((IF T = "byte" THEN 8 ELSE depth) - 1))
      tmp(v1, v2) == Clamp(minval, -minval - 1, adds_epi(bits, S16(v1 + minval), S16(v2 + minval)))
  IN Stored([i \in Starts(n, N) |->
              LET v1 == loadu(src1, i, N)
                  v2 == loadu(src2, i, N)
              IN [k \in 1 .. N |-> IF IsFloat(T) THEN v1[k] + v2[k] ELSE tmp(v1[k], v2[k]) - minval]],
            n, N)

-----------------------------------------------------------------------------
vs_merge_avx2(T, src1, src2, weight, n) ==
  CASE T = "byte" -> vs_merge_byte_avx2(src1, src2, weight, n)
    [] T = "word" -> vs_merge_word_avx2(src1, src2, weight, n)
    [] T = "float" -> vs_merge_float_avx2(src1, src2, weight, n)
vs_mask_merge_avx2(T, src1, src2, mask, depth, offset, n) ==
  CASE T = "byte" -> vs_mask_merge_byte_avx2(src1, src2, mask, depth, offset, n)
    [] T = "word" -> vs_mask_merge_word_avx2(src1, src2, mask, depth, offset, n)
    [] T = "float" -> vs_mask_merge_float_avx2(src1, src2, mask, depth, offset, n)
vs_mask_merge_premul_avx2(T, src1, src2, mask, depth, offset, n) ==
  CASE T = "byte" -> vs_mask_merge_premul_byte_avx2(src1, src2, mask, depth, offset, n)
    [] T = "word" -> vs_mask_merge_premul_word_avx2(src1, src2, mask, depth, offset, n)
    [] T = "float" -> vs_mask_merge_premul_float_avx2(src1, src2, mask, depth, offset, n)

-----------------------------------------------------------------------------
(* What the filters of mergefilters.c do to a row of a plane.  args says   *)
(* which filter, the type and the bits of a pixel, whether the range is    *)
(* limited, whether the plane is a chroma plane of YUV, and the weight     *)
(* that the caller of Merge gave, in parts of ONE.                         *)

getLimitedRangeOffset(limited, bits) == IF limited THEN 16 * 2 ^ (bits - 8) ELSE 0

\* Merge keeps the weight below 2^15, where the second plane would be copied.
mergeWeight(args) ==
  IF IsFloat(args.T) THEN args.weight ELSE Least(args.weight, 2 ^ MERGESHIFT - 1)
mergeProcess(args) ==
  LET weight == mergeWeight(args)
  IN IF weight = 0 THEN 1 ELSE IF weight = ONE THEN 2 ELSE 0

LOCAL Copied(T, src, n) == [x \in 0 .. n - 1 |-> IF IsFloat(T) THEN src[x + 1] * ONE ELSE src[x + 1]]

mergeRow(args, cpu, src1, src2, n) ==
  LET weight == mergeWeight(args)
      process == mergeProcess(args)
  IN CASE process = 1 -> Copied(args.T, src1, n)
       [] process = 2 -> Copied(args.T, src2, n)
       [] process = 0 /\ cpu = "avx2" -> vs_merge_avx2(args.T, src1, src2, weight, n)
       [] process = 0 /\ cpu = "sse2" -> vs_merge_sse2(args.T, src1, src2, weight, n)
       [] process = 0 /\ cpu = "c" -> vs_merge_c(args.T, src1, src2, weight, n)

maskedMergeRow(args, cpu, src1, src2, mask, n) ==
  LET T == args.T
      offset == IF args.yuvhandling THEN 2 ^ (args.bits - 1)
                ELSE getLimitedRangeOffset(args.limited, args.bits)
  IN CASE cpu = "avx2" /\ args.premultiplied ->
            vs_mask_merge_premul_avx2(T, src1, src2, mask, args.bits, offset, n)
       [] cpu = "avx2" /\ ~args.premultiplied ->
            vs_mask_merge_avx2(T, src1, src2, mask, args.bits, offset, n)
       [] cpu = "sse2" /\ args.premultiplied ->
            vs_mask_merge_premul_sse2(T, src1, src2, mask, args.bits, offset, n)
       [] cpu = "sse2" /\ ~args.premultiplied ->
            vs_mask_merge_sse2(T, src1, src2, mask, args.bits, offset, n)
       [] cpu = "c" /\ args.premultiplied ->
            vs_mask_merge_premul_c(T, src1, src2, mask, args.bits, offset, n)
       [] cpu = "c" /\ ~args.premultiplied ->
            vs_mask_merge_c(T, src1, src2, mask, args.bits, offset, n)

makeDiffRow(args, cpu, src1, src2, n) ==
  CASE cpu = "avx2" -> vs_makediff_avx2(args.T, src1, src2, args.bits, n)
    [] cpu = "sse2" -> vs_makediff_sse2(args.T, src1, src2, args.bits, n)
    [] cpu = "c" -> vs_makediff_c(args.T, src1, src2, args.bits, n)

mergeDiffRow(args, cpu, src1, src2, n) ==
  CASE cpu = "avx2" -> vs_mergediff_avx2(args.T, src1, src2, args.bits, n)
    [] cpu = "sse2" -> vs_mergediff_sse2(args.T, src1, src2, args.bits, n)
    [] cpu = "c" -> vs_mergediff_c(args.T, src1, src2, args.bits, n)

\* An alpha gets its second bit once more, so that the largest becomes a power of two.
preMultiplyRow(args, src1, alpha, n) ==
  [x \in 0 .. n - 1 |->
    LET half == 2 ^ (args.bits - 1)
        offset == getLimitedRangeOffset(args.limited, args.bits)
        s1 == src1[x + 1]
        s2 == IF args.T = "word" /\ args.yuvhandling THEN Least(alpha[x + 1], 2 ^ args.bits - 1)
              ELSE alpha[x + 1]
        whole == ((s2 \div 2) % 2) + s2
    IN IF IsFloat(args.T) THEN s1 * s2
       ELSE (IF args.yuvhandling THEN ((s1 - half) * whole) \div 2 ^ args.bits + half
             ELSE ((s1 - offset) * whole + half) \div 2 ^ args.bits + offset) % (Top(args.T) + 1)]

blendRow(args, cpu, src1, src2, mask, n) ==
  CASE args.op = "Merge" -> mergeRow(args, cpu, src1, src2, n)
    [] args.op = "MaskedMerge" -> maskedMergeRow(args, cpu, src1, src2, mask, n)
    [] args.op = "MakeDiff" -> makeDiffRow(args, cpu, src1, src2, n)
    [] args.op = "MergeDiff" -> mergeDiffRow(args, cpu, src1, src2, n)
    [] args.op = "PreMultiply" -> preMultiplyRow(args, src1, mask, n)
=============================================================================
