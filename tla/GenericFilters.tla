-------------------------- MODULE GenericFilters ---------------------------
(***************************************************************************)
(* The filters of genericfilters.cpp and lutfilters.cpp that make a pixel  *)
(* of the pixel at the same place and, some of them, of its neighbours.    *)
(***************************************************************************)
LOCAL INSTANCE Integers
LOCAL INSTANCE Sequences
LOCAL INSTANCE Vectors
LOCAL INSTANCE Functions

-----------------------------------------------------------------------------
(* kernel/generic.cpp: the filters that look at the neighbours of a pixel, *)
(* in C.  A plane is a function from its rows, and a row the sequence of   *)
(* its pixels and of the padding up to the stride.  A window is the        *)
(* sequence a00, a01, a02, a10, ..., a22; p is the record                  *)
(* vs_generic_params, with the stencil as a set of bits and div as a       *)
(* numerator and a denominator.                                            *)

a11 == 5
\* The neighbours, in the order of the bits of the stencil.
Neighbour == <<1, 2, 3, 4, 6, 7, 8, 9>>

limit(T, x, maxval) == IF IsFloat(T) THEN x ELSE Least(x, maxval)

\* n / d, clamped to the range of T and then rounded.
xrint(T, n, d) == IF IsFloat(T) THEN n \div d ELSE Nearest(Clamp(0, Top(T) * d, n), d)

\* A float holds the whole threshold, a byte the low bits of it.
Threshold(T, p) ==
  IF IsFloat(T) THEN p.thresholdf ELSE IF T = "byte" THEN U8(p.threshold) ELSE p.threshold
LowerLimit(T, x, p) ==
  Greatest(x - Threshold(T, p), IF IsFloat(T) THEN -INFINITY ELSE 0)

-----------------------------------------------------------------------------
PrewittSobelOp(T, Sobel, p, w) ==
  LET two == IF Sobel THEN 2 ELSE 1
      gx == w[7] + two * w[8] + w[9] - w[1] - two * w[2] - w[3]
      gy == w[3] + two * w[6] + w[9] - w[1] - two * w[4] - w[7]
  IN xrint(T, Root(gx * gx + gy * gy) * p.scale, 1)

MinMaxOp(T, Max, p, w) ==
  LET reduce(x, y) == IF Max THEN Greatest(x, y) ELSE Least(x, y)
      val[k \in 0 .. 8] ==
        IF k = 0 THEN w[a11]
        ELSE reduce(val[k - 1], IF k - 1 \in p.stencil THEN w[Neighbour[k]] ELSE val[k - 1])
  IN IF Max THEN Least(val[8], w[a11] + Threshold(T, p))
            ELSE Greatest(val[8], LowerLimit(T, w[a11], p))

\* The comparisons of a sorting network, as pairs of places in the window.
MedianNetwork ==
  << <<1, 2>>, <<3, 4>>, <<6, 7>>, <<8, 9>>,
     <<1, 3>>, <<2, 4>>, <<6, 8>>, <<7, 9>>,
     <<2, 3>>, <<7, 8>>,
     <<1, 6>>, <<2, 7>>, <<3, 8>>, <<4, 9>>,
     <<3, 6>>, <<4, 7>>,
     <<4, 6>>,
     <<4, 5>>, <<5, 6>> >>
compare_exchange(w, i, j) ==
  [w EXCEPT ![i] = Least(w[i], w[j]), ![j] = Greatest(w[i], w[j])]
MedianOp(w) ==
  LET after[k \in 0 .. Len(MedianNetwork)] ==
        IF k = 0 THEN w
        ELSE compare_exchange(after[k - 1], MedianNetwork[k][1], MedianNetwork[k][2])
  IN after[Len(MedianNetwork)][a11]

DeflateInflateOp(T, Inflate, p, w) ==
  LET accum == w[1] + w[2] + w[3] + w[4] + w[6] + w[7] + w[8] + w[9]
      mean == (IF IsFloat(T) THEN accum ELSE accum + 4) \div 8
  IN IF Inflate THEN Least(Greatest(mean, w[a11]), w[a11] + Threshold(T, p))
                ELSE Greatest(Least(mean, w[a11]), LowerLimit(T, w[a11], p))

\* The weighted sum, with the pixel that each weight meets.
Weighted(T, p, pixel) ==
  LET coeffs == IF IsFloat(T) THEN p.matrixf ELSE p.matrix
      accum[k \in 0 .. Len(pixel)] == IF k = 0 THEN 0 ELSE accum[k - 1] + coeffs[k] * pixel[k]
      tmp == accum[Len(pixel)] * p.div[1] + p.bias * p.div[2]
  IN xrint(T, IF p.saturate THEN tmp ELSE Magnitude(tmp), p.div[2])

ConvolutionOp(T, p, w) == Weighted(T, p, w)

op(kernel, T, p, w) ==
  CASE kernel = "prewitt" -> PrewittSobelOp(T, FALSE, p, w)
    [] kernel = "sobel" -> PrewittSobelOp(T, TRUE, p, w)
    [] kernel = "min" -> MinMaxOp(T, FALSE, p, w)
    [] kernel = "max" -> MinMaxOp(T, TRUE, p, w)
    [] kernel = "median" -> MedianOp(w)
    [] kernel = "deflate" -> DeflateInflateOp(T, FALSE, p, w)
    [] kernel = "inflate" -> DeflateInflateOp(T, TRUE, p, w)
    [] kernel = "conv" -> ConvolutionOp(T, p, w)

-----------------------------------------------------------------------------
(* One row of the destination, from the whole source *)

line_ptr(src, i) == src[i]

\* A column past the stride is in the next row; past the last row it is not the
\* plane's.
Beyond == 0
Read(src, i, column) ==
  LET stride == Len(src[i]) IN
  IF column < stride THEN src[i][column + 1]
  ELSE IF i + 1 \in DOMAIN src THEN src[i + 1][column - stride + 1] ELSE Beyond

filter_plane_3x3(kernel, T, p, src, width, height, i) ==
  LET above_idx == IF i = 0 THEN Least(1, height - 1) ELSE i - 1
      below_idx == IF i = height - 1 THEN height - Least(2, height) ELSE i + 1
      window(a, b, c) ==
        [k \in 1 .. 9 |-> Read(src, <<above_idx, i, below_idx>>[((k - 1) \div 3) + 1],
                               <<a, b, c>>[((k - 1) % 3) + 1])]
      other == IF width > 1 THEN 1 ELSE 0
      value(j) ==
        IF j = 0 THEN op(kernel, T, p, window(other, 0, other))
        ELSE IF j < width - 1 THEN op(kernel, T, p, window(j - 1, j, j + 1))
        ELSE op(kernel, T, p, window(width - 2, width - 1, width - 2))
  IN [j \in 0 .. width - 1 |-> limit(T, value(j), p.maxval)]

\* Unsigned: the distance of a row below the last one is immense.
UINT_MAX == 1000000
Distance(n, i) == IF i < n THEN n - 1 - i ELSE UINT_MAX

\* The place that a tap k of a window of fwidth taps around i reads, in a line of
\* n; dist is what the code takes for the distance from the line's end.
Tap(n, i, dist, fwidth, k) ==
  LET support == fwidth \div 2 IN
  IF k < support
    THEN IF i < support - k THEN Least(support - k - i, n - 1) ELSE i - support + k
    ELSE IF dist < k - support THEN i - Least(k - support - dist, i) ELSE i - support + k

\* The ends of a row are those columns that are not support away from either
\* edge; their distance from the right is taken from the number of the row.
TapInRow(width, i, j, fwidth, k) ==
  LET support == fwidth \div 2
      end == j < Least(width, support) \/ j >= Greatest(support, width - Least(width, support))
  IN IF end THEN Tap(width, j, Distance(width, i), fwidth, k) ELSE j - support + k

conv_plane_5x5(T, p, src, width, height, i) ==
  LET row(k) == Tap(height, i, height - 1 - i, 5, k)
      pixels(j) ==
        [m \in 1 .. 25 |-> Read(src, row((m - 1) \div 5), TapInRow(width, i, j, 5, (m - 1) % 5))]
  IN [j \in 0 .. width - 1 |-> limit(T, Weighted(T, p, pixels(j)), p.maxval)]

conv_plane_h(T, p, src, width, i) ==
  LET fwidth == p.matrixsize
      pixels(j) == [m \in 1 .. fwidth |-> Read(src, i, TapInRow(width, i, j, fwidth, m - 1))]
  IN [j \in 0 .. width - 1 |-> limit(T, Weighted(T, p, pixels(j)), p.maxval)]

conv_plane_v(T, p, src, width, height, i) ==
  LET fwidth == p.matrixsize
      support == fwidth \div 2
      inside == i >= support /\ i < height - Least(height, support)
      idx(k) == IF inside THEN i - support + k ELSE Tap(height, i, height - 1 - i, fwidth, k)
      pixels(j) == [m \in 1 .. fwidth |-> Read(src, idx(m - 1), j)]
  IN [j \in 0 .. width - 1 |-> limit(T, Weighted(T, p, pixels(j)), p.maxval)]

\* The functions with C linkage, one for each filter and pixel type.
vs_generic_c(kernel, T, p, src, width, height, i) ==
  CASE kernel = "5x5_conv" -> conv_plane_5x5(T, p, src, width, height, i)
    [] kernel = "1d_conv_h" -> conv_plane_h(T, p, src, width, i)
    [] kernel = "1d_conv_v" -> conv_plane_v(T, p, src, width, height, i)
    [] OTHER -> filter_plane_3x3(kernel, T, p, src, width, height, i)

-----------------------------------------------------------------------------
(* Minimum, Maximum, Median, Deflate, Inflate, Convolution, Prewitt and    *)
(* Sobel: from their arguments to the function that works on the planes,   *)
(* and its parameters. args is what the user said; threshold and           *)
(* coordinates are sequences, empty if they were left out.                 *)

SSE2 == INSTANCE GenericSSE2
AVX2 == INSTANCE GenericAVX2

Given(x) == x # <<>>
\* No function for floats looks at it (a shift by 32 has no value in C).
maxval(args) == IF IsFloat(args.T) THEN UINT16_MAX ELSE 2 ^ args.bits - 1

\* Threshold and coordinates: without them nothing is limited or left out.
LOCAL th(args) == IF Given(args.threshold) THEN args.threshold[1] ELSE maxval(args)
LOCAL thf(args) == IF Given(args.threshold) THEN args.threshold[1] ELSE INFINITY
LOCAL enable(args) == IF Given(args.coordinates) THEN args.coordinates[1] ELSE 0 .. 7

LOCAL SumOf(matrix) ==
  LET sum[k \in 0 .. Len(matrix)] == IF k = 0 THEN 0 ELSE sum[k - 1] + matrix[k]
  IN sum[Len(matrix)]

\* One over the divisor, or over the sum of the matrix unless that is nothing.
rdiv(args) ==
  LET sum == SumOf(args.matrix)
      d == IF args.divisor # 0 THEN args.divisor ELSE IF sum = 0 THEN 1 ELSE sum
  IN IF d < 0 THEN <<-1, -d>> ELSE <<1, d>>

\* Three weights in a line are made nine.
LOCAL Rewritten(args) ==
  LET m == args.matrix IN
  CASE args.mode = "h" -> <<0, 0, 0, m[1], m[2], m[3], 0, 0, 0>>
    [] args.mode = "v" -> <<0, m[1], 0, 0, m[2], 0, 0, m[3], 0>>

\* The convolution that is stored: its type, and its matrix.
convolution(args) ==
  IF args.mode \in {"h", "v"} /\ Len(args.matrix) = 3
    THEN [type |-> "s", matrix |-> Rewritten(args)]
    ELSE [type |-> args.mode, matrix |-> args.matrix]

\* The last plane must be at least 4x4, as genericGetframe tests again; and the
\* radius of what is still a line must be less than the plane.
genericCreateFails(args, width, height) ==
  \/ width < 4 \/ height < 4
  \/ /\ args.op = "conv"
     /\ LET conv == convolution(args)
            radius == Len(conv.matrix) \div 2
        IN \/ conv.type = "h" /\ radius >= width
           \/ conv.type = "v" /\ radius >= height

make_generic_params(args) ==
  [maxval |-> maxval(args), scale |-> args.scale, threshold |-> th(args), thresholdf |-> thf(args),
   stencil |-> enable(args), matrix |-> convolution(args).matrix,
   matrixf |-> convolution(args).matrix, matrixsize |-> Len(convolution(args).matrix),
   div |-> rdiv(args), bias |-> args.bias, saturate |-> args.saturate]

\* Only the 3x3 filters are there for a vector unit.
genericSelectAVX2(args) ==
  args.op # "conv" \/ (convolution(args).type = "s" /\ Len(convolution(args).matrix) = 9)
genericSelectSSE2(args) ==
  args.op # "conv" \/ (convolution(args).type = "s" /\ Len(convolution(args).matrix) = 9)
genericSelectC(args) ==
  LET conv == convolution(args) IN
  CASE args.op = "conv" /\ conv.type = "s" /\ Len(conv.matrix) = 25 -> "5x5_conv"
    [] args.op = "conv" /\ conv.type = "h" -> "1d_conv_h"
    [] args.op = "conv" /\ conv.type = "v" -> "1d_conv_v"
    [] OTHER -> args.op

\* Row i of a plane that is processed; cpu is the best of c, sse2 and avx2.
genericGetframe(args, cpu, src, width, height, i) ==
  LET params == make_generic_params(args) IN
  IF cpu = "avx2" /\ genericSelectAVX2(args)
    THEN AVX2!vs_generic_avx2(args.op, args.T, params, src, width, height, i)
  ELSE IF cpu \in {"sse2", "avx2"} /\ genericSelectSSE2(args)
    THEN SSE2!vs_generic_sse2(args.op, args.T, params, src, width, height, i)
  ELSE vs_generic_c(genericSelectC(args), args.T, params, src, width, height, i)

-----------------------------------------------------------------------------
(* Invert, Limiter, Binarize, Levels, Lut and Lut2. args says which        *)
(* filter, the type and the bits of a pixel, and what the caller gave; uv  *)
(* is set for a chroma plane that is not a mask. A float 1 is ONE. A row   *)
(* of pixels is counted from 1. Levels has no gamma here.                  *)

ONE == 100

\* A value of 16 bits, where a pixel is wanted.
LOCAL As(T, x) == IF T = "byte" THEN U8(x) ELSE x

InvertOp(args, x) ==
  LET max == As(args.T, 2 ^ args.bits - 1)
  IN CASE ~IsFloat(args.T) -> max - Least(x, max)
       [] IsFloat(args.T) /\ args.uv -> -x
       [] IsFloat(args.T) /\ ~args.uv -> ONE - x

LimitOp(args, x) == Least(As(args.T, args.max), Greatest(As(args.T, args.min), x))

BinarizeOp(args, x) == IF x < args.thr THEN As(args.T, args.v0) ELSE As(args.T, args.v1)

\* For floats, a number of parts of max_in - min_in; for integers a table is made, of
\* what is rounded by adding a half and cutting off.
levels(args, x) ==
  LET range == args.max_in - args.min_in
      out == Greatest(Least(x, args.max_in) - args.min_in, 0) * (args.max_out - args.min_out)
             + args.min_out * range
  IN IF IsFloat(args.T) THEN out
     ELSE (2 * Clamp(0, (2 ^ args.bits - 1) * range, out) + range) \div (2 * range)

-----------------------------------------------------------------------------
(* Tables.  An answer of the function is a value, or nothing; nothing is   *)
(* made of the table when an answer, or a given value, does not fit.        *)

LOCAL Fits(args, answer) == answer # <<>> /\ (args.floatout \/ answer[1] \in 0 .. 2 ^ args.bitsout - 1)

\* The table of n answers, and whether one of them does not fit.
LOCAL Table(args, answers, n, answer(_)) ==
  [failed |-> \E a \in answers : ~Fits(args, a),
   lut |-> [i \in 1 .. n |-> IF answer(i) = <<>> THEN 0 ELSE answer(i)[1]]]

\* The function is asked for each x; and for each x of each y.
funcToLut(args, nin) == Table(args, Range(args.func), nin, LAMBDA i : args.func[i])
funcToLut2(args, nxin, nyin) ==
  Table(args, UNION {Range(args.func[x]) : x \in DOMAIN args.func}, nxin * nyin,
        LAMBDA i : answerOf(args.func, (i - 1) % nxin, (i - 1) \div nxin))

\* A table that was given is checked as it is copied.
LOCAL TableOf(args) ==
  Table(args, {<<v>> : v \in Range(args.lut)}, Len(args.lut), LAMBDA i : <<args.lut[i]>>)
lutCreateHelper(args) ==
  IF args.lut = <<>> THEN funcToLut(args, 2 ^ args.bits) ELSE TableOf(args)
lut2CreateHelper(args) ==
  IF args.lut = <<>> THEN funcToLut2(args, 2 ^ args.bits, 2 ^ args.bits2) ELSE TableOf(args)

\* The largest index is taken from the format of what is made.
lutPixel(args, lut, x) ==
  lut[Least(x, (2 ^ args.bitsout - 1) % (Top(args.T) + 1)) + 1]
lut2Pixel(args, lut, x, y) ==
  lut[Least(y, 2 ^ args.bits2 - 1) * 2 ^ args.bits + Least(x, 2 ^ args.bits - 1) + 1]

-----------------------------------------------------------------------------
pointFails(args) ==
  CASE args.op = "Lut" -> lutCreateHelper(args).failed
    [] args.op = "Lut2" -> lut2CreateHelper(args).failed
    [] args.op = "Limiter" -> args.min > args.max
    [] OTHER -> FALSE

pointRow(args, src1, src2, n) ==
  LET lut == CASE args.op = "Lut" -> lutCreateHelper(args).lut
               [] args.op = "Lut2" -> lut2CreateHelper(args).lut
               [] OTHER -> <<>>
  IN [x \in 0 .. n - 1 |->
       CASE args.op = "Invert" -> InvertOp(args, src1[x + 1])
         [] args.op = "Limiter" -> LimitOp(args, src1[x + 1])
         [] args.op = "Binarize" -> BinarizeOp(args, src1[x + 1])
         [] args.op = "Levels" -> levels(args, src1[x + 1])
         [] args.op = "Lut" -> lutPixel(args, lut, src1[x + 1])
         [] args.op = "Lut2" -> lut2Pixel(args, lut, src1[x + 1], src2[x + 1])]
=============================================================================
