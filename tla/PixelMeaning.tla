--------------------------- MODULE PixelMeaning ----------------------------
(***************************************************************************)
(* What the filters are for, pixel by pixel: the definitions that what     *)
(* every kernel and every form of an expression makes is compared with.    *)
(***************************************************************************)
LOCAL INSTANCE Integers
LOCAL INSTANCE Sequences
LOCAL INSTANCE FiniteSets
LOCAL INSTANCE Vectors
LOCAL INSTANCE ExprMachine
LOCAL INSTANCE ExprTree

-----------------------------------------------------------------------------
(* A plane goes on beyond its edges as its own mirror image.               *)

Mirror(n, k) == IF k < 0 THEN -k ELSE IF k > n - 1 THEN 2 * (n - 1) - k ELSE k
Pixel(src, width, height, i, j) == src[Mirror(height, i)][Mirror(width, j) + 1]

LOCAL Sum(f) ==
  LET sum[k \in 0 .. Len(f)] == IF k = 0 THEN 0 ELSE sum[k - 1] + f[k] IN sum[Len(f)]

\* The value in the middle of an odd number of values.
LOCAL Middle(f) ==
  CHOOSE v \in {f[k] : k \in DOMAIN f} :
    LET half == Len(f) \div 2 IN
    /\ Cardinality({k \in DOMAIN f : f[k] < v}) <= half
    /\ Cardinality({k \in DOMAIN f : f[k] > v}) <= half

LOCAL Within(args, x) == IF IsFloat(args.T) THEN x ELSE Clamp(0, 2 ^ args.bits - 1, x)

\* No further from the pixel than the threshold.
LOCAL Near(args, pixel, x) ==
  IF args.threshold = <<>> THEN x
  ELSE Clamp(pixel - args.threshold[1], pixel + args.threshold[1], x)

Square(side) ==
  [k \in 1 .. side * side |->
    <<((k - 1) \div side) - (side \div 2), ((k - 1) % side) - (side \div 2)>>]
Line(mode, n) ==
  [k \in 1 .. n |-> LET d == k - 1 - (n \div 2) IN IF mode = "h" THEN <<0, d>> ELSE <<d, 0>>]

ConvolutionMeaning(args, src, width, height, i, j) ==
  LET m == args.matrix
      offset == IF args.mode = "s" THEN Square(IF Len(m) = 9 THEN 3 ELSE 5) ELSE Line(args.mode, Len(m))
      sum == Sum([k \in DOMAIN m |->
                   m[k] * Pixel(src, width, height, i + offset[k][1], j + offset[k][2])])
      d == IF args.divisor # 0 THEN args.divisor ELSE IF Sum(m) = 0 THEN 1 ELSE Sum(m)
      n == (IF d < 0 THEN -sum ELSE sum) + args.bias * Magnitude(d)
  IN Within(args, Nearest(IF args.saturate THEN n ELSE Magnitude(n), Magnitude(d)))

StencilMeaning(args, src, width, height, i, j) ==
  LET at(k) == Pixel(src, width, height, i + Square(3)[k][1], j + Square(3)[k][2])
      centre == at(5)
      around == [k \in 1 .. 8 |-> IF k <= 4 THEN at(k) ELSE at(k + 1)]
      enabled == {k \in 1 .. 8 : args.coordinates = <<>> \/ k - 1 \in args.coordinates[1]}
      chosen == {centre} \cup {around[k] : k \in enabled}
      mean == IF IsFloat(args.T) THEN Sum(around) \div 8 ELSE (Sum(around) + 4) \div 8
      slope(rise) == LET m == IF args.op = "sobel" THEN 2 ELSE 1 IN rise[1] + m * rise[2] + rise[3]
      down == slope([k \in 1 .. 3 |-> at(6 + k) - at(k)])
      right == slope([k \in 1 .. 3 |-> at(3 * k) - at(3 * k - 2)])
  IN CASE args.op = "min" -> Near(args, centre, CHOOSE v \in chosen : \A u \in chosen : v <= u)
       [] args.op = "max" -> Near(args, centre, CHOOSE v \in chosen : \A u \in chosen : v >= u)
       [] args.op = "median" -> Middle([k \in 1 .. 9 |-> at(k)])
       [] args.op = "deflate" -> Near(args, centre, Least(mean, centre))
       [] args.op = "inflate" -> Near(args, centre, Greatest(mean, centre))
       [] args.op \in {"prewitt", "sobel"} ->
            Within(args, Root(down * down + right * right) * args.scale)
       [] args.op = "conv" -> ConvolutionMeaning(args, src, width, height, i, j)

-----------------------------------------------------------------------------
(* Two planes, and perhaps a mask, into one: how close d has to be. *)

LOCAL ONE == 2 ^ 15

\* d parts of whole are n, to the nearest.
LOCAL Halfway(d, whole, n) == Magnitude(d * whole - n) <= whole \div 2

\* A pixel that leaves the range of its bits when it is laid over another is left
\* open: some kernels saturate, others wrap.  The weight 1 is taken as 32767 parts.
BlendClose(args, v1, v2, m, d) ==
  LET top == 2 ^ args.bits - 1
      half == 2 ^ (args.bits - 1)
      offset == IF args.yuvhandling THEN half
                ELSE IF args.limited THEN 16 * 2 ^ (args.bits - 8) ELSE 0
      real == IsFloat(args.T)
      w == args.weight
      laid == v2 * top + (v1 - offset) * (top - m)
  IN CASE args.op = "Merge" /\ real -> d = v1 * (ONE - w) + v2 * w
       [] args.op = "Merge" /\ ~real ->
            IF w < ONE THEN Halfway(d, ONE, v1 * (ONE - w) + v2 * w) ELSE Magnitude(d - v2) <= 2
       [] args.op = "MaskedMerge" /\ real ->
            d = (IF args.premultiplied THEN v2 * ONE ELSE v2 * m) + v1 * (ONE - m)
       [] args.op = "MaskedMerge" /\ ~real /\ ~args.premultiplied ->
            Halfway(d, top, (top - m) * v1 + m * v2)
       [] args.op = "MaskedMerge" /\ ~real /\ args.premultiplied ->
            laid \in 0 .. top * top => Halfway(d, top, laid)
       [] args.op = "MakeDiff" -> d = IF real THEN v1 - v2 ELSE Clamp(0, top, v1 - v2 + half)
       [] args.op = "MergeDiff" -> d = IF real THEN v1 + v2 ELSE Clamp(0, top, v1 + v2 - half)
       [] args.op = "PreMultiply" /\ real -> d = v1 * m
       [] args.op = "PreMultiply" /\ ~real ->
            /\ Magnitude((d - offset) * top - (v1 - offset) * m) <= 2 * top
            /\ m = top => d = v1
            /\ m = 0 => d = offset

(* One pixel, or two, into one *)

PointClose(args, v1, v2, d) ==
  LET top == IF IsFloat(args.T) THEN 100 ELSE 2 ^ args.bits - 1
  IN CASE args.op = "Invert" -> d = IF IsFloat(args.T) /\ args.uv THEN -v1 ELSE top - v1
       [] args.op = "Limiter" -> d \in args.min .. args.max /\ (v1 \in args.min .. args.max => d = v1)
       [] args.op = "Binarize" -> d = IF v1 < args.thr THEN args.v0 ELSE args.v1
       [] args.op = "Levels" ->
            LET range == args.max_in - args.min_in
                spread == args.max_out - args.min_out
                n == (Clamp(args.min_in, args.max_in, v1) - args.min_in) * spread + args.min_out * range
            IN IF IsFloat(args.T) THEN d = n ELSE d = Clamp(0, top, d) /\ Halfway(d, range, n)
       [] args.op = "Lut" -> d = IF args.lut = <<>> THEN args.func[v1 + 1][1] ELSE args.lut[v1 + 1]
       [] args.op = "Lut2" ->
            d = IF args.lut = <<>> THEN answerOf(args.func, v1, v2)[1] ELSE args.lut[v2 * 2 ^ args.bits + v1 + 1]

-----------------------------------------------------------------------------
(* A whole plane *)

\* Each pass takes the sum over the window, where the pixel at the edge stands for what
\* is beyond it; an integer is rounded up in the first pass, down in the second.
BlurMeaning(args, row, width) ==
  LET r == args.radius
      near(f, x) == Sum([k \in 1 .. 2 * r + 1 |-> f[Clamp(0, width - 1, x + k - r - 1)]])
      up(p) == IF p % 2 = 1 THEN 2 * r ELSE 0
      after[p \in 0 .. args.passes] ==
        [x \in 0 .. width - 1 |->
          IF p = 0 THEN row[x + 1]
          ELSE LET sum == near(after[p - 1], x)
               IN IF IsFloat(args.T) THEN sum ELSE (sum + up(p)) \div (2 * r + 1)]
  IN after[args.passes]

StatsMeaning(args, src1, src2, width, height) ==
  LET all(f(_, _)) == Sum([k \in 1 .. width * height |-> f((k - 1) \div width, ((k - 1) % width) + 1)])
      pixels == {src1[i][j] : i \in 0 .. height - 1, j \in 1 .. width}
      one(i, j) == src1[i][j]
      apart(i, j) == Magnitude(src1[i][j] - src2[i][j])
      whole == width * height * IF IsFloat(args.T) THEN 1 ELSE 2 ^ args.bits - 1
  IN [min |-> CHOOSE v \in pixels : \A u \in pixels : v <= u,
      max |-> CHOOSE v \in pixels : \A u \in pixels : v >= u,
      average |-> <<all(one), whole>>,
      diff |-> IF src2 = <<>> THEN <<0, 1>> ELSE <<all(apart), whole>>]

-----------------------------------------------------------------------------
(* What an expression in reverse Polish notation means at one place of the *)
(* clips, where their pixels are these.                                    *)

LOCAL Pushes == {"load", "number", "dup"}
LOCAL Arity(word) ==
  CASE word \in Pushes \cup {"swap"} -> 0
    [] word \in {"sqrt", "abs", "not", "exp", "log", "sin", "cos"} -> 1
    [] word = "?" -> 3
    [] OTHER -> 2

LOCAL Said(word, a) ==
  LET b(k) == Positive(a[k]) IN
  CASE word = "+" -> Plus(a[1], a[2])
    [] word = "-" -> Minus(a[1], a[2])
    [] word = "*" -> Times(a[1], a[2])
    [] word = "/" -> Over(a[1], a[2])
    [] word = "pow" -> Pow(a[1], a[2])
    [] word = "max" -> Larger(a[1], a[2])
    [] word = "min" -> Lesser(a[1], a[2])
    [] word = "<" -> Truth(a, Less(a[1], a[2]))
    [] word = ">" -> Truth(a, Less(a[2], a[1]))
    [] word = "<=" -> Truth(a, ~Less(a[2], a[1]))
    [] word = ">=" -> Truth(a, ~Less(a[1], a[2]))
    [] word = "=" -> Truth(a, a[1] = a[2])
    [] word = "and" -> Truth(a, b(1) /\ b(2))
    [] word = "or" -> Truth(a, b(1) \/ b(2))
    [] word = "xor" -> Truth(a, b(1) # b(2))
    [] word = "not" -> Truth(a, ~b(1))
    [] word = "?" -> IF ~Defined(a[1]) THEN Undefined ELSE IF b(1) THEN a[2] ELSE a[3]
    [] word = "abs" -> Abs(a[1])
    [] word = "sqrt" -> Sqrt(a[1])
    [] word = "exp" -> Exp(a[1])
    [] word = "log" -> Log(a[1])
    [] word = "sin" -> Sin(a[1])
    [] word = "cos" -> Cos(a[1])

\* The depths of the stack after each token, or -1 from where a token has too little.
LOCAL Depths(tokens, clips) ==
  LET depth[i \in 0 .. Len(tokens)] ==
        IF i = 0 THEN 0
        ELSE LET before == depth[i - 1]
                 word == tokens[i][1]
             IN IF \/ before < Arity(word)
                   \/ word = "load" /\ tokens[i][2] >= clips
                   \/ word \in {"dup", "swap"} /\ tokens[i][2] >= before
                THEN -1
                ELSE before - Arity(word) + IF word = "swap" THEN 0 ELSE 1
  IN depth
WellFormed(tokens, clips) == Depths(tokens, clips)[Len(tokens)] = 1

ExprValue(tokens, pixels) ==
  LET stack[i \in 0 .. Len(tokens)] ==
        IF i = 0 THEN <<>>
        ELSE LET before == stack[i - 1]
                 n == Len(before)
                 token == tokens[i]
                 word == token[1]
                 below == SubSeq(before, 1, n - Arity(word))
             IN CASE word = "load" -> Append(before, Number(pixels[token[2] + 1]))
                  [] word = "number" -> Append(before, Ratio(token[2], token[3]))
                  [] word = "dup" -> Append(before, before[n - token[2]])
                  [] word = "swap" -> [before EXCEPT ![n] = before[n - token[2]],
                                                     ![n - token[2]] = before[n]]
                  [] OTHER -> Append(below, Said(word, SubSeq(before, n - Arity(word) + 1, n)))
  IN stack[Len(tokens)][1]

\* The same of a tree.
RECURSIVE At(_, _)
At(n, pixels) ==
  IF n.op \in Loads THEN Constant(Number(pixels[n.imm[1] + 1]))
  ELSE [n EXCEPT !.kids = [k \in DOMAIN n.kids |-> At(n.kids[k], pixels)]]
TreeValue(n, pixels) == evalConstantExpr(At(n, pixels))
Negative(v) == Less(v, Zero)
Above0(v) == Less(Zero, v)
=============================================================================
