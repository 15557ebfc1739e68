------------------------------ MODULE MCPixels ------------------------------
(***************************************************************************)
(* Small planes of values at which the arithmetic of the kernels changes.  *)
(***************************************************************************)
EXTENDS PixelWork

Cpus == {"c", "sse2", "avx2"}

\* Values that go round without a period that a register could share; the padding
\* goes on with them.
LOCAL Stride(width) == ((width + 63) \div 64) * 64
Plane(values, width, height, seed) ==
  [i \in 0 .. height - 1 |->
    [k \in 1 .. Stride(width) |->
      values[((seed * k + 7 * i + 3 * i * k + (k * k) \div 5) % Len(values)) + 1]]]

ByteValues == <<0, 255, 1, 128, 254, 127, 40, 0, 200, 255, 90>>
WordValues == <<0, 4095, 1, 2048, 4094, 2047, 640, 0, 3200, 4095, 1440>>
HighValues == <<65535, 61440, 65534, 63488, 61441, 63487, 64895, 65535, 62336, 61440, 64096>>
FloatValues == <<0, 8, -8, 800, -1600, 16, 0, 2400, 80, -80, 24>>

LOCAL Kinds ==
  {[T |-> "byte", bits |-> 8, values |-> ByteValues, widths |-> {31, 65}],
   [T |-> "word", bits |-> 12, values |-> WordValues, widths |-> {15, 33}],
   [T |-> "word", bits |-> 16, values |-> HighValues, widths |-> {17}],
   [T |-> "float", bits |-> 32, values |-> FloatValues, widths |-> {7, 17}]}

\* Every filter, with arguments that each take another way.
LOCAL ArgsOf(T, bits) ==
  LET none == [op |-> "median", T |-> T, bits |-> bits, threshold |-> <<>>, coordinates |-> <<>>,
               scale |-> 1, mode |-> "s", matrix |-> <<>>, divisor |-> 0, bias |-> 0,
               saturate |-> TRUE]
      conv == [none EXCEPT !.op = "conv", !.divisor = IF T = "float" THEN -1 ELSE 0]
  IN {none}
     \cup {[none EXCEPT !.op = op, !.scale = 17] : op \in {"prewitt", "sobel"}}
     \cup {[none EXCEPT !.op = op, !.threshold = t] :
             op \in {"deflate", "inflate"}, t \in {<<>>, <<40>>}}
     \cup {[none EXCEPT !.op = op, !.threshold = <<40>>, !.coordinates = <<{0, 5, 6}>>] :
             op \in {"min", "max"}}
     \cup {[none EXCEPT !.op = "min", !.coordinates = <<{3, 4}>>], [none EXCEPT !.op = "max"]}
     \cup {[conv EXCEPT !.matrix = <<1023, -1023, 7, 512, -512, 3, 9, -9, 100>>, !.saturate = s,
                        !.bias = 100] : s \in BOOLEAN}
     \cup {[conv EXCEPT !.matrix = m, !.mode = mode] :
             m \in {<<1, 2, -5>>, <<1, 2, 3, 4, 5>>}, mode \in {"h", "v"}}
     \cup {[conv EXCEPT !.matrix = [k \in 1 .. 25 |-> 13 - k]]}

\* Four rows, the fewest a plane may have, or five for what looks two rows up and down.
LOCAL Tall(args) == args.op = "conv" /\ (Len(args.matrix) = 25 \/ (args.mode = "v" /\ Len(args.matrix) = 5))
LOCAL StencilsOf(k, w, h) ==
  [args : {a \in ArgsOf(k.T, k.bits) : Tall(a) <=> h = 5}, cpu : Cpus, src : {Plane(k.values, w, h, 3)},
   width : {w}, height : {h}]
MCStencilCalls ==
  UNION {UNION {StencilsOf(k, w, h) : h \in {4, 5}, w \in k.widths} : k \in Kinds}

-----------------------------------------------------------------------------
LOCAL BlendKinds ==
  {[T |-> "byte", bits |-> 8, values |-> ByteValues, widths |-> {16, 33}],
   [T |-> "word", bits |-> 12, values |-> WordValues, widths |-> {17}],
   [T |-> "float", bits |-> 32, values |-> FloatValues, widths |-> {9}]}

LOCAL BlendArgs(T, bits) ==
  LET none == [op |-> "MakeDiff", T |-> T, bits |-> bits, limited |-> FALSE, yuvhandling |-> FALSE,
               premultiplied |-> FALSE, weight |-> 0]
      colours == {[none EXCEPT !.limited = l, !.yuvhandling = y] :
                    l \in BOOLEAN, y \in IF T = "float" THEN {FALSE} ELSE BOOLEAN}
  IN {none, [none EXCEPT !.op = "MergeDiff"], [none EXCEPT !.op = "MaskedMerge"]}
     \cup {[none EXCEPT !.op = "Merge", !.weight = w] : w \in {0, 1, 9830, 16384, 32767, 32768}}
     \cup {[c EXCEPT !.op = "PreMultiply"] : c \in colours}
     \cup {[c EXCEPT !.op = "MaskedMerge", !.premultiplied = TRUE] : c \in colours}

\* The masks of floats are parts of 2^15.
LOCAL Mask(k, width) ==
  IF k.T = "float" THEN Plane(<<0, 32768, 16384, 1, 9830>>, width, 2, 5) ELSE Plane(k.values, width, 2, 5)

LOCAL BlendsOf(k, w) ==
  [args : BlendArgs(k.T, k.bits), cpu : Cpus, src1 : {Plane(k.values, w, 2, 3)},
   src2 : {Plane(k.values, w, 2, 8)}, mask : {Mask(k, w)}, width : {w}, height : {2}]
MCBlendCalls ==
  UNION {BlendsOf(k, w) : <<k, w>> \in {<<k, w>> \in BlendKinds \X (1 .. 99) : w \in k.widths}}
  \cup [args : {[op |-> "Merge", T |-> "word", bits |-> 16, limited |-> FALSE, yuvhandling |-> FALSE,
                 premultiplied |-> FALSE, weight |-> w] : w \in {1, 9830, 32768}},
        cpu : Cpus, src1 : {Plane(HighValues, 17, 2, 3)}, src2 : {Plane(HighValues, 17, 2, 8)},
        mask : {Plane(HighValues, 17, 2, 5)}, width : {17}, height : {2}]

LOCAL OnePixel(T, bits, top) ==
  LET none == [op |-> "Invert", T |-> T, bits |-> bits, uv |-> FALSE]
      limits == {<<16 * (top \div 255), 235 * (top \div 255)>>, <<0, top>>, <<top, 0>>}
  IN {none, [none EXCEPT !.uv = TRUE]}
     \cup {[op |-> "Limiter", T |-> T, bits |-> bits, min |-> l[1], max |-> l[2]] : l \in limits}
     \cup {[op |-> "Binarize", T |-> T, bits |-> bits, thr |-> l[2], v0 |-> l[1], v1 |-> top] : l \in limits}
     \cup {[op |-> "Levels", T |-> T, bits |-> bits, min_in |-> 16, max_in |-> 235, min_out |-> l[1],
            max_out |-> l[2]] : l \in limits}

\* A table for 8 bits; the last one does not fit.
LOCAL Tables ==
  {[op |-> "Lut", T |-> "byte", bits |-> 8, bitsout |-> b, floatout |-> FALSE, lut |-> l, func |-> f] :
     b \in {8, 12}, <<l, f>> \in {<<[i \in 1 .. 256 |-> (i * i) % 256], <<>>>>,
                                  <<<<>>, [i \in 1 .. 256 |-> <<256 - i>>]>>,
                                  <<<<>>, [i \in 1 .. 256 |-> IF i = 256 THEN <<>> ELSE <<i>>]>>,
                                  <<[i \in 1 .. 256 |-> 16 * i], <<>>>>}}
LOCAL TwoPixels ==
  LET none == [op |-> "Lut2", T |-> "byte", bits |-> 8, bits2 |-> 8, bitsout |-> 8, floatout |-> FALSE,
               lut |-> <<>>, func |-> <<>>]
  IN {[none EXCEPT !.func = [a \in 1 .. 7 |-> [b \in 1 .. 5 |-> <<40 * a - 7 * b>>]]]}

LOCAL PointsOf(args, values, width) ==
  [args : args, src1 : {Plane(values, width, 1, 3)}, src2 : {Plane(values, width, 1, 8)},
   width : {width}, height : {1}]
MCPointCalls ==
  PointsOf(OnePixel("byte", 8, 255) \cup Tables \cup TwoPixels, ByteValues, 32)
  \cup PointsOf(OnePixel("word", 12, 4095), WordValues, 32)
  \cup PointsOf(OnePixel("float", 32, 100), FloatValues, 16)

MCBlurCalls ==
  UNION {[args : [T : {k.T}, radius : 1 .. 5, passes : 1 .. 3], src : {Plane(k.values, w, 1, 3)},
          width : {w}, height : {1}] :
           k \in BlendKinds, w \in {3, 4, 5, 9, 12}}

LOCAL StatsOf(k, w) ==
  LET src == Plane(k.values, w, 3, 3) IN
  [args : {[T |-> k.T, bits |-> k.bits]}, cpu : Cpus, src1 : {src}, src2 : {<<>>, Plane(k.values, w, 3, 8)},
   width : {w}, height : {3}]
MCStatsCalls ==
  UNION {StatsOf(k, w) : k \in BlendKinds, w \in {3, 32, 37}}
  \cup StatsOf([T |-> "word", bits |-> 16, values |-> HighValues], 19)

\* Every pixel is another one.
LOCAL Cells(width, height) ==
  [i \in 0 .. height - 1 |-> [k \in 1 .. Stride(width) |-> 1000 * i + k]]
MCTransposeCalls ==
  {[T |-> T, cpu |-> cpu, src |-> Cells(s[1], s[2]), width |-> s[1], height |-> s[2]] :
     T \in {"byte", "word", "dword"}, cpu \in Cpus, s \in {<<37, 75>>, <<5, 3>>, <<16, 64>>, <<50, 45>>}}

-----------------------------------------------------------------------------
LOCAL x == <<"load", 0>>
LOCAL y == <<"load", 1>>
LOCAL N(n) == <<"number", n, 1>>
LOCAL Half == <<"number", 1, 2>>
LOCAL W(word) == <<word>>

Expressions == {
  <<x, N(2), W("*"), N(3), W("+")>>,
  <<x, y, W("+"), Half, W("*")>>,
  <<x, x, W("*"), y, y, W("*"), W("+"), W("sqrt")>>,
  <<x, y, W("<"), x, y, W("?")>>,
  <<x, y, W(">"), x, y, W("?")>>,
  <<x, y, W("<="), y, x, W("?")>>,
  <<x, N(3), W(">"), y, N(2), W("<"), W("and"), x, y, W("?")>>,
  <<x, y, W(">="), W("not"), x, y, W("-"), y, x, W("-"), W("?")>>,
  <<x, N(3), W("pow"), y, N(2), W("pow"), W("/")>>,
  <<x, W("sqrt"), N(3), W("pow")>>,
  <<x, N(-1), W("*"), y, W("+")>>,
  <<N(0), x, y, W("-"), W("-")>>,
  <<x, y, W("*"), x, W("+"), N(-1), W("*")>>,
  <<x, x, W("+"), y, W("-"), x, W("-")>>,
  <<x, y, W("+"), x, y, W("-"), W("*")>>,
  <<x, N(2), W("*"), x, N(3), W("*"), W("+"), y, W("-")>>,
  <<x, y, W("/"), N(2), W("*"), x, W("/")>>,
  <<x, y, x, W("/"), W("/")>>,
  <<N(1), x, W("/"), y, W("*")>>,
  <<x, <<"dup", 0>>, W("*"), y, <<"swap", 1>>, W("-")>>,
  <<x, y, <<"dup", 1>>, W("+"), W("/")>>,
  <<x, W("+")>>, <<x, y>>, <<<<"load", 2>>>>, <<x, <<"swap", 1>>>>, <<>>,
  <<x, W("exp"), W("log")>>,
  <<x, W("log"), W("exp")>>,
  <<x, W("sin"), y, W("cos"), W("+")>>,
  <<N(2), N(3), W("+"), N(4), W("*"), x, W("-")>>,
  <<N(1), x, y, W("?")>>,
  <<x, W("abs"), y, W("max"), x, W("min")>>,
  <<x, y, W("xor"), W("not"), x, y, W("or"), W("+")>>,
  <<x, x, W("="), y, W("*")>>,
  <<x, N(2), W("-"), N(3), W("*"), y, W("+")>>,
  <<x, N(0), W("pow"), y, N(0), W("*"), W("+")>>,
  <<x, y, W("*"), <<"dup", 0>>, W("abs"), W("+")>>,
  <<x, y, W("*"), N(1), W("+"), x, y, W("*"), W("max")>>,
  <<x, x, W("-"), N(3), W("+")>>,
  <<x, N(2), W("pow"), W("sqrt")>>,
  <<x, N(-2), W("pow")>>,
  <<x, N(5), W("pow"), x, W("-")>>,
  <<x, N(3), W("/"), y, N(4), W("/"), W("-")>>,
  <<x, y, W("<"), N(1), N(0), W("?")>>,
  <<x, y, W("-"), y, x, W("-"), W("abs"), W("*")>>,
  <<x, W("exp"), x, W("+")>>,
  <<x, y, x, y, W("<"), W("pow"), W("+")>>,
  <<x, y, N(3), W("min"), W("pow"), x, W("+")>>
}

\* And every pair of operations, on either side of the other.
Operations == {"+", "-", "*", "/", "<", "max"}
Pairs ==
  {<<a, b, W(op1), c, W(op2)>> : a \in {x, y}, b \in {x, N(2)}, c \in {y, N(-1)},
                                 op1 \in Operations, op2 \in Operations}
  \cup {<<a, b, y, W(op1), W(op2)>> : a \in {x, N(2)}, b \in {x, N(3)},
                                      op1 \in Operations, op2 \in Operations}

LOCAL ExprsOf(expressions, second, stores) ==
  [tokens : expressions, formats : {<<"MEM_LOAD_F32", second>>}, store : stores,
   pixels : {<<<<0, 1>>, <<4, 9>>, <<-3, 2>>, <<9, 4>>, <<1, 1>>, <<16, 0>>, <<-9, 100>>, <<36, 25>>, <<2, 3>>>>}]
LOCAL Float == [op |-> "MEM_STORE_F32", bits |-> 32]
LOCAL Word(bits) == [op |-> "MEM_STORE_U16", bits |-> bits]
MCExprCalls ==
  ExprsOf(Expressions, "MEM_LOAD_U8", {Float, [op |-> "MEM_STORE_U8", bits |-> 8]})
  \cup ExprsOf(Expressions, "MEM_LOAD_U16", {Word(10), Word(16)})
  \cup ExprsOf(Pairs, "MEM_LOAD_U8", {Float})

\* Each has what those before it have.
LOCAL Features == {"sse4_1", "avx", "fma3", "avx2"}
LOCAL Processor(level, has) ==
  [level |-> level, sse4_1 |-> "sse4_1" \in has, avx |-> "avx" \in has, fma3 |-> "fma3" \in has,
   avx2 |-> "avx2" \in has]
MCProcessors ==
  {Processor("none", {}), Processor("avx2", Features), Processor("sse2", Features)}
  \cup {Processor("avx2", has) : has \in {{}, {"sse4_1"}, {"sse4_1", "avx"}}}
=============================================================================
