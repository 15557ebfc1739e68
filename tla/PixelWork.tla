------------------------------ MODULE PixelWork ------------------------------
(***************************************************************************)
(* What the filters of VapStd do to the pixels of one plane.  A call is    *)
(* chosen at the beginning; a filter that goes row by row makes one row of *)
(* the destination in each step, in the order of its loop, on the vector   *)
(* unit that the processor has; a pass over a whole plane is one step.     *)
(***************************************************************************)
EXTENDS Integers, Sequences, FiniteSets

CONSTANTS
  StencilCalls,    \* a pixel and its neighbours: [args, cpu, src, width, height]
  BlendCalls,      \* two planes into one: [args, cpu, src1, src2, mask, width, height]
  PointCalls,      \* one pixel, or two, into one: [args, src1, src2, width, height]
  BlurCalls,       \* along the rows: [args, src, width, height]
  StatsCalls,      \* numbers about a plane: [args, cpu, src1, src2, width, height]
  TransposeCalls,  \* rows into columns: [T, cpu, src, width, height]
  ExprCalls,       \* an expression: [tokens, formats, store |-> [op, bits], pixels], the pixels of a row
  Processors       \* that compiled expressions run on: [level, avx2, avx, fma3, sse4_1]

LOCAL Filters == INSTANCE GenericFilters
LOCAL Blends == INSTANCE MergeKernels
LOCAL Planes == INSTANCE PlanePasses
LOCAL Meaning == INSTANCE PixelMeaning
LOCAL Tree == INSTANCE ExprTree
LOCAL Passes == INSTANCE ExprPasses

VARIABLES
  kind,            \* which of the sets the call is from
  call,            \* what is being done
  dst              \* the rows that are finished

vars == <<kind, call, dst>>

Init ==
  /\ dst = <<>>
  /\ \/ /\ kind = "stencil" /\ call \in StencilCalls
        /\ ~Filters!genericCreateFails(call.args, call.width, call.height)
     \/ kind = "blend" /\ call \in BlendCalls
     \/ kind = "point" /\ call \in PointCalls /\ ~Filters!pointFails(call.args)
     \/ kind = "blur" /\ call \in BlurCalls
     \/ kind = "stats" /\ call \in StatsCalls
     \/ kind = "transpose" /\ call \in TransposeCalls
     \/ kind = "expr" /\ call \in ExprCalls

Row(k, pixels) ==
  /\ kind = k
  /\ Len(dst) < call.height
  /\ dst' = Append(dst, pixels)
  /\ UNCHANGED <<kind, call>>

StencilRow ==
  kind = "stencil" /\
  Row("stencil", Filters!genericGetframe(call.args, call.cpu, call.src, call.width, call.height,
                                          Len(dst)))
BlendRow ==
  kind = "blend" /\
  LET i == Len(dst) IN
  Row("blend", Blends!blendRow(call.args, call.cpu, call.src1[i], call.src2[i], call.mask[i],
                               call.width))
PointRow ==
  kind = "point" /\
  Row("point", Filters!pointRow(call.args, call.src1[Len(dst)], call.src2[Len(dst)], call.width))
BlurRow ==
  kind = "blur" /\ Row("blur", Planes!boxBlur(call.args, call.src[Len(dst)], call.width))

\* A pass over the plane makes all its rows, or one record.
Pass(rows) ==
  /\ dst = <<>>
  /\ dst' = rows
  /\ UNCHANGED <<kind, call>>

planeStatsPass ==
  kind = "stats" /\
  Pass(<<Planes!planeStats(call.args, call.cpu, call.src1, call.src2, call.width, call.height)>>)
transposePass ==
  kind = "transpose" /\
  LET columns == Planes!transpose(call.T, call.cpu, call.src, call.width, call.height)
  IN Pass([j \in 1 .. call.width |-> columns[j - 1]])

-----------------------------------------------------------------------------
(* Expr: the expression becomes a tree, which the passes of two loops      *)
(* rewrite until they find nothing more to change, then code, and then a   *)
(* row of pixels.  dst holds the form that it has now.                     *)

Becomes(form) == dst' = <<form>> /\ UNCHANGED <<kind, call>>
HasForm(what) == kind = "expr" /\ dst # <<>> /\ dst[1].form = what

exprParse ==
  /\ kind = "expr" /\ dst = <<>>
  /\ LET parsed == Tree!parseExpr(call.tokens, call.formats)
     IN IF parsed = <<>> THEN Becomes([form |-> "refused"])
        ELSE Becomes([form |-> "tree", pass |-> "local", tree |-> parsed[1]])

\* A pass that changes something starts its loop again.
Pass1(pass, result, again, next) ==
  /\ HasForm("tree") /\ dst[1].pass = pass
  /\ Becomes([form |-> "tree", pass |-> IF result.changed THEN again ELSE next, tree |-> result.node])

localPass == Pass1("local", Passes!applyLocalOptimizations(dst[1].tree), "local", "algebraic")
algebraicPass ==
  Pass1("algebraic", Passes!applyAlgebraicOptimizations(dst[1].tree), "local", "comparison")
comparisonPass ==
  LET new == Passes!applyComparisonOptimizations(dst[1].tree)
  IN Pass1("comparison", [node |-> new, changed |-> new # dst[1].tree], "local", "cleanup")
cleanupPass == Pass1("cleanup", Passes!applyAlgebraicCleanup(dst[1].tree), "cleanup", "strength")
strengthPass == Pass1("strength", Passes!applyStrengthReduction(dst[1].tree), "cleanup", "fusion")
fusionPass == Pass1("fusion", Passes!applyOpFusion(dst[1].tree), "cleanup", "compile")

exprCompile ==
  /\ HasForm("tree") /\ dst[1].pass = "compile"
  /\ Becomes([form |-> "code", code |-> Passes!compile(dst[1].tree, call.store)])
exprRename ==
  /\ HasForm("code")
  /\ Becomes([form |-> "renamed", code |-> Passes!renameRegisters(dst[1].code)])
exprRow ==
  /\ HasForm("renamed")
  /\ \E cpu \in Processors :
       Becomes([form |-> "row", cpu |-> cpu, code |-> dst[1].code,
                pixels |-> Passes!exprGetFrame(dst[1].code, cpu, call.pixels)])

Optimise ==
  localPass \/ algebraicPass \/ comparisonPass \/ cleanupPass \/ strengthPass \/ fusionPass

Next ==
  \/ StencilRow \/ BlendRow \/ PointRow \/ BlurRow \/ planeStatsPass \/ transposePass
  \/ exprParse \/ Optimise \/ exprCompile \/ exprRename \/ exprRow

Spec == Init /\ [][Next]_vars

-----------------------------------------------------------------------------
\* Where the convolutions in C that are wider than three pixels do not mirror the
\* plane: a line that is not the last but is nearer to the end than the support is
\* reflected about itself; and the distance from the right edge is taken from the
\* number of the row.
EdgeMisread(i, j) ==
  LET conv == Filters!convolution(call.args)
      square == conv.type = "s" /\ Len(conv.matrix) = 25
      support == IF square THEN 2 ELSE Len(conv.matrix) \div 2
      cut(d) == IF d < support THEN d ELSE support
      right == call.width - 1 - j
      bottom == call.height - 1 - i
  IN /\ call.args.op = "conv"
     /\ \/ (square \/ conv.type = "v") /\ bottom \in 1 .. support - 1
        \/ /\ square \/ conv.type = "h"
           /\ j < support \/ right < support
           /\ right \in 1 .. support - 1 \/ cut(Filters!Distance(call.width, i)) # cut(right)

\* Every pixel of a row is what the filter means for the pixel and its neighbours,
\* mirrored at the edges.
StencilRight ==
  kind = "stencil" /\ dst # <<>> =>
    LET i == Len(dst) - 1 IN
    \A j \in 0 .. call.width - 1 :
      EdgeMisread(i, j)
      \/ dst[i + 1][j] = Meaning!StencilMeaning(call.args, call.src, call.width, call.height, i, j)

\* The kernel for AVX2 that lays one plane of floats over another weighs the wrong one.
WeighsTheOverlay ==
  /\ call.cpu = "avx2" /\ call.args.op = "MaskedMerge"
  /\ call.args.T = "float" /\ call.args.premultiplied
\* Lut looks at the bits of what it makes for the largest pixel of its source.
CutByOutput == call.args.op = "Lut" /\ call.args.bitsout < call.args.bits

\* Every pixel of a row is the mean, the sum, the difference or the answer that the
\* filter is asked for, of the pixels and the mask at its place, within the rounding of
\* the integers.
BlendRight ==
  /\ kind = "blend" /\ dst # <<>> /\ ~WeighsTheOverlay =>
       LET i == Len(dst) - 1 IN
       \A x \in 0 .. call.width - 1 :
         Meaning!BlendClose(call.args, call.src1[i][x + 1], call.src2[i][x + 1], call.mask[i][x + 1],
                            dst[i + 1][x])
  /\ kind = "point" /\ dst # <<>> /\ ~CutByOutput =>
       LET i == Len(dst) - 1 IN
       \A x \in 0 .. call.width - 1 :
         Meaning!PointClose(call.args, call.src1[i][x + 1], call.src2[i][x + 1], dst[i + 1][x])

\* Every row of a destination that a kernel has made, in C or for a vector unit, is
\* right: the pixels at the edges, in the padding of the last vector and at the ends of
\* the range included, where the three kernels compute them in different ways.
PixelsRight == StencilRight /\ BlendRight

\* The kernel in C that compares two planes of floats forgets what it found.
StatsForgotten == call.cpu = "c" /\ call.args.T = "float" /\ call.src2 # <<>>

\* A blurred row is, pass by pass, the sum over the window, although the sum slides and
\* a narrow blur writes over what it reads; the numbers about a plane are those of all
\* its pixels and of no padding; and a transposed plane has each pixel once, at its
\* mirrored place, whichever block or loop moved it.
PlaneRight ==
  /\ kind = "blur" /\ dst # <<>> =>
       dst[Len(dst)] = Meaning!BlurMeaning(call.args, call.src[Len(dst) - 1], call.width)
  /\ kind = "stats" /\ dst # <<>> /\ ~StatsForgotten =>
       dst[1] = Meaning!StatsMeaning(call.args, call.src1, call.src2, call.width, call.height)
  /\ kind = "transpose" /\ dst # <<>> =>
       \A i \in 0 .. call.height - 1, j \in 0 .. call.width - 1 :
         dst[j + 1][i] = call.src[i][j + 1]

\* What the passes are known to lose.  (x ** a) ** b becomes x ** (a * b), which has
\* another sign where x is negative; and a sum whose terms all cancel becomes 0,
\* whatever number they left.  parts are the subtrees of the expression.
SignLost(parts, pixels) ==
  LET power(n) == n.op \in {"POW", "SQRT"} IN
  \E k \in DOMAIN parts :
    /\ power(parts[k]) /\ power(Tree!L(parts[k]))
    /\ Meaning!Negative(Meaning!TreeValue(Tree!L(Tree!L(parts[k])), pixels))
NumberLost(parts) ==
  \E k \in DOMAIN parts :
    /\ parts[k].op \in {"ADD", "SUB"}
    /\ ~Tree!isConstantExpr(parts[k])
    /\ Cardinality({Meaning!TreeValue(parts[k], call.pixels[j]) : j \in DOMAIN call.pixels}) = 1

\* Where compiled code is not what the interpreter makes of the same instructions: exp
\* and log for wide registers leave their result in the source; without SSE4.1 a choice
\* takes the other value, and negative values wrap when they are stored in less than 16
\* bits; without fma3 the sign of half the pixels is changed by another register; and a
\* power of what is not positive goes by its logarithm.
Miscompiled(code, cpu, k, answer) ==
  LET narrow == ~Passes!make_compiler(cpu)
      some(ops) == \E i \in DOMAIN code : code[i].op \in ops
  IN /\ cpu.level # "none"
     /\ \/ ~narrow /\ \E i \in DOMAIN code :
             code[i].op \in {"EXP", "LOG"} /\ code[i].dst # code[i].src[1]
        \/ narrow /\ ~cpu.sse4_1 /\ some({"TERNARY"})
        \/ narrow /\ ~cpu.sse4_1 /\ some({"MEM_STORE_U16"}) /\ call.store.bits < 16
           /\ Meaning!Negative(answer)
        \/ narrow /\ ~cpu.fma3 /\ some({"FNMSUB"}) /\ (k - 1) % 8 >= 4
        \/ \E i \in DOMAIN code :
             code[i].op = "POW"
             /\ ~Meaning!Above0(Passes!executed(code, call.pixels[k], i - 1)[code[i].src[1]])

\* The value of the form at the place k.
LOCAL Made(form, k) ==
  CASE form.form = "tree" -> Meaning!TreeValue(form.tree, call.pixels[k])
    [] form.form \in {"code", "renamed"} -> Passes!eval(form.code, call.pixels[k])
    [] form.form = "row" -> form.pixels[k]
LOCAL Kept(form, parts, k, answer) ==
  \/ answer = <<>>
  \/ Made(form, k) =
       IF form.form = "tree" THEN answer ELSE Passes!stored(call.store.op, call.store.bits, answer)
  \/ SignLost(parts, call.pixels[k])
  \/ NumberLost(parts)
  \/ form.form = "row" /\ Miscompiled(form.code, form.cpu, k, answer)

\* Whatever form the expression has, it means what its words say: no pass of the two
\* loops changes its value at any pixel where it has one, no register is written over
\* while it is needed, by the bytecode or by what it is compiled to for any processor, and
\* what is stored is the value within the range of the format.
MeaningKept ==
  kind = "expr" /\ dst # <<>> =>
    /\ Meaning!WellFormed(call.tokens, Len(call.formats)) <=> dst[1].form # "refused"
    /\ dst[1].form # "refused" =>
         \A k \in DOMAIN call.pixels :
           Kept(dst[1], Tree!numbered(Tree!parseExpr(call.tokens, call.formats)[1], <<>>), k,
                Meaning!ExprValue(call.tokens, call.pixels[k]))

\* Every filter comes to an end; above all the two loops of passes do, where one pass
\* could undo what another has done, and change the tree for ever.
LoopsEnd == <>[][FALSE]_dst
=============================================================================
