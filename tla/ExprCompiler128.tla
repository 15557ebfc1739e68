-------------------------- MODULE ExprCompiler128 --------------------------
(***************************************************************************)
(* ExprCompiler128 of exprfilter.cpp: the code of an Expr for registers of *)
(* 128 bits, two of them for eight pixels.  cpu is what the processor has, *)
(* [avx2, avx, fma3, sse4_1]; without avx an instruction writes over its   *)
(* first operand.  Each operator makes the instructions for one            *)
(* instruction of the bytecode.                                            *)
(***************************************************************************)
LOCAL INSTANCE Integers
LOCAL INSTANCE Sequences
LOCAL INSTANCE SequencesExt
LOCAL INSTANCE ExprMachine

first(r) == <<r, 1>>
second(r) == <<r, 2>>

zero == <<-1, 0>>
LOCAL tmp == <<-2, 0>>
LOCAL r1 == <<-3, 0>>
LOCAL r2 == <<-4, 0>>
LOCAL r3 == <<-5, 0>>
LOCAL r4 == <<-6, 0>>
LOCAL limit == <<-7, 0>>
LOCAL tmp1 == <<-8, 0>>
LOCAL tmp2 == <<-9, 0>>

\* constants + k * 16
LOCAL Const(k) == <<-100 - k, 0>>
absmask == Const(0)
negmask == Const(1)
float_one == Const(5)
float_255 == Const(7)
i16min_epi16 == Const(16)
i16min_epi32 == Const(17)
\* The largest value of so many bits, from the constants behind float_255.
float_max(depth) == Const(7 + depth - 8)

SPLAT(x) == <<x, x, x, x>>
constData ==
  [r \in {zero, absmask, negmask, float_one, i16min_epi16, i16min_epi32}
         \cup {float_max(depth) : depth \in 8 .. 16} |->
    CASE r = zero -> SPLAT(Zero)
      [] r = absmask -> SPLAT(AbsMask)
      [] r = negmask -> SPLAT(NegMask)
      [] r = float_one -> SPLAT(One)
      [] r = i16min_epi16 -> SPLAT(Number(-32768)) \o SPLAT(Number(-32768))
      [] r = i16min_epi32 -> SPLAT(Number(-32768))
      [] OTHER -> SPLAT(Number(2 ^ (-100 - r[1] + 1) - 1))]

-----------------------------------------------------------------------------
VEX1(op, arg1, arg2) == I(op, arg1, <<arg2>>)

\* Without avx the operands are copied out of the way.  insn(d, s) is the instruction
\* with the destination d that reads s and perhaps others, among them arg3.
LOCAL nonDestructive(cpu, arg1, arg2, arg3, insn(_, _)) ==
  IF cpu.avx \/ arg1 = arg2 THEN insn(arg1, arg2)
  ELSE IF arg1 # arg3 THEN VEX1("mov", arg1, arg2) \o insn(arg1, arg1)
  ELSE VEX1("mov", tmp, arg2) \o insn(tmp, tmp) \o VEX1("mov", arg1, tmp)

VEX2IMM(cpu, op, arg1, arg2, arg3, imm) ==
  nonDestructive(cpu, arg1, arg2, arg3, LAMBDA d, s : IMM(op, d, <<s, arg3>>, imm))
VEX2(cpu, op, arg1, arg2, arg3) == VEX2IMM(cpu, op, arg1, arg2, arg3, <<>>)

\* The same for the two registers of a value.
LOCAL Both(f(_)) == f(1) \o f(2)

-----------------------------------------------------------------------------
LOCAL unpacked(cpu, t1) ==
  VEX2(cpu, "punpckh", second(t1), first(t1), zero) \o VEX2(cpu, "punpckl", first(t1), first(t1), zero)
  \o VEX1("cvtdq2ps", first(t1), first(t1)) \o VEX1("cvtdq2ps", second(t1), second(t1))

load8(cpu, insn) ==
  LET t1 == insn.dst IN
  LOAD("movq", first(t1), insn.imm[1] + 1, 0, 8)
  \o VEX2(cpu, "punpckl", first(t1), first(t1), zero) \o unpacked(cpu, t1)

load16(cpu, insn) ==
  LOAD("load", first(insn.dst), insn.imm[1] + 1, 0, 8) \o unpacked(cpu, insn.dst)

loadF32(insn) ==
  LOAD("load", first(insn.dst), insn.imm[1] + 1, 0, 4)
  \o LOAD("load", second(insn.dst), insn.imm[1] + 1, 4, 4)

loadConst(insn) ==
  LET t1 == insn.dst IN
  IF insn.imm = Zero
  THEN VEX1("mov", first(t1), zero) \o VEX1("mov", second(t1), zero)
  ELSE IMM("movd", first(t1), <<zero>>, insn.imm)
       \o I("broadcast", first(t1), <<first(t1)>>)
       \o VEX1("mov", second(t1), first(t1))

store8(cpu, insn) ==
  LET t1 == insn.src[1] IN
  VEX1("mov", limit, float_255)
  \o VEX2(cpu, "minps", r1, first(t1), limit) \o VEX2(cpu, "minps", r2, second(t1), limit)
  \o VEX1("cvtps2dq", r1, r1) \o VEX1("cvtps2dq", r2, r2)
  \o VEX2(cpu, "packssdw", r1, r1, r2) \o VEX2(cpu, "packuswb", r1, r1, zero)
  \o STORE(r1, 0, 8)

\* SSE2 packs signed numbers only: 16 bits are moved down to them and back.
store16(cpu, insn) ==
  LET depth == insn.imm[1]
      t1 == insn.src[1]
      pack ==
        IF cpu.sse4_1 THEN VEX2(cpu, "packusdw", r1, r1, r2)
        ELSE (IF depth >= 16
              THEN VEX1("mov", limit, i16min_epi32)
                   \o VEX2(cpu, "paddd", r1, r1, limit) \o VEX2(cpu, "paddd", r2, r2, limit)
              ELSE <<>>)
             \o VEX2(cpu, "packssdw", r1, r1, r2)
             \o (IF depth >= 16 THEN VEX2(cpu, "psubw", r1, r1, i16min_epi16) ELSE <<>>)
  IN VEX1("mov", limit, float_max(depth))
     \o VEX2(cpu, "minps", r1, first(t1), limit) \o VEX2(cpu, "minps", r2, second(t1), limit)
     \o VEX1("cvtps2dq", r1, r1) \o VEX1("cvtps2dq", r2, r2)
     \o pack \o STORE(r1, 0, 8)

storeF32(insn) ==
  STORE(first(insn.src[1]), 0, 4) \o STORE(second(insn.src[1]), 4, 4)

-----------------------------------------------------------------------------
BINARYOP(cpu, op, insn) ==
  Both(LAMBDA k : VEX2(cpu, op, <<insn.dst, k>>, <<insn.src[1], k>>, <<insn.src[2], k>>))


\* t1 + t2 * t3, and its other signs.
fma(cpu, insn) ==
  LET type == insn.op
      t1 == insn.src[1]
      t2 == insn.src[2]
      t3 == insn.src[3]
      t4 == insn.dst
      FMA3(k) ==
        IF t4 = t1 THEN IMM("fma231ps", <<t1, k>>, <<<<t1, k>>, <<t2, k>>, <<t3, k>>>>, type)
        ELSE IF t4 = t2 THEN IMM("fma132ps", <<t2, k>>, <<<<t2, k>>, <<t1, k>>, <<t3, k>>>>, type)
        ELSE IF t4 = t3 THEN IMM("fma132ps", <<t3, k>>, <<<<t3, k>>, <<t1, k>>, <<t2, k>>>>, type)
        ELSE VEX1("mov", <<t4, k>>, <<t1, k>>)
             \o IMM("fma231ps", <<t4, k>>, <<<<t4, k>>, <<t2, k>>, <<t3, k>>>>, type)
      r(k) == IF k = 1 THEN r1 ELSE r2
      product(k) == VEX2(cpu, "mulps", r(k), <<t2, k>>, <<t3, k>>)
      sum(k) ==
        CASE type \in {"FMADD", "FNMSUB"} -> VEX2(cpu, "addps", <<t4, k>>, r(k), <<t1, k>>)
          [] type = "FMSUB" -> VEX2(cpu, "subps", <<t4, k>>, r(k), <<t1, k>>)
          [] type = "FNMADD" -> VEX2(cpu, "subps", <<t4, k>>, <<t1, k>>, r(k))
      negated(k) == VEX2(cpu, "xorps", <<t4, k>>, <<t4, k>>, r(k))
  IN IF cpu.fma3 THEN Both(FMA3)
     ELSE Both(product) \o Both(sum)
          \o (IF type = "FNMSUB" THEN VEX1("mov", r1, negmask) \o Both(negated) ELSE <<>>)

sqrt(cpu, insn) ==
  LET t1 == insn.src[1]
      t2 == insn.dst
  IN Both(LAMBDA k : VEX2(cpu, "maxps", <<t2, k>>, <<t1, k>>, zero))
     \o Both(LAMBDA k : VEX1("sqrtps", <<t2, k>>, <<t2, k>>))

\* op of a value and a constant.
LOCAL masked(cpu, op, insn, mask) ==
  VEX1("mov", r1, mask)
  \o Both(LAMBDA k : VEX2(cpu, op, <<insn.dst, k>>, <<insn.src[1], k>>, r1))
abs(cpu, insn) == masked(cpu, "andps", insn, absmask)
neg(cpu, insn) == masked(cpu, "xorps", insn, negmask)

LOCAL OneOf(cpu, r) == Both(LAMBDA k : VEX2(cpu, "andps", <<r, k>>, <<r, k>>, r1))

not_(cpu, insn) ==
  VEX1("mov", r1, float_one)
  \o Both(LAMBDA k : VEX2IMM(cpu, "cmpps", <<insn.dst, k>>, <<insn.src[1], k>>, zero, "LE"))
  \o OneOf(cpu, insn.dst)

LOGICOP(cpu, op, insn) ==
  LET t1 == insn.src[1]
      t2 == insn.src[2]
      t3 == insn.dst
      t(k) == IF k = 1 THEN tmp1 ELSE tmp2
  IN VEX1("mov", r1, float_one)
     \o Both(LAMBDA k : VEX2IMM(cpu, "cmpps", t(k), <<t1, k>>, zero, "NLE"))
     \o Both(LAMBDA k : VEX2IMM(cpu, "cmpps", <<t3, k>>, <<t2, k>>, zero, "NLE"))
     \o Both(LAMBDA k : VEX2(cpu, op, <<t3, k>>, <<t3, k>>, t(k)))
     \o OneOf(cpu, t3)

cmp(cpu, insn) ==
  VEX1("mov", r1, float_one)
  \o Both(LAMBDA k : VEX2IMM(cpu, "cmpps", <<insn.dst, k>>, <<insn.src[1], k>>, <<insn.src[2], k>>, insn.op))
  \o OneOf(cpu, insn.dst)

ternary(cpu, insn) ==
  LET t1 == insn.src[1]
      t2 == insn.src[2]
      t3 == insn.src[3]
      t4 == insn.dst
      r(k) == IF k = 1 THEN r1 ELSE r2
      blended(k) == nonDestructive(cpu, <<t4, k>>, <<t3, k>>, <<t2, k>>,
                      LAMBDA d, s : I("blendvps", d, <<s, <<t2, k>>, r(k)>>))
  IN Both(LAMBDA k : VEX2IMM(cpu, "cmpps", r(k), <<t1, k>>, zero, "NLE"))
     \o IF cpu.sse4_1 THEN Both(blended)
        ELSE Both(LAMBDA k : VEX2(cpu, "andps", <<t4, k>>, <<t3, k>>, r(k)))
             \o Both(LAMBDA k : VEX2(cpu, "andnps", r(k), r(k), <<t2, k>>))
             \o Both(LAMBDA k : VEX2(cpu, "orps", <<t4, k>>, <<t4, k>>, r(k)))

-----------------------------------------------------------------------------
(* Functions that are long: their code is a loop, gone through twice, that *)
(* computes the first register of the value and then the second.  What is  *)
(* computed by polynomials is one instruction here.                        *)

exp_(x) == I("exp_", x, <<x>>)
log_(x) == I("log_", x, <<x>>)
sincos_(op, y, x) == I(op, y, <<x>>)

LOCAL twice(body, t, next) ==
  LET once == body \o VEX1("mov", first(t), second(t)) \o VEX1("mov", second(t), r1)
              \o VEX1("mov", r1, r2) \o next
  IN once \o once
LOCAL taken(t) == VEX1("mov", r1, first(t)) \o VEX1("mov", r2, second(t))

exp(insn) == taken(insn.src[1]) \o twice(exp_(r1), insn.dst, <<>>)
log(insn) == taken(insn.src[1]) \o twice(log_(r1), insn.dst, <<>>)
sincos(op, insn) == taken(insn.src[1]) \o twice(sincos_(op, r1, r1), insn.dst, <<>>)
\* log_ of r1, times r3, and exp_ of that
pow(insn) ==
  taken(insn.src[1])
  \o VEX1("mov", r3, first(insn.src[2])) \o VEX1("mov", r4, second(insn.src[2]))
  \o twice(I("exp_log_", r1, <<r1, r3>>), insn.dst, VEX1("mov", r3, r4))

-----------------------------------------------------------------------------
addInstruction(cpu, insn) ==
  CASE insn.op = "MEM_LOAD_U8" -> load8(cpu, insn)
    [] insn.op = "MEM_LOAD_U16" -> load16(cpu, insn)
    [] insn.op = "MEM_LOAD_F32" -> loadF32(insn)
    [] insn.op = "CONSTANT" -> loadConst(insn)
    [] insn.op = "MEM_STORE_U8" -> store8(cpu, insn)
    [] insn.op = "MEM_STORE_U16" -> store16(cpu, insn)
    [] insn.op = "MEM_STORE_F32" -> storeF32(insn)
    [] insn.op = "ADD" -> BINARYOP(cpu, "addps", insn)
    [] insn.op = "SUB" -> BINARYOP(cpu, "subps", insn)
    [] insn.op = "MUL" -> BINARYOP(cpu, "mulps", insn)
    [] insn.op = "DIV" -> BINARYOP(cpu, "divps", insn)
    [] insn.op \in {"FMADD", "FMSUB", "FNMADD", "FNMSUB"} -> fma(cpu, insn)
    [] insn.op = "MAX" -> BINARYOP(cpu, "maxps", insn)
    [] insn.op = "MIN" -> BINARYOP(cpu, "minps", insn)
    [] insn.op = "SQRT" -> sqrt(cpu, insn)
    [] insn.op = "ABS" -> abs(cpu, insn)
    [] insn.op = "NEG" -> neg(cpu, insn)
    [] insn.op = "NOT" -> not_(cpu, insn)
    [] insn.op = "AND" -> LOGICOP(cpu, "andps", insn)
    [] insn.op = "OR" -> LOGICOP(cpu, "orps", insn)
    [] insn.op = "XOR" -> LOGICOP(cpu, "xorps", insn)
    [] insn.op \in {"EQ", "LT", "LE", "NEQ", "NLT", "NLE"} -> cmp(cpu, insn)
    [] insn.op = "TERNARY" -> ternary(cpu, insn)
    [] insn.op = "EXP" -> exp(insn)
    [] insn.op = "LOG" -> log(insn)
    [] insn.op = "POW" -> pow(insn)
    [] insn.op = "SIN" -> sincos("sin_", insn)
    [] insn.op = "COS" -> sincos("cos_", insn)

\* The row, eight pixels after eight; 16 bytes hold two of the pointers.
main(cpu, code, numInputs, rows, niter) ==
  Run(FlattenSeq([i \in DOMAIN code |-> addInstruction(cpu, code[i])]), 2 * (numInputs \div 2 + 1),
      constData, rows, niter, FALSE)
=============================================================================
