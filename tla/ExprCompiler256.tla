-------------------------- MODULE ExprCompiler256 --------------------------
(***************************************************************************)
(* ExprCompiler256 of exprfilter.cpp: the code of an Expr for registers of *)
(* 256 bits, each of which holds eight pixels.  A register of the bytecode *)
(* is one of the processor.                                                *)
(***************************************************************************)
LOCAL INSTANCE Integers
LOCAL INSTANCE Sequences
LOCAL INSTANCE SequencesExt
LOCAL INSTANCE ExprMachine

LOCAL zero == <<-1, 0>>
LOCAL r1 == <<-2, 0>>
LOCAL tmp == <<-3, 0>>

\* constants + k * 32
LOCAL Const(k) == <<-100 - k, 0>>
LOCAL absmask == Const(0)
LOCAL negmask == Const(1)
LOCAL float_one == Const(5)
LOCAL float_255 == Const(7)

SPLAT(x) == <<x, x, x, x, x, x, x, x>>
constData ==
  [r \in {zero, absmask, negmask, float_one} \cup {Const(k) : k \in 7 .. 15} |->
    CASE r = zero -> SPLAT(Zero)
      [] r = absmask -> SPLAT(AbsMask)
      [] r = negmask -> SPLAT(NegMask)
      [] r = float_one -> SPLAT(One)
      [] OTHER -> SPLAT(Number(2 ^ (-100 - r[1] + 1) - 1))]

\* The register for a register of the bytecode.
reg(r) == <<r, 1>>

-----------------------------------------------------------------------------
LOCAL loaded(insn) ==
  LOAD("load", reg(insn.dst), insn.imm[1] + 1, 0, 8)
load8(insn) == loaded(insn) \o I("cvtdq2ps", reg(insn.dst), <<reg(insn.dst)>>)
load16(insn) == loaded(insn) \o I("cvtdq2ps", reg(insn.dst), <<reg(insn.dst)>>)
loadF32(insn) == loaded(insn)

loadConst(insn) ==
  IF insn.imm = Zero THEN I("mov", reg(insn.dst), <<zero>>)
  ELSE IMM("movd", r1, <<zero>>, insn.imm) \o I("broadcast", reg(insn.dst), <<r1>>)

store8(insn) ==
  I("minps", r1, <<reg(insn.src[1]), float_255>>)
  \o I("cvtps2dq", r1, <<r1>>)
  \o I("packssdw", r1, <<r1, r1>>)
  \o I("vpermq_0x08", r1, <<r1>>)
  \o I("packuswb", r1, <<r1, zero>>)
  \o STORE(r1, 0, 8)

store16(insn) ==
  I("minps", r1, <<reg(insn.src[1]), Const(7 + insn.imm[1] - 8)>>)
  \o I("cvtps2dq", r1, <<r1>>)
  \o I("packusdw", r1, <<r1, r1>>)
  \o I("vpermq_0x08", r1, <<r1>>)
  \o STORE(r1, 0, 8)

storeF32(insn) == STORE(reg(insn.src[1]), 0, 8)

-----------------------------------------------------------------------------
BINARYOP(op, insn) == I(op, reg(insn.dst), <<reg(insn.src[1]), reg(insn.src[2])>>)

\* t1 + t2 * t3, and its other signs.
fma(insn) ==
  LET t(k) == reg(insn.src[k])
      t4 == reg(insn.dst)
      FMA3(form, dst, src) == IMM(form, dst, src, insn.op)
  IN IF t4 = t(1) THEN FMA3("fma231ps", t(1), <<t(1), t(2), t(3)>>)
     ELSE IF t4 = t(2) THEN FMA3("fma132ps", t(2), <<t(2), t(1), t(3)>>)
     ELSE IF t4 = t(3) THEN FMA3("fma132ps", t(3), <<t(3), t(1), t(2)>>)
     ELSE I("mov", t4, <<t(1)>>) \o FMA3("fma231ps", t4, <<t4, t(2), t(3)>>)

sqrt(insn) ==
  I("maxps", reg(insn.dst), <<reg(insn.src[1]), zero>>)
  \o I("sqrtps", reg(insn.dst), <<reg(insn.dst)>>)
abs(insn) == I("andps", reg(insn.dst), <<reg(insn.src[1]), absmask>>)
neg(insn) == I("xorps", reg(insn.dst), <<reg(insn.src[1]), negmask>>)

LOCAL OneOf(t) == I("andps", t, <<t, float_one>>)
LOCAL compared(t, a, b, comparison) == IMM("cmpps", t, <<a, b>>, comparison)

not_(insn) == compared(reg(insn.dst), reg(insn.src[1]), zero, "LE") \o OneOf(reg(insn.dst))

LOGICOP(op, insn) ==
  LET t3 == reg(insn.dst) IN
  compared(tmp, reg(insn.src[1]), zero, "NLE")
  \o compared(t3, reg(insn.src[2]), zero, "NLE")
  \o I(op, t3, <<t3, tmp>>)
  \o OneOf(t3)

cmp(insn) ==
  compared(reg(insn.dst), reg(insn.src[1]), reg(insn.src[2]), insn.op) \o OneOf(reg(insn.dst))

ternary(insn) ==
  compared(r1, reg(insn.src[1]), zero, "NLE")
  \o I("blendvps", reg(insn.dst), <<reg(insn.src[3]), reg(insn.src[2]), r1>>)

-----------------------------------------------------------------------------
(* Functions that are long: what is computed by polynomials is one         *)
(* instruction here.                                                       *)

exp_(x) == I("exp_", x, <<x>>)
log_(x) == I("log_", x, <<x>>)
sincos_(op, insn) == I(op, reg(insn.dst), <<reg(insn.src[1])>>)

\* The source is made the destination's copy, and then the result.
exp(insn) == I("mov", reg(insn.src[1]), <<reg(insn.dst)>>) \o exp_(reg(insn.src[1]))
log(insn) == I("mov", reg(insn.src[1]), <<reg(insn.dst)>>) \o log_(reg(insn.src[1]))
\* log_ of r1, times the exponent, and exp_ of that
pow(insn) ==
  I("mov", r1, <<reg(insn.src[1])>>)
  \o I("exp_log_", r1, <<r1, reg(insn.src[2])>>)
  \o I("mov", reg(insn.dst), <<r1>>)

-----------------------------------------------------------------------------
addInstruction(insn) ==
  CASE insn.op = "MEM_LOAD_U8" -> load8(insn)
    [] insn.op = "MEM_LOAD_U16" -> load16(insn)
    [] insn.op = "MEM_LOAD_F32" -> loadF32(insn)
    [] insn.op = "CONSTANT" -> loadConst(insn)
    [] insn.op = "MEM_STORE_U8" -> store8(insn)
    [] insn.op = "MEM_STORE_U16" -> store16(insn)
    [] insn.op = "MEM_STORE_F32" -> storeF32(insn)
    [] insn.op = "ADD" -> BINARYOP("addps", insn)
    [] insn.op = "SUB" -> BINARYOP("subps", insn)
    [] insn.op = "MUL" -> BINARYOP("mulps", insn)
    [] insn.op = "DIV" -> BINARYOP("divps", insn)
    [] insn.op \in {"FMADD", "FMSUB", "FNMADD", "FNMSUB"} -> fma(insn)
    [] insn.op = "MAX" -> BINARYOP("maxps", insn)
    [] insn.op = "MIN" -> BINARYOP("minps", insn)
    [] insn.op = "SQRT" -> sqrt(insn)
    [] insn.op = "ABS" -> abs(insn)
    [] insn.op = "NEG" -> neg(insn)
    [] insn.op = "NOT" -> not_(insn)
    [] insn.op = "AND" -> LOGICOP("andps", insn)
    [] insn.op = "OR" -> LOGICOP("orps", insn)
    [] insn.op = "XOR" -> LOGICOP("xorps", insn)
    [] insn.op \in {"EQ", "LT", "LE", "NEQ", "NLT", "NLE"} -> cmp(insn)
    [] insn.op = "TERNARY" -> ternary(insn)
    [] insn.op = "EXP" -> exp(insn)
    [] insn.op = "LOG" -> log(insn)
    [] insn.op = "POW" -> pow(insn)
    [] insn.op = "SIN" -> sincos_("sin_", insn)
    [] insn.op = "COS" -> sincos_("cos_", insn)

\* The row, eight pixels after eight; 32 bytes hold four of the pointers.
main(code, numInputs, rows, niter) ==
  Run(FlattenSeq([i \in DOMAIN code |-> addInstruction(code[i])]), 4 * (numInputs \div 4 + 1),
      constData, rows, niter, TRUE)
=============================================================================
