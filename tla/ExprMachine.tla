---------------------------- MODULE ExprMachine ----------------------------
(***************************************************************************)
(* The arithmetic of an Expr, and the processor that its compiled code     *)
(* runs on.  A number is an exact fraction <<n, d>> in its lowest terms,   *)
(* with d positive, and Undefined stands for what is not a number, or not  *)
(* one that the fractions hold: nothing is rounded, and exp, log, sin and  *)
(* cos are known only where they are 0 or 1.                               *)
(***************************************************************************)
LOCAL INSTANCE Integers
LOCAL INSTANCE Sequences

Undefined == <<>>

LOCAL Gcd(a, b) == LET gcd[x \in Nat, y \in Nat] == IF y = 0 THEN x ELSE gcd[y, x % y] IN gcd[a, b]
LOCAL Mag(x) == IF x < 0 THEN -x ELSE x

Ratio(n, d) ==
  IF d = 0 THEN Undefined
  ELSE LET g == Gcd(Mag(n), Mag(d)) IN <<(IF d < 0 THEN -n ELSE n) \div g, Mag(d) \div g>>
Number(n) == <<n, 1>>
Zero == Number(0)
One == Number(1)

Defined(a) == a # Undefined
isInteger(a) == Defined(a) /\ a[2] = 1

\* v, if all the numbers it is made of are defined.
LOCAL If(operands, v) == IF \A k \in DOMAIN operands : Defined(operands[k]) THEN v ELSE Undefined

Plus(a, b) == If(<<a, b>>, Ratio(a[1] * b[2] + b[1] * a[2], a[2] * b[2]))
Neg(a) == If(<<a>>, <<-a[1], a[2]>>)
Minus(a, b) == Plus(a, Neg(b))
Times(a, b) == If(<<a, b>>, Ratio(a[1] * b[1], a[2] * b[2]))
Over(a, b) == If(<<a, b>>, Ratio(a[1] * b[2], a[2] * b[1]))
Abs(a) == If(<<a>>, <<Mag(a[1]), a[2]>>)
Less(a, b) == Defined(a) /\ Defined(b) /\ a[1] * b[2] < b[1] * a[2]
Lesser(a, b) == If(<<a, b>>, IF Less(b, a) THEN b ELSE a)
Larger(a, b) == If(<<a, b>>, IF Less(a, b) THEN b ELSE a)

\* 1 and 0 for a comparison; what is positive is true.
Truth(operands, b) == If(operands, IF b THEN One ELSE Zero)
Positive(a) == Less(Zero, a)

LOCAL RootOf(n) == {r \in 0 .. 1000 : r * r = n}
Sqrt(a) ==
  IF Defined(a) /\ a[1] >= 0 /\ RootOf(a[1]) # {} /\ RootOf(a[2]) # {}
  THEN <<CHOOSE r \in RootOf(a[1]) : TRUE, CHOOSE r \in RootOf(a[2]) : TRUE>>
  ELSE Undefined

LOCAL Power(a, n) == LET p[k \in 0 .. n] == IF k = 0 THEN One ELSE Times(p[k - 1], a) IN p[n]
LOCAL Whole(a, n) == IF n < 0 THEN Over(One, Power(a, -n)) ELSE Power(a, n)
\* Whole exponents, and halves of them.
Pow(a, b) ==
  IF ~Defined(a) \/ ~Defined(b) \/ b[2] > 2 THEN Undefined
  ELSE IF b[2] = 1 THEN Whole(a, b[1])
  ELSE LET root == Sqrt(a) IN IF Defined(root) THEN Whole(root, b[1]) ELSE Undefined

LOCAL Known(a, at, v) == IF a = at THEN v ELSE Undefined
Exp(a) == Known(a, Zero, One)
Log(a) == Known(a, One, Zero)
Sin(a) == Known(a, Zero, Zero)
Cos(a) == Known(a, Zero, One)

\* To the nearest integer, ties to even: lrint and cvtps2dq.
Rounded(a) ==
  LET q == a[1] \div a[2]
      r == 2 * (a[1] % a[2])
  IN IF r < a[2] \/ (r = a[2] /\ q % 2 = 0) THEN q ELSE q + 1

-----------------------------------------------------------------------------
(* Vector instructions.  A register holds a sequence of numbers; where it  *)
(* holds bits instead, they are these.                                     *)

Ones == <<0, 0>>
AbsMask == <<1, 0>>       \* all but the sign
NegMask == <<-1, 0>>      \* the sign

LOCAL And(a, b) ==
  IF a = Ones THEN b ELSE IF b = Ones THEN a
  ELSE IF Zero \in {a, b} THEN Zero
  ELSE IF a = AbsMask THEN Abs(b) ELSE IF b = AbsMask THEN Abs(a)
  ELSE Undefined
LOCAL AndNot(a, b) == CASE a = Zero -> b [] a = Ones -> Zero [] OTHER -> Undefined
LOCAL Or(a, b) ==
  IF a = Zero THEN b ELSE IF b = Zero THEN a ELSE IF Ones \in {a, b} THEN Ones ELSE Undefined
LOCAL Xor(a, b) ==
  CASE a = NegMask -> Neg(b)
    [] a # NegMask /\ b = NegMask -> Neg(a)
    [] NegMask \notin {a, b} /\ a = b /\ Defined(a) -> Zero
    [] NegMask \notin {a, b} /\ a # b /\ Zero \in {a, b} -> IF a = Zero THEN b ELSE a
    [] OTHER -> Undefined

LOCAL Holds(comparison, a, b) ==
  CASE comparison = "EQ" -> a = b
    [] comparison = "NEQ" -> a # b
    [] comparison = "LT" -> Less(a, b)
    [] comparison = "NLT" -> ~Less(a, b)
    [] comparison = "LE" -> ~Less(b, a)
    [] comparison = "NLE" -> Less(b, a)

\* c and the product of a and b.
LOCAL Fused(kind, c, a, b) ==
  CASE kind = "FMADD" -> Plus(Times(a, b), c)
    [] kind = "FMSUB" -> Minus(Times(a, b), c)
    [] kind = "FNMADD" -> Minus(c, Times(a, b))
    [] kind = "FNMSUB" -> Neg(Plus(Times(a, b), c))

\* What an instruction makes of one lane of its operands.  imm is the comparison, or the
\* kind of multiplication.
LOCAL Lane(op, imm, v) ==
  CASE op = "addps" -> Plus(v[1], v[2])
    [] op = "subps" -> Minus(v[1], v[2])
    [] op = "mulps" -> Times(v[1], v[2])
    [] op = "divps" -> Over(v[1], v[2])
    [] op = "minps" -> Lesser(v[1], v[2])
    [] op = "maxps" -> Larger(v[1], v[2])
    [] op = "sqrtps" -> Sqrt(v[1])
    [] op = "andps" -> And(v[1], v[2])
    [] op = "andnps" -> AndNot(v[1], v[2])
    [] op = "orps" -> Or(v[1], v[2])
    [] op = "xorps" -> Xor(v[1], v[2])
    [] op = "cmpps" -> If(v, IF Holds(imm, v[1], v[2]) THEN Ones ELSE Zero)
    [] op = "blendvps" -> Or(AndNot(v[3], v[1]), And(v[3], v[2]))
    [] op = "fma132ps" -> Fused(imm, v[2], v[1], v[3])
    [] op = "fma231ps" -> Fused(imm, v[1], v[2], v[3])
    [] op = "cvtps2dq" -> If(v, Number(Rounded(v[1])))
    [] op = "paddd" -> Plus(v[1], v[2])
    [] op = "psubw" -> If(v, Number((v[1][1] - v[2][1]) % 65536))
    [] op \in {"mov", "cvtdq2ps"} -> v[1]
    \* the approximations that the code makes of simple instructions
    [] op = "exp_" -> Exp(v[1])
    [] op = "log_" -> Log(v[1])
    [] op = "sin_" -> Sin(v[1])
    [] op = "cos_" -> Cos(v[1])
    [] op = "exp_log_" -> IF Positive(v[1]) THEN Pow(v[1], v[2]) ELSE Undefined

LOCAL Part(x, k, n) == LET size == Len(x) \div n IN SubSeq(x, (k - 1) * size + 1, k * size)
LOCAL Packed(lo, hi, v, wide) ==
  LET both == IF wide THEN Part(v[1], 1, 2) \o Part(v[2], 1, 2) \o Part(v[1], 2, 2) \o Part(v[2], 2, 2)
              ELSE v[1] \o v[2]
  IN [k \in DOMAIN both |-> Lesser(Larger(both[k], Number(lo)), Number(hi))]

\* What an instruction makes of its operands; a wide register has two lanes of 128 bits.
LOCAL Made(op, imm, v, wide) ==
  CASE op = "punpckl" -> Part(v[1], 1, 2)     \* with zeros: the elements become wider
    [] op = "punpckh" -> Part(v[1], 2, 2)
    [] op = "packssdw" -> Packed(-32768, 32767, v, wide)
    [] op = "packusdw" -> Packed(0, 65535, v, wide)
    [] op = "packuswb" -> Packed(0, 255, v, wide)
    [] op = "vpermq_0x08" -> Part(v[1], 1, 4) \o Part(v[1], 3, 4) \o Part(v[1], 1, 4) \o Part(v[1], 1, 4)
    [] op = "movd" -> <<imm>> \o [k \in 1 .. Len(v[1]) - 1 |-> Zero]
    [] op = "broadcast" -> [k \in DOMAIN v[1] |-> v[1][1]]
    [] OTHER -> [k \in DOMAIN v[1] |-> Lane(op, imm, [j \in DOMAIN v |-> v[j][k]])]

-----------------------------------------------------------------------------
(* Programs.  An instruction is [op, dst, src, imm]; a register is known   *)
(* by a pair of numbers.  A load or a store goes by a pointer of rwptrs,   *)
(* the destination's being the first, and moves imm = [pointer, at, n]: n  *)
(* pixels, that many behind the pointer.                                   *)

I(op, dst, src) == <<[op |-> op, dst |-> dst, src |-> src, imm |-> <<>>]>>
IMM(op, dst, src, imm) == <<[op |-> op, dst |-> dst, src |-> src, imm |-> imm]>>
LOAD(op, dst, pointer, at, n) == IMM(op, dst, <<>>, [pointer |-> pointer, at |-> at, n |-> n])
STORE(src, at, n) == IMM("store", src, <<src>>, [pointer |-> 0, at |-> at, n |-> n])

\* rows are the pixels that the pointers go along; out holds what was stored.
LOCAL Step(m, insn, rows, wide) ==
  LET v == [k \in DOMAIN insn.src |-> m.register[insn.src[k]]]
      pixel(k) == m.at[insn.imm.pointer] + insn.imm.at + k
      loaded == [k \in 1 .. insn.imm.n |-> rows[insn.imm.pointer][pixel(k)]]
      into(x) == [m EXCEPT !.register[insn.dst] = x]
  IN CASE insn.op = "load" -> into(loaded)
       [] insn.op = "movq" -> into(loaded \o [k \in 1 .. insn.imm.n |-> Zero])
       [] insn.op = "store" ->
            LET from == pixel(0) IN
            [m EXCEPT !.out = [x \in DOMAIN m.out |->
               IF x \in from + 1 .. from + insn.imm.n THEN v[1][x - from] ELSE m.out[x]]]
       [] OTHER -> into(Made(insn.op, insn.imm, v, wide))

\* The loop over a row: the instructions, and then each of the first pointers goes on by
\* eight pixels.  constant says what the registers of constants hold.
Run(program, pointers, constant, rows, iterations, wide) ==
  LET lanes == IF wide THEN 8 ELSE 4
      used == UNION {{program[i].dst} \cup {program[i].src[k] : k \in DOMAIN program[i].src} :
                     i \in DOMAIN program}
      start == [register |-> [r \in used |-> IF r \in DOMAIN constant THEN constant[r]
                                             ELSE [k \in 1 .. lanes |-> Undefined]],
                at |-> [p \in DOMAIN rows |-> 0],
                out |-> rows[0]]
      n == Len(program)
      after[i \in 0 .. iterations * (n + 1)] ==
        IF i = 0 THEN start
        ELSE LET k == ((i - 1) % (n + 1)) + 1
                 m == after[i - 1]
             IN IF k <= n THEN Step(m, program[k], rows, wide)
                ELSE [m EXCEPT !.at = [p \in DOMAIN m.at |->
                                        IF p < pointers THEN m.at[p] + 8 ELSE m.at[p]]]
  IN after[iterations * (n + 1)].out
=============================================================================
