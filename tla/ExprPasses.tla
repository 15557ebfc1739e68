---------------------------- MODULE ExprPasses -----------------------------
(***************************************************************************)
(* The passes of Expr over an expression's tree, the code that is made of  *)
(* the tree, and how it is interpreted (exprfilter.cpp).  An instruction   *)
(* is [op, imm, dst, src]: src is the sequence of the registers it reads,  *)
(* dst is -1 if it makes none.                                             *)
(***************************************************************************)
LOCAL INSTANCE Integers
LOCAL INSTANCE Sequences
LOCAL INSTANCE FiniteSets
LOCAL INSTANCE SequencesExt
LOCAL INSTANCE FiniteSetsExt
LOCAL INSTANCE ExprMachine
LOCAL INSTANCE ExprTree
LOCAL Narrow == INSTANCE ExprCompiler128
LOCAL Wide == INSTANCE ExprCompiler256

-----------------------------------------------------------------------------
(* How the terms of a sum and the factors of a product are collected       *)
(* (ExponentMap and AdditiveSequence). A factor is known by its value      *)
(* number k, and index[k + 1] is its tree.                                 *)

At(index, k) == index[k + 1]

\* std::sort of a few elements puts each at its place among those before it.
LOCAL Sorted(s, less(_, _)) ==
  LET insert(done, x) ==
        InsertAt(done, 1 + Max({0} \cup {k \in DOMAIN done : \A j \in {1, k} : ~less(x, done[j])}), x)
  IN FoldLeft(insert, <<>>, s)
LOCAL InOrder(s, less(_, _)) == \A k \in 1 .. Len(s) - 1 : ~less(s[k + 1], s[k])

-----------------------------------------------------------------------------
(* A product: [map, coeff], the exponent of each factor and a number       *)

\* Complex values, then loads, then constants.  Of two loads the first clip's comes
\* first, and the others are not ordered.
CanonicalCompare(index, a, b) ==
  LET x == At(index, a[1])
      y == At(index, b[1])
      category(n) == IF isConstant(n) THEN 2 ELSE IF n.op \in Loads THEN 1 ELSE 0
  IN IF a[1] = b[1] THEN Less(a[2], b[2])
     ELSE IF category(x) # category(y) THEN category(x) < category(y)
     ELSE CASE category(x) = 2 -> Less(x.imm, y.imm)
            [] category(x) = 1 -> x.imm[1] = 0 /\ y.imm[1] # 0
            [] category(x) = 0 -> a[1] < b[1]

LOCAL Merged(f, g) ==
  LET of(h, k) == IF k \in DOMAIN h THEN h[k] ELSE Zero
  IN [k \in DOMAIN f \cup DOMAIN g |-> Plus(of(f, k), of(g, k))]
LOCAL isPower(n) == n.op = "POW" /\ isConstant(R(n))

\* The factors of n ** e, as far as powers, products and quotients go.
RECURSIVE expandOnePass(_, _, _)
expandOnePass(index, n, e) ==
  CASE isPower(n) -> expandOnePass(index, L(n), Times(e, R(n).imm))
    [] n.op = "MUL" -> Merged(expandOnePass(index, L(n), e), expandOnePass(index, R(n), e))
    [] n.op = "DIV" -> Merged(expandOnePass(index, L(n), e), expandOnePass(index, R(n), Neg(e)))
    [] OTHER -> [k \in {Num(index, n)} |-> e]

\* The factors in the order in which they are written.
RECURSIVE expandOrigSequence(_)
expandOrigSequence(n) ==
  CASE isPower(n) -> expandOrigSequence(L(n))
    [] n.op \in {"MUL", "DIV"} -> expandOrigSequence(L(n)) \o expandOrigSequence(R(n))
    [] OTHER -> <<n>>

\* The constants go into the coefficient.
combineConstants(index, m) ==
  LET constants == {k \in DOMAIN m.map : isConstant(At(index, k))}
      value(k) == Pow(At(index, k).imm, m.map[k])
  IN [map |-> [k \in DOMAIN m.map \ constants |-> m.map[k]],
      coeff |-> FoldLeft(LAMBDA c, k : Times(c, value(k)), m.coeff, SetToSeq(constants))]

numTermsOf(m) == Cardinality(DOMAIN m.map) + 1

LOCAL Flat(index, m) ==
  Sorted([k \in 1 .. Cardinality(DOMAIN m.map) |->
           LET key == SetToSortSeq(DOMAIN m.map, <)[k] IN <<key, m.map[key]>>],
         LAMBDA a, b : CanonicalCompare(index, a, b))

LOCAL Product(index, flat, coeff) ==
  LET power(k) == Node("POW", <<At(index, flat[k][1]), Constant(flat[k][2])>>)
      product[k \in 1 .. Len(flat)] ==
        IF k = 1 THEN power(1) ELSE Node("MUL", <<product[k - 1], power(k)>>)
  IN IF flat = <<>> THEN Constant(coeff)
     ELSE Node("MUL", <<product[Len(flat)], Constant(coeff)>>)
emitProduct(index, m) == Product(index, Flat(index, m), m.coeff)

\* std::lexicographical_compare.
LOCAL Lexicographical(f, g, less(_, _)) ==
  LET apart(k) == \E s \in {<<f, g>>, <<g, f>>} : less(s[1][k], s[2][k])
      first(unequal) ==
        IF unequal = {} THEN Len(f) < Len(g) ELSE less(f[Min(unequal)], g[Min(unequal)])
  IN first({k \in DOMAIN f \cap DOMAIN g : apart(k)})
canonicalOrder(index, m1, m2) ==
  Lexicographical(Flat(index, m1), Flat(index, m2), LAMBDA a, b : CanonicalCompare(index, a, b))

-----------------------------------------------------------------------------
(* A sum: the products in order, and a number                              *)

\* A product without factors is part of the number; products of the same factors are
\* one, at the place of the first, and gone if their numbers cancel.
expandSum(index, terms) ==
  LET scalar(m) == DOMAIN m.map = {}
      plus(c, m) == Plus(c, m.coeff)
      products == SelectSeq(terms, LAMBDA m : ~scalar(m))
      same(m) == SelectSeq(products, LAMBDA p : p.map = m.map)
      first == {k \in DOMAIN products : \A j \in 1 .. k - 1 : products[j].map # products[k].map}
      merged == [k \in DOMAIN products |->
                  [products[k] EXCEPT !.coeff =
                    IF k \in first THEN FoldLeft(plus, Zero, same(products[k])) ELSE Zero]]
  IN [terms |-> SelectSeq(merged, LAMBDA m : m.coeff # Zero),
      scalar |-> FoldLeft(plus, Zero, SelectSeq(terms, scalar))]

\* A sum without products is 0: its number is lost.
emitSum(index, sum) ==
  LET added[k \in 1 .. Len(sum.terms)] ==
        IF k = 1 THEN emitProduct(index, sum.terms[1])
        ELSE Node("ADD", <<added[k - 1], emitProduct(index, sum.terms[k])>>)
  IN IF sum.terms = <<>> THEN Constant(Zero)
     ELSE Node(IF Less(sum.scalar, Zero) THEN "SUB" ELSE "ADD",
               <<added[Len(sum.terms)], Constant(Abs(sum.scalar))>>)

RECURSIVE leavesOf(_, _, _, _)
leavesOf(n, plus, minus, sign) ==
  IF n.op \notin {plus, minus} THEN <<<<n, sign>>>>
  ELSE leavesOf(L(n), plus, minus, sign)
       \o leavesOf(R(n), plus, minus, IF n.op = minus THEN -sign ELSE sign)

\* Mutant: as many terms as there were are enough.
notLonger(terms, leaves) == terms <= leaves
\* How many terms there are, and how many there were.
shorter(terms, leaves) == terms < leaves

\* <<the sum n as it is to be written>>, or nothing if it may stay.
analyzeAdditiveExpression(index, n) ==
  LET leaves == leavesOf(n, "ADD", "SUB", 1)
      term(leaf) == combineConstants(index, [map |-> expandOnePass(index, leaf[1], One),
                                             coeff |-> Number(leaf[2])])
      sum == expandSum(index, [k \in DOMAIN leaves |-> term(leaves[k])])
      less(a, b) == canonicalOrder(index, a, b)
  IN IF shorter(Len(sum.terms) + 1, Len(leaves)) \/ ~InOrder(sum.terms, less)
     THEN <<emitSum(index, [sum EXCEPT !.terms = Sorted(sum.terms, less)])>>
     ELSE <<>>

analyzeMultiplicativeExpression(index, n) ==
  LET leaves == leavesOf(n, "MUL", "DIV", 1)
      product == combineConstants(index, [map |-> expandOnePass(index, n, One), coeff |-> One])
      written == expandOrigSequence(n)
      pairs == [k \in DOMAIN written |-> <<Num(index, written[k]), One>>]
      divided == \E k \in DOMAIN leaves : leaves[k][2] = -1
  IN IF \/ shorter(numTermsOf(product), Len(leaves))
        \/ ~InOrder(pairs, LAMBDA a, b : CanonicalCompare(index, a, b))
        \/ divided
     THEN <<emitProduct(index, product)>>
     ELSE <<>>

-----------------------------------------------------------------------------
\* From the root down, the first sum or product that is to be written differently,
\* even if it comes out as it was.
RECURSIVE visit(_, _, _)
visit(index, n, under) ==
  LET top(ops) == n.op \in ops /\ under \notin ops
      new == CASE top({"ADD", "SUB"}) -> analyzeAdditiveExpression(index, n)
               [] top({"MUL", "DIV"}) -> analyzeMultiplicativeExpression(index, n)
               [] OTHER -> <<>>
      kids == [k \in DOMAIN n.kids |-> visit(index, n.kids[k], n.op)]
      changed == {k \in DOMAIN kids : kids[k].changed}
  IN IF new # <<>> THEN [node |-> new[1], changed |-> TRUE]
     ELSE IF changed = {} THEN [node |-> n, changed |-> FALSE]
     ELSE LET k == CHOOSE k \in changed : \A j \in changed : k <= j
          IN [node |-> [n EXCEPT !.kids[k] = kids[k].node], changed |-> TRUE]
applyAlgebraicOptimizations(tree) == visit(numbered(tree, <<>>), tree, "")

-----------------------------------------------------------------------------
(* A pass that goes from the leaves up tries its rules at each node, one   *)
(* after the other, where each sees what the ones before it made of the    *)
(* node.                                                                   *)

LOCAL HALF == Ratio(1, 2)
LOCAL Two == Number(2)

\* The node as it is, with other kids; and the two sides of a MUX exchanged.
LOCAL With(n, kids) == [n EXCEPT !.kids = kids]
LOCAL Swapped(n) == With(n, <<R(n), L(n)>>)

\* What the other order of the operands, or the negation, makes of a comparison.
LOCAL negation == [EQ |-> "NEQ", LT |-> "NLT", LE |-> "NLE", NEQ |-> "EQ", NLT |-> "LT", NLE |-> "LE"]

\* Each is a rule of the source, in its order: the node that the rule makes of n.
LOCAL LocalRule(rule, n) ==
  CASE rule = 1 /\ ~isConstant(n) /\ isConstantExpr(n) -> Constant(evalConstantExpr(n))
    [] rule = 2 /\ n.op \in {"ADD", "MUL"} /\ isConstant(L(n)) /\ ~isConstant(R(n)) -> Swapped(n)
    [] rule = 3 /\ \/ n.op = "MUL" /\ isConstantOf(R(n), Zero)
                   \/ n.op = "DIV" /\ isConstantOf(L(n), Zero) -> Constant(Zero)
    [] rule = 4 /\ n.op = "SQRT" -> Node("POW", <<L(n), Constant(HALF)>>)
    [] rule = 5 /\ \/ n.op = "LOG" /\ L(n).op = "EXP"
                   \/ n.op = "EXP" /\ L(n).op = "LOG" -> L(L(n))
    [] rule = 6 /\ n.op = "POW" /\ isConstantOf(R(n), Zero) -> Constant(One)
    [] rule = 7 /\ n.op = "POW" /\ L(n).op = "POW" ->
         With(n, <<L(L(n)), Node("MUL", <<R(L(n)), R(n)>>)>>)
    [] rule = 8 /\ n.op = "TERNARY" /\ isConstant(L(n)) ->
         IF Positive(L(n).imm) THEN L(R(n)) ELSE R(R(n))
    [] rule = 9 /\ n.op = "TERNARY" /\ L(n).op \in {"LE", "NLT"} ->
         With(n, <<[L(n) EXCEPT !.op = negation[L(n).op]], Swapped(R(n))>>)
    [] rule = 10 /\ n.op = "TERNARY" /\ L(n).op = "NOT" -> With(n, <<L(L(n)), Swapped(R(n))>>)
    [] rule = 11 /\ n.op = "NOT" /\ L(n).op \in Comparisons ->
         [L(n) EXCEPT !.op = negation[L(n).op]]
    [] OTHER -> n

LOCAL CleanupRule(rule, n) ==
  CASE \/ rule = 1 /\ n.op \in {"ADD", "SUB"} /\ isConstantOf(R(n), Zero)
       \/ rule = 2 /\ n.op \in {"MUL", "DIV"} /\ isConstantOf(R(n), One)
       \/ rule = 3 /\ n.op = "POW" /\ isConstantOf(R(n), One) -> L(n)
    [] OTHER -> n

\* x ** exponent as a product, halved as evenly as it goes.
RECURSIVE emitIntegerPow(_, _)
emitIntegerPow(n, exponent) ==
  IF exponent = 1 THEN n
  ELSE LET half == (exponent + 1) \div 2
       IN Node("MUL", <<emitIntegerPow(n, half), emitIntegerPow(n, exponent - half)>>)

\* under is the operation that n is an operand of.
LOCAL StrengthRule(rule, n, under) ==
  LET mul(a, b) == Node("MUL", <<a, b>>)
      div(a, b) == Node("DIV", <<a, b>>)
      quotient(x) == x.op = "DIV"
      inverse(x) == x.op = "DIV" /\ isConstantOf(L(x), One)
      power == n.op = "POW" /\ isConstant(R(n))
      exponent == R(n).imm
  IN CASE rule = 1 /\ n.op = "SUB" /\ isConstantOf(L(n), Zero) -> Node("NEG", <<R(n)>>)
       [] rule = 2 /\ n.op \in {"MUL", "DIV"} /\ isConstantOf(R(n), Number(-1)) ->
            Node("NEG", <<L(n)>>)
       [] rule = 3 /\ n.op \in {"ADD", "SUB"} /\ R(n).op = "NEG" ->
            Node(IF n.op = "ADD" THEN "SUB" ELSE "ADD", <<L(n), L(R(n))>>)
       [] rule = 4 /\ n.op = "ADD" /\ L(n).op = "NEG" -> Node("SUB", <<R(n), L(L(n))>>)
       [] rule = 5 /\ n.op = "NEG" /\ L(n).op = "SUB" -> Swapped(L(n))
       [] rule = 6 /\ n.op = "MUL" /\ isConstantOf(R(n), Two) /\ under # "ADD" ->
            Node("ADD", <<L(n), L(n)>>)
       [] rule = 7 /\ quotient(n) /\ isConstant(R(n)) -> mul(L(n), Constant(Over(One, R(n).imm)))
       [] rule = 8 /\ n.op = "MUL" /\ inverse(L(n)) -> div(R(n), R(L(n)))
       [] rule = 9 /\ n.op = "MUL" /\ inverse(R(n)) -> div(L(n), R(R(n)))
       [] rule = 10 /\ n.op = "MUL" /\ quotient(L(n)) -> div(mul(L(L(n)), R(n)), R(L(n)))
       [] rule = 11 /\ n.op = "MUL" /\ quotient(R(n)) -> div(mul(L(n), L(R(n))), R(R(n)))
       [] rule = 12 /\ quotient(n) /\ quotient(R(n)) -> div(mul(L(n), R(R(n))), L(R(n)))
       [] rule = 13 /\ quotient(n) /\ quotient(L(n)) -> div(L(L(n)), mul(R(L(n)), R(n)))
       [] rule = 14 /\ power /\ Defined(exponent) /\ ~isInteger(exponent)
            /\ isInteger(Times(exponent, Two)) ->
            Node("SQRT", <<With(n, <<L(n), Constant(Times(exponent, Two))>>)>>)
       [] rule = 15 /\ power /\ isInteger(exponent) /\ Less(exponent, Zero) ->
            div(Constant(One), With(n, <<L(n), Constant(Neg(exponent))>>))
       [] rule = 16 /\ power /\ isInteger(exponent) /\ Less(Zero, exponent) ->
            emitIntegerPow(L(n), exponent[1])
       [] OTHER -> n

\* refs[v + 1] is the number of nodes that had the value number v.
LOCAL FusionRule(rule, n, refs) ==
  LET canElide(x) == refs[n.num + 1] > 1 \/ refs[x.num + 1] <= 1
      product(x) == x.op = "MUL" /\ canElide(x)
      fma(op, a, bc) == [n EXCEPT !.op = op, !.kids = <<a, [bc EXCEPT !.op = "MUX"]>>]
  IN CASE rule = 1 /\ n.op = "ADD" /\ product(R(n)) -> fma("FMADD", L(n), R(n))
       [] rule = 2 /\ n.op = "ADD" /\ product(L(n)) -> fma("FMADD", R(n), L(n))
       [] rule = 3 /\ n.op = "SUB" /\ product(R(n)) -> fma("FNMADD", L(n), R(n))
       [] rule = 4 /\ n.op = "SUB" /\ product(L(n)) -> fma("FMSUB", R(n), L(n))
       [] rule = 5 /\ n.op = "MUL" /\ L(n).op \in {"ADD", "SUB"} /\ isConstant(R(n))
            /\ isConstant(R(L(n))) /\ canElide(L(n)) ->
            [n EXCEPT !.op = L(n).op,
                      !.kids = <<[L(n) EXCEPT !.op = "MUL", !.kids = <<L(L(n)), R(n)>>],
                                 [R(L(n)) EXCEPT !.imm = Times(@, R(n).imm)]>>]
       \* The other kinds of FMA are not recognised.
       [] rule = 6 /\ n.op = "NEG" /\ L(n).op = "FMADD" /\ canElide(L(n)) ->
            [n EXCEPT !.op = "FNMSUB", !.kids = L(n).kids]
       [] OTHER -> n

-----------------------------------------------------------------------------
LOCAL Rule(pass, rule, n, under, refs) ==
  CASE pass = "local" -> LocalRule(rule, n)
    [] pass = "cleanup" -> CleanupRule(rule, n)
    [] pass = "strength" -> StrengthRule(rule, n, under)
    [] pass = "fusion" -> FusionRule(rule, n, refs)

\* -a + b = b - a does not count as a change.
LOCAL Quiet(pass, rule) == pass = "strength" /\ rule = 4

RECURSIVE postorder(_, _, _, _)
postorder(pass, n, under, refs) ==
  LET kids == [k \in DOMAIN n.kids |-> postorder(pass, n.kids[k], n.op, refs)]
      below == [node |-> With(n, [k \in DOMAIN kids |-> kids[k].node]),
                changed |-> \E k \in DOMAIN kids : kids[k].changed]
      after[rule \in 0 .. 16] ==
        IF rule = 0 THEN below
        ELSE LET before == after[rule - 1]
                 new == Rule(pass, rule, before.node, under, refs)
             IN [node |-> new,
                 changed |-> before.changed \/ (new # before.node /\ ~Quiet(pass, rule))]
  IN IF below.node.op = "MUX" THEN below ELSE after[16]

applyLocalOptimizations(tree) == postorder("local", tree, "", <<>>)
applyAlgebraicCleanup(tree) == postorder("cleanup", tree, "", <<>>)
applyStrengthReduction(tree) == postorder("strength", tree, "", <<>>)

RECURSIVE occurrences(_, _)
occurrences(n, v) ==
  LET below == [k \in DOMAIN n.kids |-> occurrences(n.kids[k], v)]
  IN FoldLeft(+, IF n.op # "MUX" /\ n.num = v THEN 1 ELSE 0, below)

applyOpFusion(tree) ==
  LET distinct == numbered(tree, <<>>)
      all == applyValueNumbering(tree)
      fused == postorder("fusion", all, "", [k \in DOMAIN distinct |-> occurrences(all, k - 1)])
  IN [fused EXCEPT !.node = withoutNumbers(@)]

\* From the root down; what is below a change is left for the next time.
RECURSIVE compareVisit(_, _)
compareVisit(n, under) ==
  LET less == L(n).op \in {"LT", "LE"}
      \* The two values that are compared are the two that are chosen from.
      chosen == IF <<L(L(n)), R(L(n))>> = R(n).kids THEN "same"
                ELSE IF <<R(L(n)), L(L(n))>> = R(n).kids THEN "other" ELSE "neither"
  IN CASE n.op \in Comparisons /\ L(n) = R(n) ->
            Constant(IF n.op \in {"EQ", "LE", "NLT"} THEN One ELSE Zero)
       [] n.op = "TERNARY" /\ L(R(n)) = R(R(n)) -> L(R(n))
       [] n.op = "TERNARY" /\ L(n).op \in {"LT", "LE", "NLE", "NLT"} /\ chosen # "neither"
            /\ L(R(n)) # R(R(n)) ->
            Node(IF less = (chosen = "same") THEN "MIN" ELSE "MAX", L(n).kids)
       [] n.op \in {"LT", "NLE"} /\ under \in {"AND", "OR", "XOR", "TERNARY"} /\ L(n) # R(n) ->
            Node("SUB", IF n.op = "LT" THEN <<R(n), L(n)>> ELSE n.kids)
       [] OTHER -> With(n, [k \in DOMAIN n.kids |-> compareVisit(n.kids[k], n.op)])
applyComparisonOptimizations(tree) == compareVisit(tree, "")

-----------------------------------------------------------------------------
(* The code *)

\* An instruction for each value, after those of its operands; format is that of the
\* pixels, [op, bits].
compile(tree, format) ==
  LET values == numbered(tree, <<>>)
      instruction(k) ==
        LET of == Operands(values[k])
        IN [op |-> values[k].op, imm |-> values[k].imm, dst |-> k - 1,
            src |-> [j \in DOMAIN of |-> Num(values, of[j])]]
  IN Append([k \in DOMAIN values |-> instruction(k)],
            [op |-> format.op, imm |-> <<format.bits>>, dst |-> -1, src |-> <<Len(values) - 1>>])

\* Mutant: the next instruction is not looked at.
lastUseEarly(code, i, r) == \A j \in i + 2 .. Len(code) : r \notin Range(code[j].src)
\* The instruction i is the last that reads the register r.
lastUse(code, i, r) == \A j \in i + 1 .. Len(code) : r \notin Range(code[j].src)

\* A register that is not read again is free for a result, its own instruction's too;
\* the number that the result would have had is then free as well.
renameRegisters(code) ==
  LET after[i \in 0 .. Len(code)] ==
        IF i = 0 THEN [code |-> <<>>, table |-> <<>>, free |-> {}]
        ELSE
        LET s == after[i - 1]
            insn == code[i]
            now(r) == IF r \in DOMAIN s.table THEN s.table[r] ELSE r
            dead == {r \in Range(insn.src) : lastUse(code, i, r)}
            free == s.free \cup {now(r) : r \in dead}
            reused == insn.dst >= 0 /\ free # {}
            dst == IF reused THEN Min(free) ELSE insn.dst
        IN [code |-> Append(s.code, [insn EXCEPT !.dst = dst,
                                                 !.src = [k \in DOMAIN insn.src |-> now(insn.src[k])]]),
            table |-> IF reused THEN [r \in DOMAIN s.table \cup {insn.dst} |->
                                       IF r = insn.dst THEN dst ELSE s.table[r]]
                      ELSE s.table,
            free |-> IF reused THEN (free \ {dst}) \cup {insn.dst} ELSE free]
  IN after[Len(code)].code

-----------------------------------------------------------------------------
(* ExprInterpreter *)

\* To the range of the pixels, and then to an integer.
clamp_int(x, depth) == Rounded(Lesser(Larger(x, Zero), Number(2 ^ depth - 1)))

Registers(code) ==
  LET maxreg == Max({0} \cup {code[i].dst : i \in DOMAIN code}) IN [r \in 0 .. maxreg |-> Zero]

\* What x is stored as: a float as it is.
stored(op, bits, x) ==
  IF ~Defined(x) \/ op = "MEM_STORE_F32" THEN x ELSE Number(clamp_int(x, bits))

\* The registers after so many instructions.  The pixels are those of the clips at one
\* place.
executed(code, pixels, count) ==
  LET after[i \in 0 .. count] ==
        IF i = 0 THEN Registers(code)
        ELSE LET insn == code[i]
                 registers == after[i - 1]
                 value == CASE insn.op \in Loads -> Number(pixels[insn.imm[1] + 1])
                            [] insn.op = "CONSTANT" -> insn.imm
                            [] OTHER -> operation(insn.op, [k \in DOMAIN insn.src |->
                                                             registers[insn.src[k]]])
             IN [registers EXCEPT ![insn.dst] = value]
  IN after[count]

eval(code, pixels) ==
  LET store == code[Len(code)]
  IN stored(store.op, store.imm[1], executed(code, pixels, Len(code) - 1)[store.src[1]])

-----------------------------------------------------------------------------
(* A row.  cpu is what the processor has and the level that the user       *)
(* allows: "none", "sse2" or "avx2".                                       *)

\* The compiler for the wider registers is chosen.
make_compiler(cpu) == cpu.avx2 /\ cpu.level = "avx2"

\* Compiled code goes over whole groups of eight pixels, into the padding.
exprGetFrame(code, cpu, pixels) ==
  LET width == Len(pixels)
      numInputs == Len(pixels[1])
      niterations == (width + 7) \div 8
      padded(x) == pixels[((x - 1) % width) + 1]
      rows == [p \in 0 .. numInputs |-> [x \in 1 .. 8 * niterations |->
                IF p = 0 THEN Undefined ELSE Number(padded(x)[p])]]
      out == IF make_compiler(cpu) THEN Wide!main(code, numInputs, rows, niterations)
             ELSE Narrow!main(cpu, code, numInputs, rows, niterations)
  IN [x \in 1 .. width |-> IF cpu.level = "none" THEN eval(code, pixels[x]) ELSE out[x]]
=============================================================================
