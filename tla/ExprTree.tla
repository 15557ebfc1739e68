------------------------------ MODULE ExprTree ------------------------------
(***************************************************************************)
(* Expressions of Expr (exprfilter.cpp): the tokens, and the tree that the *)
(* parser makes of them.  A token is the word by itself, <<"+">>, or       *)
(* <<"load", i>> for a clip's letter, <<"dup", k>>, <<"swap", k>>, or      *)
(* <<"number", n, d>>.                                                     *)
(*                                                                         *)
(* A node is [op, imm, kids, num]: imm is the number of a constant, <<i>>  *)
(* of a load; num is its value number, or -1.  The kinds of comparison and *)
(* of FMA are operations of their own here.  TERNARY and FMA have two      *)
(* kids, of which the second is a MUX with the other two operands.         *)
(***************************************************************************)
LOCAL INSTANCE Integers
LOCAL INSTANCE Sequences
LOCAL INSTANCE FiniteSets
LOCAL INSTANCE SequencesExt
LOCAL INSTANCE ExprMachine

Node(op, kids) == [op |-> op, imm |-> <<>>, kids |-> kids, num |-> -1]
Constant(v) == [op |-> "CONSTANT", imm |-> v, kids |-> <<>>, num |-> -1]
Load(op, i) == [op |-> op, imm |-> <<i>>, kids |-> <<>>, num |-> -1]
L(n) == n.kids[1]
R(n) == n.kids[2]

Loads == {"MEM_LOAD_U8", "MEM_LOAD_U16", "MEM_LOAD_F32"}
Comparisons == {"EQ", "LT", "LE", "NEQ", "NLT", "NLE"}
FMAs == {"FMADD", "FMSUB", "FNMADD", "FNMSUB"}

LOCAL simple ==
  {<<"+", "ADD">>, <<"-", "SUB">>, <<"*", "MUL">>, <<"/", "DIV">>, <<"sqrt", "SQRT">>,
   <<"abs", "ABS">>, <<"max", "MAX">>, <<"min", "MIN">>, <<"<", "LT">>, <<">", "NLE">>,
   <<"=", "EQ">>, <<">=", "NLT">>, <<"<=", "LE">>, <<"and", "AND">>, <<"or", "OR">>,
   <<"xor", "XOR">>, <<"not", "NOT">>, <<"?", "TERNARY">>, <<"exp", "EXP">>, <<"log", "LOG">>,
   <<"pow", "POW">>, <<"sin", "SIN">>, <<"cos", "COS">>}
\* The operation of a word; a load is renamed for the format of its clip.
decodeToken(token, formats) ==
  CASE token[1] = "load" -> IF token[2] < Len(formats) THEN formats[token[2] + 1] ELSE "undefined clip"
    [] token[1] = "number" -> "CONSTANT"
    [] token[1] = "dup" -> "DUP"
    [] token[1] = "swap" -> "SWAP"
    [] OTHER -> (CHOOSE s \in simple : s[1] = token[1])[2]

numOperands(op) ==
  CASE op \in Loads \cup {"CONSTANT", "DUP", "SWAP"} -> 0
    [] op \in {"SQRT", "ABS", "NOT", "EXP", "LOG", "SIN", "COS"} -> 1
    [] op = "TERNARY" -> 3
    [] OTHER -> 2

\* One token on the stack; an expression that is wrong stays so.
LOCAL parseToken(state, token, formats) ==
  LET stack == state.stack
      n == Len(stack)
      op == decodeToken(token, formats)
      arg(k) == stack[n - k]
      with(rest, node) == [ok |-> TRUE, stack |-> Append(SubSeq(stack, 1, rest), node)]
  IN CASE \/ ~state.ok
          \/ op = "undefined clip"
          \/ op \in {"DUP", "SWAP"} /\ token[2] >= n
          \/ n < numOperands(op) -> [ok |-> FALSE, stack |-> <<>>]
       [] OTHER ->
          CASE op = "DUP" -> with(n, arg(token[2]))
            [] op = "SWAP" ->
                 [ok |-> TRUE, stack |-> [stack EXCEPT ![n] = arg(token[2]), ![n - token[2]] = arg(0)]]
            [] op = "CONSTANT" -> with(n, Constant(Ratio(token[2], token[3])))
            [] op \in Loads -> with(n, Load(op, token[2]))
            [] numOperands(op) = 1 -> with(n - 1, Node(op, <<arg(0)>>))
            [] numOperands(op) = 2 -> with(n - 2, Node(op, <<arg(1), arg(0)>>))
            [] numOperands(op) = 3 -> with(n - 3, Node(op, <<arg(2), Node("MUX", <<arg(1), arg(0)>>)>>))

\* <<the tree>>, or nothing.
parseExpr(tokens, formats) ==
  LET after[i \in 0 .. Len(tokens)] ==
        IF i = 0 THEN [ok |-> TRUE, stack |-> <<>>]
        ELSE parseToken(after[i - 1], tokens[i], formats)
      end == after[Len(tokens)]
  IN IF end.ok /\ Len(end.stack) = 1 THEN end.stack ELSE <<>>

-----------------------------------------------------------------------------
(* Constants *)

isConstant(n) == n.op = "CONSTANT"
isConstantOf(n, v) == n.op = "CONSTANT" /\ n.imm = v
RECURSIVE isConstantExpr(_)
isConstantExpr(n) == n.op \notin Loads /\ \A k \in DOMAIN n.kids : isConstantExpr(n.kids[k])

\* An operation on the operands a, those under a MUX included.
operation(op, a) ==
  CASE op = "ADD" -> Plus(a[1], a[2])
    [] op = "SUB" -> Minus(a[1], a[2])
    [] op = "MUL" -> Times(a[1], a[2])
    [] op = "DIV" -> Over(a[1], a[2])
    [] op = "FMADD" -> Plus(Times(a[2], a[3]), a[1])
    [] op = "FMSUB" -> Minus(Times(a[2], a[3]), a[1])
    [] op = "FNMADD" -> Plus(Neg(Times(a[2], a[3])), a[1])
    [] op = "FNMSUB" -> Minus(Neg(Times(a[2], a[3])), a[1])
    [] op = "SQRT" -> Sqrt(a[1])
    [] op = "ABS" -> Abs(a[1])
    [] op = "NEG" -> Neg(a[1])
    [] op = "MAX" -> Larger(a[1], a[2])
    [] op = "MIN" -> Lesser(a[1], a[2])
    [] op = "EQ" -> Truth(a, a[1] = a[2])
    [] op = "LT" -> Truth(a, Less(a[1], a[2]))
    [] op = "LE" -> Truth(a, ~Less(a[2], a[1]))
    [] op = "NEQ" -> Truth(a, a[1] # a[2])
    [] op = "NLT" -> Truth(a, ~Less(a[1], a[2]))
    [] op = "NLE" -> Truth(a, Less(a[2], a[1]))
    [] op = "AND" -> Truth(a, Positive(a[1]) /\ Positive(a[2]))
    [] op = "OR" -> Truth(a, Positive(a[1]) \/ Positive(a[2]))
    [] op = "XOR" -> Truth(a, Positive(a[1]) # Positive(a[2]))
    [] op = "NOT" -> Truth(a, ~Positive(a[1]))
    [] op = "EXP" -> Exp(a[1])
    [] op = "LOG" -> Log(a[1])
    [] op = "POW" -> Pow(a[1], a[2])
    [] op = "SIN" -> Sin(a[1])
    [] op = "COS" -> Cos(a[1])
    [] op = "TERNARY" ->
         IF ~Defined(a[1]) THEN Undefined ELSE IF Positive(a[1]) THEN a[2] ELSE a[3]

Operands(n) ==
  IF Len(n.kids) = 2 /\ R(n).op = "MUX" THEN <<L(n), L(R(n)), R(R(n))>> ELSE n.kids

RECURSIVE evalConstantExpr(_)
evalConstantExpr(n) ==
  IF isConstant(n) THEN n.imm
  ELSE LET of == Operands(n) IN operation(n.op, [k \in DOMAIN of |-> evalConstantExpr(of[k])])

-----------------------------------------------------------------------------
(* Value numbers: equal subtrees have one number, in the order in which    *)
(* the tree's postorder comes to them.                                     *)

\* The distinct subtrees, in the order of their numbers, after those already seen.
RECURSIVE numbered(_, _)
numbered(n, seen) ==
  LET below == FoldLeft(LAMBDA s, kid : numbered(kid, s), seen, n.kids)
  IN IF n.op = "MUX" \/ \E k \in DOMAIN below : below[k] = n THEN below ELSE Append(below, n)

Num(seen, n) == (CHOOSE k \in DOMAIN seen : seen[k] = n) - 1

\* The tree with the numbers in its nodes; and without them.
RECURSIVE withNumbers(_, _)
withNumbers(n, seen) ==
  [n EXCEPT !.num = IF n.op = "MUX" THEN -1 ELSE Num(seen, n),
            !.kids = [k \in DOMAIN n.kids |-> withNumbers(n.kids[k], seen)]]
applyValueNumbering(n) == withNumbers(n, numbered(n, <<>>))

RECURSIVE withoutNumbers(_)
withoutNumbers(n) ==
  [n EXCEPT !.num = -1, !.kids = [k \in DOMAIN n.kids |-> withoutNumbers(n.kids[k])]]
=============================================================================
