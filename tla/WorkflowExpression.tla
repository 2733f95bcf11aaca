------------------------ MODULE WorkflowExpression ------------------------
(***************************************************************************)
(* The expressions of Cloud Workflows (execution/expressions.ts): a parser   *)
(* by precedence climbing that evaluates while it parses, checked against    *)
(* an evaluation of the syntax tree the text was printed from.  A lexeme     *)
(* is one character or one word; numbers have one digit, and "x" is a        *)
(* variable that is not in scope.                                            *)
(***************************************************************************)
EXTENDS Integers, Sequences, SequencesExt

CONSTANTS
  Digits,           (* the numbers written                                   *)
  ExpressionDepth,  (* EXPRESSION_DEPTH_LIMIT                                *)
  Wraps             (* bound: parentheses around a whole expression          *)

ASSUME ExpressionAssumption ==
  Digits \subseteq Nat /\ Wraps \subseteq Nat /\ ExpressionDepth \in Nat \ {0}

VARIABLES
  tree,       (* the expression                                              *)
  wrap,       (* parentheses around it                                       *)
  trailing,   (* a lexeme left over behind it, or none                       *)
  evaluated   (* what evaluateExpression() answers, empty before             *)

expressionVars == <<tree, wrap, trailing, evaluated>>

Num(v) == [t |-> "number", v |-> v]
Bool(b) == [t |-> "boolean", v |-> IF b THEN 1 ELSE 0]
Thrown == [t |-> "error", v |-> 0]
Truthy(value) == value.v # 0

-----------------------------------------------------------------------------
(* tokenize()                                                                *)

Op(name) == [t |-> "op", op |-> name]
Literal(n) == [t |-> "number", n |-> n]
IsOp(token, name) == token.t = "op" /\ token.op = name
DigitOf(lexeme) == CHOOSE n \in 0..9 : ToString(n) = lexeme
IsDigit(lexeme) == \E n \in 0..9 : ToString(n) = lexeme

(* A minus before a digit belongs to the number unless a value precedes it.  *)
MinusOfNumber(tokens) ==
  /\ tokens # <<>> /\ IsOp(Last(tokens), "-")
  /\ \/ Len(tokens) = 1
     \/ LET before == tokens[Len(tokens) - 1]
        IN before.t = "op" /\ before.op # ")" /\ before.op # "x"

TokenAppended(tokens, lexeme) ==
  IF ~IsDigit(lexeme) THEN Append(tokens, Op(lexeme))
  ELSE IF MinusOfNumber(tokens) THEN Append(Front(tokens), Literal(-DigitOf(lexeme)))
  ELSE Append(tokens, Literal(DigitOf(lexeme)))

Tokenize(text) == FoldLeft(TokenAppended, <<>>, text)

-----------------------------------------------------------------------------
(* The operators                                                             *)

StrictCompare(l, r, op) ==
  IF l.t # r.t THEN Thrown ELSE Bool(IF op = "==" THEN l.v = r.v ELSE l.v # r.v)
OrderedCompare(l, r, op) ==
  IF l.t # r.t THEN Thrown ELSE Bool(IF op = "<" THEN l.v < r.v ELSE l.v >= r.v)

Apply(op, l, r) ==
  CASE op = "or" -> Bool(Truthy(l) \/ Truthy(r))
    [] op = "and" -> Bool(Truthy(l) /\ Truthy(r))
    [] op \in {"==", "!="} -> StrictCompare(l, r, op)
    [] op \in {"<", ">="} -> OrderedCompare(l, r, op)
    [] op = "+" -> Num(l.v + r.v)
    [] op = "-" -> Num(l.v - r.v)
    [] op = "*" -> Num(l.v * r.v)

(* One level of the grammar: its operators and the level of its operands     *)
OperatorsOf == [or |-> {"or"}, and |-> {"and"}, comparison |-> {"==", "!=", "<", ">="},
                addSub |-> {"+", "-"}, mulDiv |-> {"*"}]
OperandOf == [or |-> "and", and |-> "not", comparison |-> "addSub", addSub |-> "mulDiv",
              mulDiv |-> "unary"]

-----------------------------------------------------------------------------
(* The parser.  A result is the value so far, the position behind it and the *)
(* nesting depth; an error is a value that ends everything.                  *)

Result(value, pos, depth) == [value |-> value, pos |-> pos, depth |-> depth]
Fail(pos, depth) == Result(Thrown, pos, depth)
Failed(result) == result.value = Thrown
At(tokens, pos, name) == pos <= Len(tokens) /\ IsOp(tokens[pos], name)

LeaveDepth(result) == [result EXCEPT !.depth = @ - 1]

RECURSIVE Parse(_, _, _, _), ParseRest(_, _, _)

ParseExpression(tokens, pos, depth) ==
  IF depth + 1 > ExpressionDepth THEN Fail(pos, depth)
  ELSE LeaveDepth(Parse("or", tokens, pos, depth + 1))

(* parsePrimary(): a number, a variable, or parentheses                      *)
ParsePrimary(tokens, pos, depth) ==
  IF pos > Len(tokens) THEN Fail(pos, depth)
  ELSE IF tokens[pos].t = "number" THEN Result(Num(tokens[pos].n), pos + 1, depth)
  ELSE IF ~IsOp(tokens[pos], "(") THEN Fail(pos, depth)
  ELSE LET inner == ParseExpression(tokens, pos + 1, depth)
       IN IF ~Failed(inner) /\ At(tokens, inner.pos, ")")
          THEN [inner EXCEPT !.pos = @ + 1] ELSE Fail(inner.pos, inner.depth)

Changed(result, value) == IF Failed(result) THEN result ELSE [result EXCEPT !.value = value]

Parse(level, tokens, pos, depth) ==
  CASE level = "not" ->
         IF At(tokens, pos, "not")
         THEN LET operand == Parse("not", tokens, pos + 1, depth)
              IN Changed(operand, Bool(~Truthy(operand.value)))
         ELSE Parse("comparison", tokens, pos, depth)
    [] level = "unary" ->
         IF At(tokens, pos, "-")
         THEN LET operand == Parse("unary", tokens, pos + 1, depth)
              IN Changed(operand, Num(-operand.value.v))
         ELSE ParsePrimary(tokens, pos, depth)
    [] OTHER -> ParseRest(level, tokens, Parse(OperandOf[level], tokens, pos, depth))

(* The loop of a level: operators of the level and their right operands, so  *)
(* that they associate to the left; both operands are always evaluated.      *)
ParseRest(level, tokens, left) ==
  IF Failed(left) \/ left.pos > Len(tokens) THEN left
  ELSE IF ~\E op \in OperatorsOf[level] : IsOp(tokens[left.pos], op) THEN left
  ELSE LET op == tokens[left.pos].op
           right == Parse(OperandOf[level], tokens, left.pos + 1, left.depth)
       IN IF Failed(right) THEN right
          ELSE ParseRest(level, tokens,
                         Result(Apply(op, left.value, right.value), right.pos, right.depth))

EvaluateExpression(text) ==
  LET tokens == Tokenize(text)
      result == ParseExpression(tokens, 1, 0)
  IN IF result.pos <= Len(tokens) THEN Thrown ELSE result.value

-----------------------------------------------------------------------------
(* Trees, their values, and their text with no parentheses but the needed    *)

Leaves == {[op |-> "number", n |-> n] : n \in Digits} \cup {[op |-> "x"]}
Precedence == [or |-> 1, and |-> 2, not |-> 3] @@ ("==" :> 4) @@ ("<" :> 4) @@ ("+" :> 5)
                @@ ("-" :> 5) @@ ("*" :> 6) @@ ("negative" :> 7) @@ ("number" :> 8) @@ ("x" :> 8)
BinaryOps == {"or", "and", "==", "<", "+", "-", "*"}
Grown(trees) ==
  {[op |-> op, arg |-> a] : op \in {"not", "negative"}, a \in trees}
    \cup {[op |-> op, l |-> l, r |-> r] : op \in BinaryOps, l \in trees, r \in Leaves}
    \cup {[op |-> op, l |-> l, r |-> r] : op \in BinaryOps, l \in Leaves, r \in trees}
Sums == {[op |-> op, l |-> l, r |-> r] : op \in {"+", "or"}, l \in Leaves, r \in Leaves}
Trees == Leaves \cup Grown(Leaves) \cup Grown(Grown(Leaves))
           \cup {[op |-> "*", l |-> l, r |-> r] : l \in Sums, r \in Sums}

RECURSIVE ValueOf(_), TextOf(_, _), Nesting(_, _)

ValueOf(e) ==
  CASE e.op = "number" -> Num(e.n)
    [] e.op = "x" -> Thrown
    [] e.op \in {"not", "negative"} ->
         LET value == ValueOf(e.arg)
         IN IF value = Thrown THEN Thrown
            ELSE IF e.op = "not" THEN Bool(value.v = 0) ELSE Num(-value.v)
    [] OTHER -> LET l == ValueOf(e.l)  r == ValueOf(e.r)
                IN IF l = Thrown \/ r = Thrown THEN Thrown ELSE Apply(e.op, l, r)

TextOf(e, least) ==
  LET level == Precedence[e.op]
      bare == CASE e.op = "number" -> <<ToString(e.n)>>
                [] e.op = "x" -> <<"x">>
                [] e.op = "not" -> <<"not">> \o TextOf(e.arg, level)
                [] e.op = "negative" -> <<"-">> \o TextOf(e.arg, level)
                [] OTHER -> TextOf(e.l, level) \o <<e.op>> \o TextOf(e.r, level + 1)
  IN IF level < least THEN <<"(">> \o bare \o <<")">> ELSE bare

(* How deep the parentheses of the text nest                                 *)
Nesting(e, least) ==
  LET level == Precedence[e.op]
      inner == CASE e.op \in {"number", "x"} -> 0
                 [] e.op \in {"not", "negative"} -> Nesting(e.arg, level)
                 [] OTHER -> LET l == Nesting(e.l, level)  r == Nesting(e.r, level + 1)
                             IN IF l >= r THEN l ELSE r
  IN IF level < least THEN inner + 1 ELSE inner

Text == [i \in 1..wrap |-> "("] \o TextOf(tree, 0) \o [i \in 1..wrap |-> ")"] \o trailing

ExpressionInit ==
  /\ tree \in Trees /\ wrap \in Wraps /\ trailing \in {<<>>, <<")">>, <<"1">>}
  /\ evaluated = <<>>

Evaluate == evaluated = <<>> /\ evaluated' = <<EvaluateExpression(Text)>>
              /\ UNCHANGED <<tree, wrap, trailing>>

ExpressionNext == Evaluate
ExpressionSpec == ExpressionInit /\ [][ExpressionNext]_expressionVars

(* The parser gives every expression the value of its tree: precedence,      *)
(* association to the left, the minus that tokenize() may have taken into a  *)
(* number and operands that throw although the other one would decide.  What *)
(* is left over and nesting beyond the limit are errors, nesting within it   *)
(* is none, however many parentheses stand side by side.                     *)
ParsedAsPrinted ==
  evaluated # <<>> =>
    evaluated[1] = IF trailing # <<>> \/ wrap + Nesting(tree, 0) + 1 > ExpressionDepth THEN Thrown
                   ELSE ValueOf(tree)
=============================================================================
