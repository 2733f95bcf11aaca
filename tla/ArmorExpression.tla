--------------------------- MODULE ArmorExpression --------------------------
(***************************************************************************)
(* The match expressions of Cloud Armor (armor/expression.ts): the parser,   *)
(* what a policy may be written with, which rules wait for the body, and     *)
(* the evaluation.  A token is a pair of a kind and a text; a node of the    *)
(* tree has a kind, a name and the nodes below it.                           *)
(***************************************************************************)
EXTENDS Absent, Integers, FiniteSets, Sequences, SequencesExt

CONSTANTS
  ExpressionTrees,     (* the expressions written                            *)
  MaxSubexpressions,   (* MAX_SUBEXPRESSIONS                                 *)
  Bodies,              (* the bodies of a request                            *)
  Signatures           (* the signatures of the rule set "r"                 *)

ASSUME ArmorExpressionAssumption ==
  MaxSubexpressions \in Nat /\ Bodies \subseteq STRING /\ Signatures \subseteq STRING

Node(kind, name, kids) == [k |-> kind, s |-> name, kids |-> kids]

(* Every node of a tree, as often as it occurs                               *)
RECURSIVE NodeSeq(_)
NodeSeq(node) == FoldLeft(LAMBDA found, kid : found \o NodeSeq(kid), <<node>>, node.kids)
NodesOf(tree) == Range(NodeSeq(tree))

-----------------------------------------------------------------------------
(* The parser: a result is a node and the position behind it, 0 if the text  *)
(* is no expression.                                                         *)

Parsed(node, pos) == [node |-> node, pos |-> pos]
NoParse == Parsed(Node("none", "", <<>>), 0)
NotParsed(result) == result.pos = 0
TokenAt(tokens, pos) == IF pos <= Len(tokens) THEN tokens[pos] ELSE <<"eof", "">>
IsMark(tokens, pos, marks) == TokenAt(tokens, pos)[1] = "mark" /\ TokenAt(tokens, pos)[2] \in marks

OrderOf == [or |-> "and", and |-> "compare", compare |-> "add", add |-> "unary"]
MarksOf == [or |-> {"||"}, and |-> {"&&"}, add |-> {"+"},
            compare |-> {"==", "!=", "<", ">", "<=", ">="}]

RECURSIVE ParseLevel(_, _, _), ParseTail(_, _, _), ParsePostfix(_, _), ParseItems(_, _, _, _)

(* The loops of parseOr(), parseAnd() and parseAdd(); comparisons do not     *)
(* chain, and "in" is refused.                                               *)
ParseTail(level, tokens, left) ==
  IF NotParsed(left) \/ (level = "compare" /\ IsMark(tokens, left.pos, {"in"})) THEN NoParse
  ELSE IF ~IsMark(tokens, left.pos, MarksOf[level]) THEN left
  ELSE LET right == ParseLevel(OrderOf[level], tokens, left.pos + 1)
           both == Node("binary", tokens[left.pos][2], <<left.node, right.node>>)
       IN IF NotParsed(right) THEN NoParse
          ELSE IF level = "compare" THEN Parsed(both, right.pos)
          ELSE ParseTail(level, tokens, Parsed(both, right.pos))

ParseUnary(tokens, pos) ==
  LET arg == ParseLevel("unary", tokens, pos + 1) IN
  IF NotParsed(arg) THEN NoParse
  ELSE Parsed(Node("unary", tokens[pos][2], <<arg.node>>), arg.pos)

(* parseArgList(), parseList(): nodes up to a closing mark                   *)
ParseItems(tokens, pos, closing, found) ==
  IF found = <<>> /\ IsMark(tokens, pos, {closing}) THEN Parsed(found, pos + 1)
  ELSE LET item == ParseLevel("or", tokens, pos) IN
       CASE NotParsed(item) -> NoParse
         [] ~NotParsed(item) /\ IsMark(tokens, item.pos, {","}) ->
              ParseItems(tokens, item.pos + 1, closing, Append(found, item.node))
         [] ~NotParsed(item) /\ IsMark(tokens, item.pos, {closing}) ->
              Parsed(Append(found, item.node), item.pos + 1)
         [] OTHER -> NoParse

(* parseMap() of one entry, whose key is a name or a string                  *)
ParseEntry(tokens, pos) ==
  IF TokenAt(tokens, pos)[1] \notin {"ident", "str"} \/ ~IsMark(tokens, pos + 1, {":"}) THEN NoParse
  ELSE LET value == ParseLevel("or", tokens, pos + 2) IN
       IF NotParsed(value) \/ ~IsMark(tokens, value.pos, {"}"}) THEN NoParse
       ELSE Parsed(Node("map", tokens[pos][2], <<value.node>>), value.pos + 1)

ParsePrimaryOf(tokens, pos) ==
  CASE TokenAt(tokens, pos)[1] \in {"bool", "str", "num", "ident"} ->
         Parsed(Node(tokens[pos][1], tokens[pos][2], <<>>), pos + 1)
    [] IsMark(tokens, pos, {"("}) ->
         LET inner == ParseLevel("or", tokens, pos + 1) IN
         IF NotParsed(inner) \/ ~IsMark(tokens, inner.pos, {")"}) THEN NoParse
         ELSE Parsed(inner.node, inner.pos + 1)
    [] IsMark(tokens, pos, {"["}) ->
         LET items == ParseItems(tokens, pos + 1, "]", <<>>) IN
         IF NotParsed(items) THEN NoParse ELSE Parsed(Node("list", "", items.node), items.pos)
    [] IsMark(tokens, pos, {"{"}) -> ParseEntry(tokens, pos + 1)
    [] OTHER -> NoParse

ParsePostfix(tokens, object) ==
  CASE NotParsed(object) -> NoParse
    [] ~NotParsed(object) /\ IsMark(tokens, object.pos, {"."}) ->
         IF TokenAt(tokens, object.pos + 1)[1] # "ident" THEN NoParse
         ELSE ParsePostfix(tokens, Parsed(Node("member", tokens[object.pos + 1][2], <<object.node>>),
                                          object.pos + 2))
    [] ~NotParsed(object) /\ IsMark(tokens, object.pos, {"["}) ->
         LET key == ParseLevel("or", tokens, object.pos + 1) IN
         IF NotParsed(key) \/ ~IsMark(tokens, key.pos, {"]"}) THEN NoParse
         ELSE ParsePostfix(tokens, Parsed(Node("index", "", <<object.node, key.node>>), key.pos + 1))
    [] ~NotParsed(object) /\ IsMark(tokens, object.pos, {"("}) ->
         LET args == ParseItems(tokens, object.pos + 1, ")", <<>>) IN
         IF NotParsed(args) THEN NoParse
         ELSE ParsePostfix(tokens, Parsed(Node("call", "", <<object.node>> \o args.node), args.pos))
    [] OTHER -> object

ParseLevel(level, tokens, pos) ==
  CASE level = "unary" /\ IsMark(tokens, pos, {"!", "-"}) -> ParseUnary(tokens, pos)
    [] level = "unary" /\ ~IsMark(tokens, pos, {"!", "-"}) ->
         ParsePostfix(tokens, ParsePrimaryOf(tokens, pos))
    [] OTHER -> ParseTail(level, tokens, ParseLevel(OrderOf[level], tokens, pos))

ParseExpressionAst(tokens) ==
  LET result == ParseLevel("or", tokens, 1) IN
  IF result.pos = Len(tokens) + 1 THEN result ELSE NoParse

-----------------------------------------------------------------------------
(* What may be written, and what waits for the body                          *)

StringMethods == {"contains", "startsWith", "lower", "matches"}
KnownFunctions == {"has", "int", "size", "evaluatePreconfiguredWaf", "evaluateThreatIntelligence"}
OriginFields == {"ip", "region_code"}
RequestFields == {"headers", "method", "query", "body", "params"}

Callee(call) == call.kids[1]
Args(call) == Tail(call.kids)
CallName(call) == IF Callee(call).k \in {"ident", "member"} THEN Callee(call).s ELSE ""
IsIdent(node, name) == node.k = "ident" /\ node.s = name
FieldOf(node, name) == node.k = "member" /\ IsIdent(node.kids[1], name)
Comparisons == {"==", "!=", "<", ">", "<=", ">="}

IsSubexpression(node) == (node.k = "binary" /\ node.s \in Comparisons) \/ node.k = "call"
IsMatches(node) == node.k = "call" /\ CallName(node) = "matches"

DeclaredIn(node) ==
  /\ ~IsIdent(node, "query_params")
  /\ FieldOf(node, "request") => node.s \in RequestFields
  /\ FieldOf(node, "origin") => node.s \in OriginFields

QueryIsString(node) ==
  /\ node.k = "index" => ~(FieldOf(node.kids[1], "request") /\ node.kids[1].s = "query")
  /\ node.k = "member" /\ FieldOf(node.kids[1], "request") /\ node.kids[1].s = "query" =>
       node.s \in StringMethods

CallsKnown(node) ==
  node.k = "call" =>
    /\ Callee(node).k = "ident" => Callee(node).s \in KnownFunctions
    /\ Callee(node).k = "member" => Callee(node).s \in StringMethods

(* checkWriteTimeConstraints()                                               *)
ExpressionAccepted(tree) ==
  /\ \A node \in NodesOf(tree) : DeclaredIn(node) /\ QueryIsString(node) /\ CallsKnown(node)
  /\ Len(SelectSeq(NodeSeq(tree), IsSubexpression)) <= MaxSubexpressions
  /\ Len(SelectSeq(NodeSeq(tree), IsMatches)) <= 1

RequestFieldName(node) ==
  CASE FieldOf(node, "request") -> node.s
    [] node.k = "index" /\ IsIdent(node.kids[1], "request") /\ node.kids[2].k = "str" -> node.kids[2].s
    [] OTHER -> ""

UsesBodyPhaseByMember(tree) ==  \* mutant: request['body'] goes unseen
  \E node \in NodesOf(tree) : FieldOf(node, "request") /\ node.s \in {"body", "params"}

(* astUsesBodyPhase()                                                        *)
UsesBodyPhase(tree) ==
  \E node \in NodesOf(tree) :
    \/ RequestFieldName(node) \in {"body", "params"}
    \/ node.k = "call" /\ CallName(node) = "evaluatePreconfiguredWaf"

-----------------------------------------------------------------------------
(* The evaluation.  A request is its body and the signatures that matched;   *)
(* an object is named by where it is found.                                  *)

Val(type, v) == [t |-> type, v |-> v]
EvalError(why) == Val("error", why)
BoolVal(b) == Val("bool", b)
TypeError == EvalError("type")

FieldsOfObject(request) ==
  [env |-> [request |-> Val("object", "request"), origin |-> Val("object", "origin")],
   origin |-> [ip |-> Val("str", "1"), region_code |-> Val("str", "de")],
   request |-> [headers |-> Val("object", "headers"), method |-> Val("str", "GET"),
                query |-> Val("str", "q"), body |-> Val("str", request.body),
                params |-> Val("object", "params")],
   headers |-> [host |-> Val("str", "de")],
   params |-> [q |-> Val("str", request.body)]]

ListIndex(key) ==
  CASE key.t = "num" -> key.v + 1
    [] key.t = "str" /\ key.v \in {"0", "1"} -> IF key.v = "0" THEN 1 ELSE 2
    [] OTHER -> 0

HasKey(object, key, request) ==
  CASE object.t = "object" -> key.t = "str" /\ key.v \in DOMAIN FieldsOfObject(request)[object.v]
    [] object.t = "map" -> key.t = "str" /\ key.v = object.v[1]
    [] object.t = "list" -> ListIndex(key) \in DOMAIN object.v
    [] OTHER -> FALSE

(* A key that is missing is an error that names the object.                  *)
Lookup(object, key, request) ==
  CASE object.t = "error" -> object
    [] key.t = "error" /\ object.t # "error" -> key
    [] HasKey(object, key, request) /\ object.t = "object" -> FieldsOfObject(request)[object.v][key.v]
    [] HasKey(object, key, request) /\ object.t = "map" -> object.v[2]
    [] HasKey(object, key, request) /\ object.t = "list" -> object.v[ListIndex(key)]
    [] OTHER -> EvalError(IF object.t = "object" THEN object.v ELSE "key")

SizeOfValue(value, request) ==
  CASE value.t \in {"str", "list"} -> Val("num", Len(value.v))
    [] value.t = "map" -> Val("num", 1)
    [] value.t = "object" -> Val("num", Cardinality(DOMAIN FieldsOfObject(request)[value.v]))
    [] OTHER -> TypeError

IntOfValue(value) ==
  CASE value.t = "num" -> value
    [] value.t = "str" /\ value.v = "1" -> Val("num", 1)
    [] OTHER -> TypeError

(* Strings of which none is found within another                             *)
MethodOf(name, target, arg) ==
  CASE target.t = "error" -> target
    [] target.t \notin {"error", "str"} -> TypeError
    [] name = "lower" /\ target.t = "str" -> IF target.v = "GET" THEN Val("str", "get") ELSE target
    [] OTHER -> IF arg.t = "error" THEN arg
                ELSE IF arg.t # "str" THEN TypeError ELSE BoolVal(target.v = arg.v \/ arg.v = "")

CompareOf(op, left, right) ==
  LET same == left.t = right.t /\ left.t # "list" /\ left.v = right.v IN
  CASE op = "==" -> BoolVal(same)
    [] op = "!=" -> BoolVal(~same)
    [] op = "+" -> IF left.t # "str" \/ right.t # "str" THEN TypeError
                   ELSE Val("str", left.v \o right.v)
    [] OTHER -> IF left.t # "num" \/ right.t # "num" THEN TypeError
                ELSE BoolVal(CASE op = "<" -> left.v < right.v [] op = ">" -> left.v > right.v
                               [] op = "<=" -> left.v <= right.v [] op = ">=" -> left.v >= right.v)

AsBool(value) == IF value.t \in {"bool", "error"} THEN value ELSE TypeError

(* evalPreconfiguredWaf() of the rule set "r", with what a map literal of    *)
(* one entry can say: a signature opted in is asked at sensitivity 0 only,   *)
(* which takes a second entry.                                               *)
ListOf(value) == value.t = "list" /\ \A item \in Range(value.v) : item.t = "str"

Tuned(options, matched) ==
  CASE options.v[1] = "sensitivity" -> options.v[2] = Val("num", 1) /\ matched # {}
    [] options.v[1] = "opt_out_rule_ids" ->
         ListOf(options.v[2]) /\ matched \ {item.v : item \in Range(options.v[2].v)} # {}
    [] OTHER -> FALSE

WafOf(ruleSet, options, request) ==
  LET matched == IF ruleSet.v = "r" THEN request.waf ELSE {} IN
  CASE ruleSet.t # "str" -> TypeError
    [] ruleSet.t = "str" /\ options.t = "error" -> options
    [] ruleSet.t = "str" /\ options.t = "none" -> BoolVal(matched # {})
    [] ruleSet.t = "str" /\ options.t = "map" -> BoolVal(Tuned(options, matched))
    [] OTHER -> BoolVal(FALSE)

RECURSIVE EvalAst(_, _)

(* evalHas(): only what is neither a member nor an index may fail            *)
EvalHas(arg, request) ==
  LET object == EvalAst(arg.kids[1], request)
      key == IF arg.k = "member" THEN Val("str", arg.s) ELSE EvalAst(arg.kids[2], request) IN
  IF arg.k \notin {"member", "index"} THEN BoolVal(EvalAst(arg, request).t # "error")
  ELSE IF object.t = "error" THEN object
  ELSE IF key.t = "error" THEN key ELSE BoolVal(HasKey(object, key, request))

FirstError(values) ==
  LET errors == SelectSeq(values, LAMBDA value : value.t = "error") IN
  IF errors = <<>> THEN Val("none", "") ELSE errors[1]

(* evalCall(): by the name alone, so that functions take no target           *)
EvalCall(call, request) ==
  LET name == CallName(call)
      args == Args(call)
      Arg(n) == EvalAst(args[n], request)
      error == FirstError([n \in DOMAIN args |-> Arg(n)]) IN
  CASE name \in {"has", "int", "size"} /\ args = <<>> -> EvalError("argument")
    [] name = "has" /\ args # <<>> -> EvalHas(args[1], request)
    [] name \in {"int", "size"} /\ args # <<>> ->
         IF Arg(1).t = "error" THEN Arg(1)
         ELSE IF name = "int" THEN IntOfValue(Arg(1)) ELSE SizeOfValue(Arg(1), request)
    [] name = "evaluatePreconfiguredWaf" /\ Len(args) \in {1, 2} ->
         WafOf(Arg(1), IF Len(args) = 2 THEN Arg(2) ELSE Val("none", ""), request)
    [] \/ name = "evaluateThreatIntelligence"
       \/ name = "evaluatePreconfiguredWaf" /\ Len(args) \notin {1, 2} ->
         IF error.t = "error" THEN error ELSE BoolVal(FALSE)
    [] name \in StringMethods /\ Callee(call).k = "member" ->
         IF name # "lower" /\ args = <<>> THEN EvalError("argument")
         ELSE MethodOf(name, EvalAst(Callee(call).kids[1], request),
                       IF name = "lower" THEN Val("none", "") ELSE Arg(1))
    [] OTHER -> EvalError("undeclared")

EvalAst(node, request) ==
  LET Sub(n) == EvalAst(node.kids[n], request)
      error == FirstError([n \in DOMAIN node.kids |-> Sub(n)]) IN
  CASE node.k = "bool" -> BoolVal(node.s = "true")
    [] node.k = "str" -> Val("str", node.s)
    [] node.k = "num" -> Val("num", IF node.s = "0" THEN 0 ELSE 1)
    [] node.k = "ident" -> IF node.s \in {"request", "origin"} THEN Val("object", node.s)
                           ELSE EvalError("undeclared")
    [] node.k = "member" -> Lookup(Sub(1), Val("str", node.s), request)
    [] node.k = "index" -> Lookup(Sub(1), Sub(2), request)
    [] node.k = "call" -> EvalCall(node, request)
    [] node.k = "list" -> IF error.t = "error" THEN error
                          ELSE Val("list", [n \in DOMAIN node.kids |-> Sub(n)])
    [] node.k = "map" -> IF error.t = "error" THEN error ELSE Val("map", <<node.s, Sub(1)>>)
    [] node.k = "unary" ->
         IF Sub(1).t = "error" THEN Sub(1)
         ELSE IF node.s = "!" THEN (IF Sub(1).t = "bool" THEN BoolVal(~Sub(1).v) ELSE TypeError)
         ELSE IF Sub(1).t = "num" THEN Val("num", -Sub(1).v) ELSE TypeError
    [] node.k = "binary" /\ node.s \in {"&&", "||"} ->
         LET left == AsBool(Sub(1)) IN
         IF left.t = "error" \/ left.v = (node.s = "||") THEN left ELSE AsBool(Sub(2))
    [] OTHER -> IF error.t = "error" THEN error
                ELSE CompareOf(node.s, Sub(1), Sub(2))


-----------------------------------------------------------------------------
(* The text a tree is written as, with no parentheses but the needed         *)
Mark(text) == << <<"mark", text>> >>
Strength(node) ==
  CASE node.k = "binary" -> CASE node.s = "||" -> 1 [] node.s = "&&" -> 2 [] node.s = "+" -> 4
                              [] OTHER -> 3
    [] node.k = "unary" -> 5
    [] OTHER -> 6

RECURSIVE TokensOf(_, _)
ListTokens(nodes) ==
  FoldLeft(LAMBDA text, n : text \o (IF n = 1 THEN <<>> ELSE Mark(",")) \o TokensOf(nodes[n], 1),
           <<>>, [n \in DOMAIN nodes |-> n])

TokensOf(node, least) ==
  LET level == Strength(node)
      Kid(n, weakest) == TokensOf(node.kids[n], weakest)
      bare ==
        CASE node.k \in {"bool", "str", "num", "ident"} -> << <<node.k, node.s>> >>
          [] node.k = "member" -> Kid(1, 6) \o Mark(".") \o << <<"ident", node.s>> >>
          [] node.k = "index" -> Kid(1, 6) \o Mark("[") \o Kid(2, 1) \o Mark("]")
          [] node.k = "call" -> Kid(1, 6) \o Mark("(") \o ListTokens(Args(node)) \o Mark(")")
          [] node.k = "list" -> Mark("[") \o ListTokens(node.kids) \o Mark("]")
          [] node.k = "map" -> Mark("{") \o << <<"str", node.s>> >> \o Mark(":") \o Kid(1, 1) \o Mark("}")
          [] node.k = "unary" -> Mark(node.s) \o Kid(1, 5)
          [] node.k = "binary" -> Kid(1, IF level = 3 THEN 4 ELSE level) \o Mark(node.s)
                                    \o Kid(2, level + 1)
  IN IF level < least THEN Mark("(") \o bare \o Mark(")") ELSE bare

Requests == [body : Bodies, waf : SUBSET Signatures]

VARIABLE assessment  (* an expression, how it is parsed, what it evaluates to *)

ArmorExpressionInit == assessment = NoRow

(* validateExpression(), expressionUsesBodyPhase() and evaluateExpression()  *)
AssessesExpression(tree) ==
  LET parsed == ParseExpressionAst(TokensOf(tree, 1)) IN
  assessment' = [tree |-> tree, parsed |-> parsed.node,
                 accepted |-> ExpressionAccepted(parsed.node),
                 bodyPhase |-> UsesBodyPhase(parsed.node),
                 values |-> [request \in Requests |-> EvalAst(parsed.node, request)]]

ExpressionAssessed == assessment # NoRow /\ assessment' = NoRow

ArmorExpressionNext ==
  \/ assessment = NoRow /\ \E tree \in ExpressionTrees : AssessesExpression(tree)
  \/ ExpressionAssessed

ArmorExpressionSpec == ArmorExpressionInit /\ [][ArmorExpressionNext]_assessment

-----------------------------------------------------------------------------
(* A reference to an object that is nothing but the object of a field        *)
IsObjectIdent(node) == node.k = "ident" /\ node.s \in {"request", "origin"}
NamesItsField(node) == node.k = "member" \/ (node.k = "index" /\ node.kids[2].k = "str")
EveryReference(tree, Allowed(_)) ==
  /\ ~IsObjectIdent(tree)
  /\ \A node \in NodesOf(tree) : \A n \in DOMAIN node.kids :
       IsObjectIdent(node.kids[n]) => n = 1 /\ Allowed(node)

(* The parser gives every text the tree it was written from: precedence,     *)
(* association, comparisons that do not chain, calls, indices and members    *)
(* behind any primary.                                                       *)
ParsedAsWritten == assessment # NoRow => assessment.parsed = assessment.tree

(* A rule that is not of the body phase is decided before the body is cut    *)
(* off to the inspection window (evaluate.ts lines 30-42): what it says may  *)
(* not depend on the body, or it would see what "body-phase rules cannot     *)
(* see" (request.ts lines 92-96).                                            *)
HeaderPhaseIgnoresTheBody ==
  assessment # NoRow /\ ~assessment.bodyPhase
      /\ EveryReference(assessment.tree, NamesItsField) =>
    \A one, other \in Requests : assessment.values[one] = assessment.values[other]

(* What is accepted when it is written raises no undeclared reference when   *)
(* it is evaluated: such a rule would never match, and nothing would say so. *)
AcceptedRefersToDeclared ==
  assessment # NoRow /\ assessment.accepted
      /\ EveryReference(assessment.tree, LAMBDA node : node.k = "member")
      /\ (\A node \in NodesOf(assessment.tree) :
            node.k = "ident" => IsObjectIdent(node) \/ node.s \in KnownFunctions) =>
    \A request \in Requests :
      assessment.values[request] \notin {EvalError("undeclared"), EvalError("request"), EvalError("origin")}

(* The options of evaluatePreconfiguredWaf() narrow what it matches, they    *)
(* never let it match what the rule set alone would not.                     *)
WafOptionsOnlyNarrow ==
  assessment # NoRow /\ assessment.tree.k = "call" =>
    LET call == assessment.tree IN
    CallName(call) = "evaluatePreconfiguredWaf" /\ Len(Args(call)) = 2 =>
      \A request \in Requests :
        assessment.values[request] = BoolVal(TRUE) =>
          EvalCall([call EXCEPT !.kids = SubSeq(@, 1, 2)], request) = BoolVal(TRUE)

(* A rule is read as it was written, and decided in the phase it belongs to.*)
ExpressionInvariant ==
  /\ ParsedAsWritten /\ HeaderPhaseIgnoresTheBody
  /\ AcceptedRefersToDeclared /\ WafOptionsOnlyNarrow
=============================================================================
