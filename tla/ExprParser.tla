----------------------------- MODULE ExprParser -----------------------------
(***************************************************************************)
(* The recursive descent of the parser over the tokens of an expression.   *)
(* Each parse_ function is an operator from the position of the current    *)
(* token to the node it returns, e, and the position it leaves, p.  A fatal*)
(* error leaves the position Stop, where nothing can be consumed.          *)
(***************************************************************************)
EXTENDS SyntaxTree, Integers

Stop(ts) == Len(ts) + 2

Curr(ts, p) == IF p \in DOMAIN ts THEN ts[p] ELSE <<"EndOfFile", "">>

Match(ts, p, kind) == Curr(ts, p)[1] = kind

MatchWord(ts, p, words) == Match(ts, p, "Identifier") /\ Curr(ts, p)[2] \in words

(* A call of log::fatal.                                                   *)
Quit(ts) == [e |-> Fatal("syntax"), p |-> Stop(ts)]

(* expect(kind) || log::fatal(...), then the result.                       *)
Expecting(ts, p, kind, result) ==
  IF Match(ts, p, kind) THEN [e |-> result, p |-> p + 1] ELSE Quit(ts)

-----------------------------------------------------------------------------

GetUnaryOp(kind) ==
  CASE kind = "Bang"  -> "LogicNot"
    [] kind = "Minus" -> "Negate"
    [] kind = "Star"  -> "Dereference"
    [] kind = "And"   -> "AddressOf"
    [] kind = "Tilde" -> "Not"
    [] OTHER          -> "Unknown"

GetBinaryOp(kind) ==
  CASE kind = "EqEq"       -> "Eq"      [] kind = "BangEq"  -> "NEq"
    [] kind = "Eq"         -> "Assign"  [] kind = "Plus"    -> "Add"
    [] kind = "Minus"      -> "Sub"     [] kind = "Star"    -> "Mul"
    [] kind = "Slash"      -> "Div"     [] kind = "Percent" -> "Mod"
    [] kind = "Left"       -> "Lt"      [] kind = "LeftEq"  -> "LtEq"
    [] kind = "Right"      -> "Gt"      [] kind = "RightEq" -> "GtEq"
    [] kind = "LeftLeft"   -> "LShift"  [] kind = "RightRight" -> "RShift"
    [] kind = "AndAnd"     -> "LogicAnd" [] kind = "OrOr"   -> "LogicOr"
    [] kind \in {"And", "Or", "Xor"} -> kind
    [] OTHER               -> "Unknown"

GetOpPrecedence(op) ==
  CASE op \in {"Mul", "Div", "Mod"}          -> 11
    [] op \in {"Add", "Sub"}                 -> 10
    [] op \in {"LShift", "RShift"}           -> 9
    [] op \in {"Lt", "LtEq", "Gt", "GtEq"}   -> 8
    [] op \in {"Eq", "NEq"}                  -> 7
    [] op = "And"      -> 6  [] op = "Or"      -> 5  [] op = "Xor"    -> 4
    [] op = "LogicAnd" -> 3  [] op = "LogicOr" -> 2  [] op = "Assign" -> 1
    [] OTHER           -> -1

(* Mutant: an operator of the same precedence goes on, too.                *)
TighterOrSame(op, next) == GetOpPrecedence(op) <= GetOpPrecedence(next)

(* Whether the right operand of an operator goes on with the next one.     *)
Tighter(op, next) == GetOpPrecedence(op) < GetOpPrecedence(next)

(* The precedence at which the right operand of an operator goes on, when  *)
(* the operator after it is tighter: that of the surrounding call plus one,*)
(* and not that of the operator plus one.                                  *)
TighterPrecedence(precedence, op) == precedence + 1

-----------------------------------------------------------------------------

BuiltinNames ==
  [void |-> "Void", bool |-> "Bool", char |-> "Char",
   s8 |-> "Int8", s16 |-> "Int16", s32 |-> "Int32", s64 |-> "Int64",
   u8 |-> "UInt8", u16 |-> "UInt16", u32 |-> "UInt32", u64 |-> "UInt64",
   f32 |-> "Float32", f64 |-> "Float64"]

(* parse_type_specifier, with the type as e.                               *)
RECURSIVE ParseTypeSpecifier(_, _)
ParseTypeSpecifier(ts, p) ==
  CASE MatchWord(ts, p, {"mut"}) ->
         LET t == ParseTypeSpecifier(ts, p + 1) IN [t EXCEPT !.e = WithMut(@)]
    [] Match(ts, p, "Star") ->
         LET t == ParseTypeSpecifier(ts, p + 1) IN [t EXCEPT !.e = PointerTo(@)]
    [] Match(ts, p, "OpenBrack") /\ Match(ts, p + 1, "Integer")
       /\ Match(ts, p + 2, "CloseBrack") /\ Curr(ts, p + 1)[2] > 0 ->
         LET t == ParseTypeSpecifier(ts, p + 3)
         IN  [t EXCEPT !.e = ArrayOf(@, Curr(ts, p + 1)[2])]
    [] Match(ts, p, "Identifier") ->
         LET name == Curr(ts, p)[2]
         IN  [e |-> IF name \in DOMAIN BuiltinNames
                    THEN Builtin(BuiltinNames[name]) ELSE Deferred(name),
              p |-> p + 1]
    [] OTHER -> [e |-> NoType, p |-> Stop(ts)]

(* The kind a suffix gives an integer literal, or a floating point one.    *)
IntegerSuffixes ==
  [b |-> "Int8", ub |-> "UInt8", s |-> "Int16", us |-> "UInt16",
   i |-> "Int32", ui |-> "UInt32", l |-> "Int64", ul |-> "UInt64"]

FloatSuffixes == [f |-> "Float32", d |-> "Float64"]

ParseNumber(ts, p, suffixes, default, Literal(_, _)) ==
  LET value == Curr(ts, p)[2]
  IN  IF MatchWord(ts, p + 1, DOMAIN suffixes)
      THEN [e |-> Literal(suffixes[Curr(ts, p + 1)[2]], value), p |-> p + 2]
      ELSE [e |-> Literal(default, value), p |-> p + 1]

-----------------------------------------------------------------------------

RECURSIVE ParseInitialExpression(_, _), ParsePrefixOperator(_, _),
          ParseBinaryOperator(_, _, _, _), ParsePostfix(_, _, _),
          ParseArgs(_, _, _)

ParseParentheses(ts, p) ==
  LET inner == ParseInitialExpression(ts, p + 1)
  IN  Expecting(ts, inner.p, "CloseParen", ParenExpr(inner.e))

ParseTypeCast(ts, p) ==
  LET type  == ParseTypeSpecifier(ts, p + 2)
      inner == ParseInitialExpression(ts, type.p + 2)
  IN  IF /\ Match(ts, p + 1, "Left")
         /\ Match(ts, type.p, "Right") /\ Match(ts, type.p + 1, "OpenParen")
      THEN Expecting(ts, inner.p, "CloseParen", CastExpr(type.e, inner.e))
      ELSE Quit(ts)

ParseSizeofOperator(ts, p) ==
  LET type == ParseTypeSpecifier(ts, p + 2)
  IN  IF Match(ts, p + 1, "OpenParen")
      THEN Expecting(ts, type.p, "CloseParen", SizeofExpr(type.e))
      ELSE Quit(ts)

(* One token makes each of these nodes.                                    *)
ParseBooleanLiteral(ts, p) ==
  [e |-> BoolLiteral(IF MatchWord(ts, p, {"true"}) THEN 1 ELSE 0), p |-> p + 1]

ParseNullPointerLiteral(ts, p) == [e |-> NullLiteral, p |-> p + 1]

ParseCharacterLiteral(ts, p) == [e |-> CharLiteral(Curr(ts, p)[2]), p |-> p + 1]

ParseStringLiteral(ts, p) == [e |-> StringLiteral(Curr(ts, p)[2]), p |-> p + 1]

ParseNamedReference(ts, p) == [e |-> RefExpr(Curr(ts, p)[2]), p |-> p + 1]

ParseIntegerLiteral(ts, p) ==
  ParseNumber(ts, p, IntegerSuffixes, "Int64", IntegerLiteral)

ParseFloatingPointLiteral(ts, p) ==
  ParseNumber(ts, p, FloatSuffixes, "Float64", FloatLiteral)

ParseIdentifierExpression(ts, p) ==
  CASE MatchWord(ts, p, {"cast"})          -> ParseTypeCast(ts, p)
    [] MatchWord(ts, p, {"null"})          -> ParseNullPointerLiteral(ts, p)
    [] MatchWord(ts, p, {"true", "false"}) -> ParseBooleanLiteral(ts, p)
    [] MatchWord(ts, p, {"sizeof"})        -> ParseSizeofOperator(ts, p)
    [] OTHER                               -> ParseNamedReference(ts, p)

ParsePrimaryExpression(ts, p) ==
  CASE Match(ts, p, "Identifier") -> ParseIdentifierExpression(ts, p)
    [] Match(ts, p, "OpenParen")  -> ParseParentheses(ts, p)
    [] Match(ts, p, "Integer")    -> ParseIntegerLiteral(ts, p)
    [] Match(ts, p, "Float")      -> ParseFloatingPointLiteral(ts, p)
    [] Match(ts, p, "Character")  -> ParseCharacterLiteral(ts, p)
    [] Match(ts, p, "String")     -> ParseStringLiteral(ts, p)
    [] OTHER                      -> Quit(ts)

(* The arguments of a call, from after its parenthesis.                    *)
ParseArgs(ts, p, args) ==
  IF Match(ts, p, "CloseParen") THEN [e |-> args, p |-> p + 1]
  ELSE LET arg  == ParseInitialExpression(ts, p)
           more == Append(args, arg.e)
       IN  CASE Match(ts, arg.p, "CloseParen") -> [e |-> more, p |-> arg.p + 1]
             [] Match(ts, arg.p, "Comma")      -> ParseArgs(ts, arg.p + 1, more)
             [] OTHER                          -> [e |-> more, p |-> Stop(ts)]

(* The loop of parse_postfix_operator: expr is what it has so far.         *)
ParsePostfix(ts, p, expr) ==
  CASE Match(ts, p, "OpenBrack") ->
         LET index == ParseInitialExpression(ts, p + 1)
             sub   == Expecting(ts, index.p, "CloseBrack",
                                SubscriptExpr(expr, index.e))
         IN  ParsePostfix(ts, sub.p, sub.e)
    [] Match(ts, p, "OpenParen") ->
         LET args == ParseArgs(ts, p + 1, << >>)
         IN  ParsePostfix(ts, args.p, CallExpr(expr, args.e))
    [] Match(ts, p, "Dot") ->
         IF Match(ts, p + 1, "Identifier")
         THEN ParsePostfix(ts, p + 2, AccessExpr(expr, Curr(ts, p + 1)[2]))
         ELSE Quit(ts)
    [] OTHER -> [e |-> expr, p |-> p]

ParsePostfixOperator(ts, p) ==
  LET primary == ParsePrimaryExpression(ts, p)
  IN  ParsePostfix(ts, primary.p, primary.e)

ParsePrefixOperator(ts, p) ==
  LET op   == GetUnaryOp(Curr(ts, p)[1])
      base == ParsePrefixOperator(ts, p + 1)
  IN  IF op # "Unknown" THEN [e |-> UnaryOp(op, base.e), p |-> base.p]
      ELSE ParsePostfixOperator(ts, p)

(* One turn of the loop of parse_binary_operator, and the turns after it.  *)
ParseBinaryOperator(ts, p, base, precedence) ==
  LET op      == GetBinaryOp(Curr(ts, p)[1])
      operand == ParsePrefixOperator(ts, p + 1)
      next    == GetBinaryOp(Curr(ts, operand.p)[1])
      right   == IF Tighter(op, next)
                 THEN ParseBinaryOperator(ts, operand.p, operand.e,
                                          TighterPrecedence(precedence, op))
                 ELSE operand
  IN  IF op = "Unknown" \/ GetOpPrecedence(op) < precedence
      THEN [e |-> base, p |-> p]
      ELSE ParseBinaryOperator(ts, right.p, BinaryOp(op, base, right.e), precedence)

ParseInitialExpression(ts, p) ==
  LET first == ParsePrefixOperator(ts, p)
  IN  ParseBinaryOperator(ts, first.p, first.e, 0)

(* An expression ends where its statement or its definition does.          *)
Parsed(ts) ==
  LET whole == ParseInitialExpression(ts, 1)
  IN  IF Match(ts, whole.p, "Semi") THEN whole.e ELSE Fatal("syntax")
=============================================================================
