----------------------------- MODULE SyntaxTree -----------------------------
(***************************************************************************)
(* The expressions of the syntax tree.  Each constructor gives the node    *)
(* that the parser or the semantic analysis creates, with the type that it *)
(* has then: NoType where the node is created before its type is known.    *)
(***************************************************************************)
EXTENDS TypeSystem

Fatal(why) == [k |-> "Fatal", why |-> why, ty |-> NoType]

Crash(why) == [k |-> "Crash", why |-> why, ty |-> NoType]

Failed(e) == e.k \in {"Fatal", "Crash"}

(* A visitor that fails stops the program: of the subtrees it visits in    *)
(* this order the first failure stands, and else the node.                 *)
Unless(subtrees, node) ==
  LET failed == {i \in DOMAIN subtrees : Failed(subtrees[i])}
  IN  IF failed = {} THEN node
      ELSE subtrees[CHOOSE i \in failed : \A j \in failed : i <= j]

-----------------------------------------------------------------------------

BoolLiteral(v) == [k |-> "Bool", ty |-> Builtin("Bool"), value |-> v]

CharLiteral(v) == [k |-> "Char", ty |-> Builtin("Char"), value |-> v]

IntegerLiteral(kind, v) == [k |-> "Integer", ty |-> Builtin(kind), value |-> v]

FloatLiteral(kind, v) == [k |-> "Float", ty |-> Builtin(kind), value |-> v]

NullLiteral == [k |-> "Null", ty |-> PointerTo(Builtin("Void"))]

StringLiteral(v) == [k |-> "String", ty |-> PointerTo(Builtin("Char")), value |-> v]

(* Mutant: the operands change places.                                     *)
BinaryOpSwapped(op, lhs, rhs) ==
  [k |-> "Binary", ty |-> lhs.ty, op |-> op, lhs |-> rhs, rhs |-> lhs]

BinaryOp(op, lhs, rhs) ==
  [k |-> "Binary", ty |-> lhs.ty, op |-> op, lhs |-> lhs, rhs |-> rhs]

UnaryOp(op, expr) == [k |-> "Unary", ty |-> expr.ty, op |-> op, expr |-> expr]

AccessExpr(base, name) ==
  [k |-> "Access", ty |-> NoType, base |-> base, name |-> name, field |-> 0]

CallExpr(callee, args) ==
  [k |-> "Call", ty |-> callee.ty, callee |-> callee, args |-> args]

CastExpr(ty, expr) == [k |-> "Cast", ty |-> ty, expr |-> expr]

ParenExpr(expr) == [k |-> "Paren", ty |-> expr.ty, expr |-> expr]

RefExpr(name) == [k |-> "Ref", ty |-> NoType, name |-> name, defn |-> "None"]

SizeofExpr(target) == [k |-> "Sizeof", ty |-> Builtin("UInt64"), target |-> target]

SubscriptExpr(base, index) ==
  [k |-> "Subscript", ty |-> base.ty, base |-> base, index |-> index]

-----------------------------------------------------------------------------

Literals == {"Bool", "Char", "Integer", "Float", "Null", "String", "Sizeof"}

NumericalComparisons == {"Eq", "NEq", "Lt", "LtEq", "Gt", "GtEq"}

LogicalComparisons == {"LogicAnd", "LogicOr"}

IsComparison(op) == op \in NumericalComparisons \union LogicalComparisons

(* Expr::is_constant and its overrides.                                    *)
RECURSIVE IsConstant(_)
IsConstant(e) ==
  \/ e.k \in Literals
  \/ e.k = "Binary" /\ IsConstant(e.lhs) /\ IsConstant(e.rhs)
  \/ e.k = "Unary" /\ (e.op = "AddressOf" \/ IsConstant(e.expr))
  \/ e.k \in {"Cast", "Paren"} /\ IsConstant(e.expr)

(* Expr::is_lvalue and its overrides: an lvalue in parentheses is none.    *)
IsLValue(e) ==
  \/ e.k \in {"Access", "Subscript"}
  \/ e.k = "Unary" /\ e.op = "Dereference"
  \/ e.k = "Ref" /\ e.defn \in {"Parameter", "Variable", "Global"}
=============================================================================
