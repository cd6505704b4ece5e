---------------------------- MODULE ExprAnalysis ----------------------------
(***************************************************************************)
(* The symbol and the semantic analysis of expressions, and of the         *)
(* definitions and statements that an expression is the whole of.  Both are*)
(* visitors that set the types of nodes; here they map a tree to the tree  *)
(* they leave, or to the failure that stopped them.                        *)
(***************************************************************************)
EXTENDS SyntaxTree

CONSTANTS
  Values,      \* Values[name]: the defn (Defn::Kind) and type of what a name refers to
  TypeDefns,   \* TypeDefns[name]: the type a type definition gives a name
  Fields       \* Fields[struct]: the fields of a struct, <<name, type>>

-----------------------------------------------------------------------------
(* Symbol analysis.                                                        *)

(* resolve_type: NoType where it returns false.                            *)
RECURSIVE ResolveType(_)
ResolveType(t) ==
  CASE t.cls = "Pointer" ->
         LET to == ResolveType(t.pointee)
         IN  IF to = NoType THEN NoType ELSE [t EXCEPT !.pointee = to]
    [] t.cls = "Array" ->
         LET of == ResolveType(t.element)
         IN  IF of = NoType THEN NoType ELSE [t EXCEPT !.element = of]
    [] t.cls = "Deferred" ->
         IF t.name \in DOMAIN TypeDefns
         THEN [TypeDefns[t.name] EXCEPT !.mut = t.mut] ELSE NoType
    [] OTHER -> t

(* The struct that a value of type t is, or points to.                     *)
BaseStruct(t) == IF t.cls = "Pointer" THEN t.pointee ELSE t

FieldsNamed(struct, name) ==
  {i \in DOMAIN Fields[struct.name] : Fields[struct.name][i][1] = name}

(* The access to a field of the struct that type t is, or points to.       *)
AccessIn(e, t, base) ==
  LET struct == BaseStruct(t)
      found  == FieldsNamed(struct, e.name)
      field  == CHOOSE i \in found : TRUE
  IN  CASE t = NoType               -> Crash("base without a type")
        [] struct.cls # "Struct"    -> Fatal("base is no struct")
        [] found = {}               -> Fatal("no such field")
        [] OTHER -> [e EXCEPT !.base = base, !.field = field,
                              !.ty = Fields[struct.name][field][2]]

(* Mutant: the type is taken before the base is visited.                   *)
ResolveAccessEarly(e, base) == AccessIn(e, e.base.ty, base)

(* visit(AccessExpr): the field is looked up in the type that the base has *)
(* already, before the semantic analysis has set any.                      *)
ResolveAccess(e, base) == AccessIn(e, base.ty, base)

RECURSIVE Resolve(_)
Resolve(e) ==
  CASE e.k = "Ref" ->
         IF e.name \notin DOMAIN Values THEN Fatal("unresolved reference")
         ELSE [e EXCEPT !.defn = Values[e.name].defn, !.ty = Values[e.name].ty]
    [] e.k = "Access" ->
         LET base == Resolve(e.base) IN Unless(<<base>>, ResolveAccess(e, base))
    [] e.k = "Binary" ->
         LET l == Resolve(e.lhs)  r == Resolve(e.rhs)
         IN  Unless(<<l, r>>, [e EXCEPT !.lhs = l, !.rhs = r])
    [] e.k \in {"Unary", "Paren"} ->
         LET of == Resolve(e.expr) IN Unless(<<of>>, [e EXCEPT !.expr = of])
    [] e.k = "Cast" ->
         LET of == Resolve(e.expr)  to == ResolveType(e.ty)
         IN  Unless(<<of>>, IF to = NoType THEN Fatal("unresolved type")
                            ELSE [e EXCEPT !.expr = of, !.ty = to])
    [] e.k = "Sizeof" ->
         LET to == ResolveType(e.target)
         IN  IF to = NoType THEN Fatal("unresolved type")
             ELSE [e EXCEPT !.target = to]
    [] e.k = "Subscript" ->
         LET base == Resolve(e.base)  index == Resolve(e.index)
         IN  Unless(<<base, index>>, [e EXCEPT !.base = base, !.index = index])
    [] e.k = "Call" ->
         LET callee == Resolve(e.callee)
             args   == [i \in DOMAIN e.args |-> Resolve(e.args[i])]
         IN  Unless(<<callee>> \o args, [e EXCEPT !.callee = callee, !.args = args])
    [] OTHER -> e

-----------------------------------------------------------------------------
(* Semantic analysis.                                                      *)

IsBooleanEvaluable(t) == IsInteger(t) \/ IsFloat(t) \/ t.cls = "Pointer"

(* type_check; the mode Explicit has no use.                               *)
TypeCheck(actual, expected, mode) ==
  CASE Compare(actual, expected)       -> "Match"
    [] CanCast(actual, expected, TRUE) -> "Cast"
    [] mode = "Loose" /\ \/ IsInteger(actual) /\ expected.cls = "Pointer"
                         \/ actual.cls = "Pointer" /\ IsInteger(expected) -> "Match"
    [] OTHER                           -> "Mismatch"

(* A value where another type is expected: itself, a cast of it, or fatal. *)
Converted(e, expected, mode) ==
  LET check == TypeCheck(e.ty, expected, mode)
  IN  CASE check = "Match" -> e
        [] check = "Cast"  -> CastExpr(expected, e)
        [] OTHER           -> Fatal("type mismatch")

CheckBinary(e, l, r) ==
  LET rhs == Converted(r, l.ty, IF e.op \in {"Add", "Sub"}
                                THEN "Loose" ELSE "AllowImplicit")
      of(t) == [e EXCEPT !.lhs = l, !.rhs = rhs, !.ty = t]
  IN  Unless(<<l, r, rhs>>,
        CASE IsComparison(e.op)                  -> of(Builtin("Bool"))
          [] e.op = "Assign" /\ ~IsLValue(l)     -> Fatal("no lvalue")
          [] e.op = "Assign" /\ ~l.ty.mut        -> Fatal("immutable")
          [] OTHER                               -> of(l.ty))

CheckUnary(e, of) ==
  LET typed(t) == [e EXCEPT !.expr = of, !.ty = t]
      t == of.ty
  IN  CASE e.op = "Negate" /\ (IsInteger(t) \/ IsFloat(t))  -> typed(t)
        [] e.op = "Not" /\ IsInteger(t)                     -> typed(t)
        [] e.op = "LogicNot"                                -> typed(t)
        [] e.op = "AddressOf" /\ IsLValue(of)               -> typed(PointerTo(t))
        [] e.op = "Dereference" /\ t.cls = "Pointer"        -> typed(t.pointee)
        [] OTHER                                            -> Fatal("operand")

CheckCall(e, callee, args) ==
  LET F == callee.ty
      given == [i \in DOMAIN args |-> Converted(args[i], F.params[i], "AllowImplicit")]
      inOrder == [i \in 1 .. 2 * Len(args) |->
                    IF i % 2 = 1 THEN args[(i + 1) \div 2] ELSE given[i \div 2]]
  IN  CASE Failed(callee)               -> callee
        [] F.cls # "Function"           -> Fatal("no function")
        [] Len(args) # Len(F.params)    -> Fatal("argument count")
        [] OTHER -> Unless(inOrder, [e EXCEPT !.callee = callee, !.args = given,
                                              !.ty = F.ret])

CheckSubscript(e, base, index) ==
  LET typed(t) == [e EXCEPT !.base = base, !.index = index, !.ty = t]
  IN  CASE base.ty.cls = "Array"   -> typed(base.ty.element)
        [] base.ty.cls = "Pointer" -> typed(base.ty.pointee)
        [] OTHER                   -> Fatal("no array")

CheckCast(e, of) ==
  Unless(<<of>>, IF CanCast(of.ty, e.ty, FALSE) THEN [e EXCEPT !.expr = of]
                 ELSE Fatal("unsupported cast"))

CheckParen(e, of) == Unless(<<of>>, [e EXCEPT !.expr = of, !.ty = of.ty])

(* The base of an access is left as it is, and so are literals.            *)
RECURSIVE Check(_)
Check(e) ==
  CASE e.k = "Binary" -> CheckBinary(e, Check(e.lhs), Check(e.rhs))
    [] e.k = "Unary" ->
         LET of == Check(e.expr) IN Unless(<<of>>, CheckUnary(e, of))
    [] e.k = "Cast"  -> CheckCast(e, Check(e.expr))
    [] e.k = "Paren" -> CheckParen(e, Check(e.expr))
    [] e.k = "Call" ->
         CheckCall(e, Check(e.callee), [i \in DOMAIN e.args |-> Check(e.args[i])])
    [] e.k = "Subscript" ->
         LET base == Check(e.base)  index == Check(e.index)
         IN  Unless(<<base, index>>, CheckSubscript(e, base, index))
    [] OTHER -> e

(* A variable of type ty and its initializer.                              *)
CheckVariable(kind, ty, e) ==
  IF kind = "Global" /\ ~IsConstant(e) THEN Fatal("no constant")
  ELSE Converted([e EXCEPT !.ty = WithMut(@)], ty, "AllowImplicit")

CheckReturn(ty, e) == Converted(e, ty, "AllowImplicit")

CheckCondition(e) == IF IsBooleanEvaluable(e.ty) THEN e ELSE Fatal("no condition")

(* The definition or the statement of a kind that expression e is all of,  *)
(* where a value of type ty is declared or returned.                       *)
CheckRoot(kind, ty, e) ==
  CASE Failed(e)                   -> e
    [] kind \in {"Global", "Local"} -> CheckVariable(kind, ty, e)
    [] kind = "Ret"                -> CheckReturn(ty, e)
    [] kind \in {"If", "Until"}    -> CheckCondition(e)
    [] OTHER                       -> e

Analysed(kind, ty, e) ==
  LET resolved == Resolve(e)
  IN  IF Failed(resolved) THEN resolved ELSE CheckRoot(kind, ty, Check(resolved))
=============================================================================
