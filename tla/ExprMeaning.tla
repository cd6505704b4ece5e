------------------------------ MODULE ExprMeaning ------------------------------
(***************************************************************************)
(* What an analysed expression means: its value, the memory it leaves and  *)
(* the calls it makes, by the types of its nodes.  The language follows C  *)
(* in this, with wrapping integers and operands taken from left to right.  *)
(* Nothing here models the compiler: generated code is compared with it.   *)
(***************************************************************************)
EXTENDS IRMachine, TypeSystem

CONSTANTS
  Values,   \* Values[name]: the defn and type of what a name refers to
  Fields    \* Fields[struct]: the fields of a struct, <<name, type>>

RECURSIVE Under(_)
Under(t) == IF t.cls \in {"Alias", "Enum"} THEN Under(t.under) ELSE t

Width(t) ==
  LET u == Under(t)
  IN  CASE u.cls # "Builtin" -> 64
        [] u.kind \in {"Bool", "Char", "Int8", "UInt8"}  -> 8
        [] u.kind \in {"Int16", "UInt16"}                -> 16
        [] u.kind \in {"Int32", "UInt32", "Float32"}     -> 32
        [] OTHER                                         -> 64

RECURSIVE Shape(_)
Shape(t) ==
  CASE t.cls \in {"Alias", "Enum"} -> Shape(t.under)
    [] t.cls = "Array"  -> ArrayTy(Shape(t.element), t.size, "")
    [] t.cls = "Struct" -> StructTy(t.name)
    [] IsVoid(t)        -> VoidTy
    [] IsFloat(t)       -> FloatTy(Width(t))
    [] IsInteger(t)     -> IntTy(Width(t))
    [] OTHER            -> PtrTy(VoidTy)

Shapes == [s \in DOMAIN Fields |-> [i \in DOMAIN Fields[s] |-> Shape(Fields[s][i][2])]]

Bytes(t) == SizeOf(Shape(t), Shapes)

Integral(t) == IsInteger(Under(t))

Floating(t) == IsFloat(Under(t))

Pointing(t) == Under(t).cls = "Pointer"

Signed(t) == IsKind(Under(t), SignedKinds)

(* The number that the bits v of an integer type stand for.                *)
Number(t, v) == IF Signed(t) THEN v ELSE Unsigned(Width(t), v)

(* What can be compared, and be a condition.                               *)
Comparable(t) == Integral(t) \/ Floating(t) \/ Pointing(t)

UndefinedValue(S) == Of(Undefined(S), 0)

(* What is at an address: of an array, that is where it begins.            *)
Fetch(S, t, address) ==
  CASE Under(t).cls = "Array" -> Of(S, address)
    [] Scalar(Shape(t))       -> ReadCell(S, Bytes(t), address)
    [] OTHER                  -> UndefinedValue(S)

Converted(S, v, from, to) ==
  LET n == Number(from, v)
      whole == Quotient(v, Quarters)
  IN  CASE Integral(from) /\ Integral(to) -> Of(S, Wrapped(Width(to), n))
        [] Integral(from) /\ Floating(to) -> Of(S, n * Quarters)
        [] Integral(from) /\ Pointing(to) ->
             IF n < 0 THEN UndefinedValue(S) ELSE Of(S, n)
        [] Floating(from) /\ Integral(to) ->
             IF Fits(Width(to), Signed(to), whole) THEN Of(S, Wrapped(Width(to), whole))
             ELSE UndefinedValue(S)
        [] Pointing(from) /\ Integral(to) -> Of(S, Wrapped(Width(to), v))
        [] Floating(from) /\ Floating(to) -> Of(S, v)
        [] Pointing(to) /\ Under(from).cls \in {"Pointer", "Array"} -> Of(S, v)
        [] OTHER                          -> UndefinedValue(S)

FloatOps ==
  [Add |-> "FADD", Sub |-> "FSUB", Mul |-> "FMUL", Div |-> "FDIV", Mod |-> "FMOD"]

SignedOps ==
  [Add |-> "IADD", Sub |-> "ISUB", Mul |-> "IMUL", Div |-> "SDIV", Mod |-> "SMOD",
   And |-> "AND", Or |-> "OR", Xor |-> "XOR", LShift |-> "SHL", RShift |-> "SAR"]

UnsignedOps ==
  [SignedOps EXCEPT !.Div = "UDIV", !.Mod = "UMOD", !.RShift = "SHR"]

OpNames(t) ==
  IF Floating(t) THEN FloatOps ELSE IF Signed(t) THEN SignedOps ELSE UnsignedOps

Comparisons == {"Eq", "NEq", "Lt", "LtEq", "Gt", "GtEq"}

(* The value of an expression, or the address of what it names.            *)
RECURSIVE Denoted(_, _, _)

Eval(S, e) == Denoted("value", S, e)

Locate(S, e) == Denoted("address", S, e)

EvalBinary(S, e) ==
  LET l == Eval(S, e.lhs)
      r == Eval(l.S, e.rhs)
      t == e.lhs.ty
      by == (IF e.op = "Sub" THEN -1 ELSE 1) * Number(e.rhs.ty, r.v) * Bytes(t.pointee)
  IN  CASE e.op \in Comparisons /\ Comparable(t) ->
             Of(r.S, Compared(<<IF Signed(t) \/ Floating(t) THEN "s" ELSE "u", e.op>>,
                              Width(t), l.v, r.v))
        [] t.cls = "Pointer" /\ e.op \in {"Add", "Sub"} /\ Integral(e.rhs.ty) ->
             IF Bytes(t.pointee) = 0 THEN UndefinedValue(S) ELSE Of(r.S, l.v + by)
        [] /\ \/ Integral(t) /\ Integral(e.rhs.ty)
              \/ Floating(t) /\ Floating(e.rhs.ty)
           /\ e.op \in DOMAIN OpNames(t) ->
             Computed(r.S, OpNames(t)[e.op], Width(t), l.v, r.v)
        [] OTHER -> UndefinedValue(S)

(* Of && and || the right operand counts only if the left one leaves open  *)
(* what the result is.                                                     *)
EvalLogical(S, e) ==
  LET l == Eval(S, e.lhs)
      r == Eval(l.S, e.rhs)
      decided == (l.v = 0) <=> (e.op = "LogicAnd")
  IN  CASE ~Comparable(e.lhs.ty) \/ ~Comparable(e.rhs.ty) -> UndefinedValue(S)
        [] decided -> Of(l.S, IF l.v = 0 THEN 0 ELSE 1)
        [] OTHER   -> Of(r.S, IF r.v = 0 THEN 0 ELSE 1)

EvalAssign(S, e) ==
  LET to == Locate(S, e.lhs)
      v  == Eval(to.S, e.rhs)
  IN  IF Scalar(Shape(e.lhs.ty)) THEN Of(WriteCell(v.S, Bytes(e.lhs.ty), to.v, v.v), v.v)
      ELSE UndefinedValue(S)

EvalUnary(S, e) ==
  LET x == Eval(S, e.expr)
      w == Width(e.ty)
  IN  CASE e.op = "AddressOf"   -> Locate(S, e.expr)
        [] e.op = "Dereference" -> Fetch(x.S, e.ty, x.v)
        [] e.op = "LogicNot"    ->
             IF Comparable(e.expr.ty) THEN Of(x.S, IF x.v = 0 THEN 1 ELSE 0)
             ELSE UndefinedValue(x.S)
        [] e.op = "Not"         -> Of(x.S, Wrapped(w, -x.v - 1))
        [] Floating(e.ty)       -> Of(x.S, -x.v)
        [] OTHER                -> Of(x.S, Wrapped(w, -x.v))

RECURSIVE EvalArgs(_, _)
EvalArgs(S, args) ==
  IF args = << >> THEN Of(S, << >>)
  ELSE LET first == Eval(S, Head(args))
           rest  == EvalArgs(first.S, Tail(args))
       IN  Of(rest.S, <<first.v>> \o rest.v)

EvalCall(S, e) ==
  LET args == EvalArgs(S, e.args)
      F    == e.callee.ty
      wrap(n) == IF IsVoid(F.ret) THEN n ELSE Wrapped(Width(F.ret), n)
  IN  Called(args.S, e.callee.name, [i \in DOMAIN args.v |-> Bytes(F.params[i])],
             args.v, wrap)

AddressOf(S, e) ==
  LET viaPointer == e.base.ty.cls = "Pointer"
      base   == IF viaPointer THEN Eval(S, e.base) ELSE Locate(S, e.base)
      struct == IF viaPointer THEN e.base.ty.pointee ELSE e.base.ty
      index  == Eval(base.S, e.index)
  IN  CASE e.k = "Ref" -> Of(S, Addresses[e.name])
        [] e.k = "Unary" /\ e.op = "Dereference" -> Eval(S, e.expr)
        [] e.k = "Access" ->
             Of(base.S, base.v + FieldOffset(Shapes[struct.name], e.field, Shapes))
        [] e.k = "Subscript" ->
             IF Integral(e.index.ty) /\ Bytes(e.ty) > 0
             THEN Of(index.S, base.v + Number(e.index.ty, index.v) * Bytes(e.ty))
             ELSE UndefinedValue(S)
        [] OTHER -> UndefinedValue(S)

ValueOf(S, e) ==
  LET at == Locate(S, e)
      x  == Eval(S, e.expr)
  IN  CASE e.k \in {"Bool", "Char", "Integer"} -> Of(S, Wrapped(Width(e.ty), e.value))
        [] e.k = "Float"  -> Of(S, e.value)
        [] e.k = "Null"   -> Of(S, 0)
        [] e.k = "String" -> Of(S, Addresses[e.value])
        [] e.k = "Sizeof" -> Of(S, Bytes(e.target))
        [] e.k = "Ref" /\ e.defn = "Variant" -> Of(S, Values[e.name].value)
        [] e.k \in {"Ref", "Access", "Subscript"} -> Fetch(at.S, e.ty, at.v)
        [] e.k = "Paren"  -> x
        [] e.k = "Cast"   -> Converted(x.S, x.v, e.expr.ty, e.ty)
        [] e.k = "Call"   -> EvalCall(S, e)
        [] e.k = "Unary"  -> EvalUnary(S, e)
        [] e.op = "Assign" -> EvalAssign(S, e)
        [] e.op \in {"LogicAnd", "LogicOr"} -> EvalLogical(S, e)
        [] OTHER -> EvalBinary(S, e)

Denoted(what, S, e) == IF what = "value" THEN ValueOf(S, e) ELSE AddressOf(S, e)
=============================================================================
